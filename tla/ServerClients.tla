---------------------------- MODULE ServerClients ----------------------------
(* How the front end gets a client for each server it knows: the map of clients and
   the set of servers being loaded (clients.ts), the servers of the store, and what
   runs when the page opens: the server the page came from is loaded, selected, and the
   servers it recommends are loaded one after the other (servers_state.ts).

   Everything runs in one thread, but a call sleeps while it polls for another's load
   and while it waits for the network, and each store write is a timer.  One server's
   version and configuration are loaded at once here; the page cannot tell them apart. *)
EXTENDS Naturals, Sequences, SequencesExt, FiniteSets

CONSTANTS
    Servers,
    Primary,        \* the server the page was opened on
    Recommended,    \* serverConfiguration.federationInfo.servers of the primary, in order
    ByDefault,      \* those configuredByDefault
    Calls,          \* calls that can be in progress at once
    Retries,        \* totalRetries (5)
    MaxVersion,     \* bound on the configurations a server goes through
    MaxAsked,       \* bound on what users, pages and other admins do
    MaxFaults,      \* bound on the loads that fail
    None

ASSUME ClientsAssumption ==
    /\ Primary \in Servers
    /\ Recommended \in Seq(Servers)
    /\ ByDefault \subseteq Servers
    /\ Retries \in Nat /\ MaxVersion \in Nat
    /\ None \notin Servers \cup Nat

VARIABLES
    version,        \* the configuration each server answers with
    clients,        \* clients: the configuration each client was created with, or 0
    loading,        \* loadingClients
    call,           \* the calls of getServerClient in progress
    timers,         \* the upserts set for a millisecond later
    ids, entities,  \* the servers of the store: their order and the configuration of each
    current,        \* currentServerId
    boot,           \* initializeWithServer: where it is
    asked, faults,  \* counters
    removed, saved  \* ghosts: servers removed, or reconfigured from here, at some time

storeVars == <<ids, entities, current>>
ghosts == <<asked, faults, removed, saved>>
vars == <<version, clients, loading, call, timers, storeVars, boot, ghosts>>

(* Array.filter: what is kept, in its order.  (SelectSeq, said by positions: the n-th
   item is the one with n kept positions up to its own.) *)
Rank(i, positions) == Cardinality({j \in positions : j <= i})
Filtered(seq, keep) ==
    LET kept == {i \in DOMAIN seq : seq[i] \in keep} IN
    [n \in 1..Cardinality(kept) |-> seq[CHOOSE i \in kept : Rank(i, kept) = n]]

(* Who asks: a page, one that does not want the store to know (skipUpsert), the
   upsertServer thunk with the configuration it was given, or the start. *)
Idle == [pc |-> "idle", server |-> None, left |-> 0, by |-> "nobody", with |-> 0]
Asking(s, by, with) == [pc |-> "looking", server |-> s, left |-> Retries, by |-> by, with |-> with]

Init ==
    /\ version = [s \in Servers |-> 1]
    /\ clients = [s \in Servers |-> 0]
    /\ loading = {}
    /\ \E c \in Calls : call = [d \in Calls |-> IF d = c THEN Asking(Primary, "start", 0) ELSE Idle]
    /\ timers = {}
    /\ ids = <<>> /\ entities = [s \in Servers |-> None]
    /\ current = None
    /\ boot = [at |-> "loading", next |-> 1]
    /\ asked = 0 /\ faults = 0 /\ removed = {} /\ saved = {}

Start(c, s, by, with) ==
    /\ call[c] = Idle
    /\ call' = [call EXCEPT ![c] = Asking(s, by, with)]
Ends(c) == call' = [call EXCEPT ![c] = Idle]
For(c, by) == call[c].pc # "idle" /\ call[c].by = by

-----------------------------------------------------------------------------
(* getConfiguredServerClient. *)

\* Mistake: the set of the servers being loaded is not looked at.
LoadAnyway(s) == TRUE

NotLoading(s) == s \notin loading

(* Nobody is loading it: this call does.  Otherwise it looks again 200 ms later. *)
StartLoad(c) ==
    /\ call[c].pc = "looking" /\ clients[call[c].server] = 0
    /\ NotLoading(call[c].server)
    /\ loading' = loading \cup {call[c].server}
    /\ call' = [call EXCEPT ![c].pc = "loading"]
    /\ UNCHANGED <<version, clients, timers, storeVars, boot, ghosts>>

(* The call has a client: there is one, or its own load succeeds. *)
Obtains(c) ==
    \/ /\ call[c].pc = "looking" /\ clients[call[c].server] # 0
       /\ UNCHANGED <<clients, loading>>
    \/ /\ call[c].pc = "loading"
       /\ clients' = [clients EXCEPT ![call[c].server] = version[call[c].server]]
       /\ loading' = loading \ {call[c].server}

\* Mistake: the mark is taken away where a load succeeds only.
KeptMark(c) == loading

Unmarked(c) == loading \ {call[c].server}

(* An RPC fails or takes more than five seconds. *)
LoadFails(c) ==
    /\ call[c].pc = "loading" /\ faults < MaxFaults
    /\ faults' = faults + 1
    /\ loading' = Unmarked(c)
    /\ UNCHANGED <<version, clients, timers, asked, removed, saved>>
TryAgain(c) ==
    /\ LoadFails(c) /\ call[c].left > 0
    /\ call' = [call EXCEPT ![c] =
           [Asking(call[c].server, call[c].by, call[c].with) EXCEPT !.left = call[c].left - 1]]
    /\ UNCHANGED <<storeVars, boot>>
GiveUp(c) == LoadFails(c) /\ call[c].left = 0 /\ Ends(c)

-----------------------------------------------------------------------------
(* getServerClient. *)

Outdated(s) == entities[s] # clients'[s]

\* Mistake: as with skipUpsert.
NoticedByNobody(s) == timers' = timers

(* A millisecond later the server is written to the store, if its configuration is not
   the one the client was created with. *)
Noticed(s) ==
    timers' = IF Outdated(s) THEN timers \cup {[server |-> s, with |-> clients'[s]]} ELSE timers

AskPage(c, s, by) ==
    /\ asked < MaxAsked /\ asked' = asked + 1
    /\ Start(c, s, by, 0)
    /\ UNCHANGED <<version, clients, loading, timers, storeVars, boot, faults, removed, saved>>
PageServed(c) ==
    /\ Obtains(c)
    /\ \/ For(c, "page") /\ Noticed(call[c].server)
       \/ For(c, "peek") /\ timers' = timers
    /\ Ends(c)
    /\ UNCHANGED <<version, storeVars, boot, ghosts>>

(* upsertServer: the timers, and a user who adds a server. *)
RunTimer(c) ==
    /\ \E t \in timers :
        /\ timers' = timers \ {t}
        /\ Start(c, t.server, "upsert", t.with)
    /\ UNCHANGED <<version, clients, loading, storeVars, boot, ghosts>>
AddServer(c, s) ==
    /\ asked < MaxAsked /\ asked' = asked + 1
    /\ entities[s] = None
    /\ Start(c, s, "upsert", 0)
    /\ UNCHANGED <<version, clients, loading, timers, storeVars, boot, faults, removed, saved>>

\* Mistake: the server given replaces the store's.
Replaced(s, with) == with

(* The server given is merged into the store's: one without a configuration keeps the
   one that is there. *)
Merged(s, with) == IF with = 0 /\ entities[s] # None THEN entities[s] ELSE with
UpsertFulfilled(c) ==
    LET s == call[c].server IN
    /\ For(c, "upsert") /\ Obtains(c)
    /\ Noticed(s)
    /\ entities' = [entities EXCEPT ![s] = Merged(s, call[c].with)]
    /\ ids' = IF entities[s] = None THEN Append(ids, s) ELSE ids
    /\ Ends(c)
    /\ UNCHANGED <<version, current, boot, ghosts>>

CallGivenUp(c) ==
    /\ GiveUp(c)
    /\ call[c].by # "start"
    /\ UNCHANGED <<storeVars, boot>>

(* An admin saves a new configuration of the server and the page stores it. *)
SaveConfiguration(c, s) ==
    /\ asked < MaxAsked /\ asked' = asked + 1
    /\ version[s] < MaxVersion /\ clients[s] # 0 /\ entities[s] # None
    /\ version' = [version EXCEPT ![s] = @ + 1]
    /\ Start(c, s, "upsert", version[s] + 1)
    /\ saved' = saved \cup {s}
    /\ UNCHANGED <<clients, loading, timers, storeVars, boot, faults, removed>>

(* The server is reconfigured from elsewhere. *)
Reconfigured(s) ==
    /\ asked < MaxAsked /\ asked' = asked + 1
    /\ version[s] < MaxVersion
    /\ version' = [version EXCEPT ![s] = @ + 1]
    /\ UNCHANGED <<clients, loading, call, timers, storeVars, boot, faults, removed, saved>>

(* removeServer, which the page offers for any server but its own. *)
RemoveServer(s) ==
    /\ asked < MaxAsked /\ asked' = asked + 1
    /\ s # Primary /\ entities[s] # None
    /\ clients' = [clients EXCEPT ![s] = 0]
    /\ loading' = loading \ {s}
    /\ ids' = Filtered(ids, Servers \ {s})
    /\ entities' = [entities EXCEPT ![s] = None]
    /\ removed' = removed \cup {s}
    /\ UNCHANGED <<version, call, timers, current, boot, faults, saved>>

-----------------------------------------------------------------------------
(* initializeWithServer. *)

Boots(at, next) == boot' = [at |-> at, next |-> next]

(* Nothing catches a failure of the first load: the start stays where it is. *)
StartFails(c) ==
    /\ boot.at = "loading" /\ For(c, "start") /\ GiveUp(c)
    /\ Boots("failed", 1)
    /\ UNCHANGED storeVars
StartLoaded(c) ==
    /\ boot.at = "loading" /\ For(c, "start") /\ Obtains(c)
    /\ Noticed(Primary)
    /\ Ends(c)
    /\ Boots("polling", 1)
    /\ UNCHANGED <<version, storeVars, ghosts>>

(* Looked for every 10 ms until the upsert has reached the store, then selected. *)
SelectPrimary ==
    /\ boot.at = "polling" /\ entities[Primary] # None
    /\ current' = Primary
    /\ Boots("next", 1)
    /\ UNCHANGED <<version, clients, loading, call, timers, ids, entities, ghosts>>

Federated == <<Primary>> \o Filtered(Recommended, Servers \ {Primary})
ToLoad ==
    /\ boot.at = "next" /\ boot.next <= Len(Federated)
    /\ Federated[boot.next] \in ByDefault \ {Primary}

(* setServerIdOrder: the order the primary gives, if these are all the servers. *)
Expected == <<Primary>> \o Filtered(Recommended, ToSet(ids))

\* Mistake: the servers are put in order whether these are all or not.
AlwaysOrdered == Expected

Ordered == IF Len(ids) = Len(Expected) THEN Expected ELSE ids

Settle(next) ==
    /\ ids' = Ordered
    /\ Boots("next", next)
    /\ UNCHANGED <<entities, current>>

(* The recommended servers configured by default are loaded, each before the next;
   a failure is caught. *)
LoadRecommended(c) ==
    /\ ToLoad
    /\ Start(c, Federated[boot.next], "start", 0)
    /\ Boots("waiting", boot.next)
    /\ UNCHANGED <<version, clients, loading, timers, storeVars, ghosts>>
SkipRecommended ==
    /\ boot.at = "next" /\ boot.next <= Len(Federated) /\ ~ToLoad
    /\ Settle(boot.next + 1)
    /\ UNCHANGED <<version, clients, loading, call, timers, ghosts>>
RecommendedLoaded(c) ==
    /\ boot.at = "waiting" /\ For(c, "start") /\ Obtains(c)
    /\ Noticed(call[c].server)
    /\ Ends(c)
    /\ Settle(boot.next + 1)
    /\ UNCHANGED <<version, ghosts>>
RecommendedFails(c) ==
    /\ boot.at = "waiting" /\ For(c, "start") /\ GiveUp(c)
    /\ Settle(boot.next + 1)

(* finishConfiguringFederation. *)
FinishStart ==
    /\ boot.at = "next" /\ boot.next > Len(Federated)
    /\ Boots("finished", boot.next)
    /\ UNCHANGED <<version, clients, loading, call, timers, storeVars, ghosts>>

-----------------------------------------------------------------------------
UserStep ==
    \E s \in Servers :
        \/ \E c \in Calls : \/ \E by \in {"page", "peek"} : AskPage(c, s, by)
                            \/ AddServer(c, s) \/ SaveConfiguration(c, s)
        \/ RemoveServer(s) \/ Reconfigured(s)
CallStep(c) ==
    \/ StartLoad(c) \/ TryAgain(c) \/ CallGivenUp(c)
    \/ PageServed(c) \/ UpsertFulfilled(c)
    \/ StartFails(c) \/ StartLoaded(c) \/ RecommendedLoaded(c) \/ RecommendedFails(c)
Page ==
    \/ SelectPrimary \/ SkipRecommended \/ FinishStart
    \/ \E c \in Calls : RunTimer(c) \/ LoadRecommended(c)
Next == UserStep \/ Page \/ \E c \in Calls : CallStep(c)

(* Timers and polls run, and every RPC is answered, fails or times out. *)
Fairness == WF_vars(Page) /\ \A c \in Calls : WF_vars(CallStep(c))
Spec == Init /\ [][Next]_vars
FairSpec == Spec /\ Fairness

-----------------------------------------------------------------------------
(* Properties. *)

Configuration == 0..MaxVersion
TypeOK ==
    /\ version \in [Servers -> Configuration \ {0}]
    /\ clients \in [Servers -> Configuration]
    /\ loading \subseteq Servers
    /\ call \in [Calls -> [pc : {"idle", "looking", "loading"}, server : Servers \cup {None},
                           left : 0..Retries, with : Configuration,
                           by : {"nobody", "page", "peek", "upsert", "start"}]]
    /\ timers \subseteq [server : Servers, with : Configuration]
    /\ ids \in Seq(Servers)
    /\ entities \in [Servers -> Configuration \cup {None}]
    /\ current \in Servers \cup {None}
    /\ boot.at \in {"loading", "failed", "polling", "next", "waiting", "finished"}
    /\ boot.next \in 1..(Len(Recommended) + 2)
    /\ removed \subseteq Servers /\ saved \subseteq Servers

Loaders(s) == {c \in Calls : call[c].pc = "loading" /\ call[c].server = s}

(* However many calls ask for a server at once, one loads it and the others wait, and
   the mark they wait for is there exactly while it is being loaded.  (Removing a
   server takes the mark from under a load: two may then run.) *)
OneLoaderEach ==
    \A s \in Servers \ removed :
        /\ Cardinality(Loaders(s)) <= 1
        /\ s \in loading <=> Loaders(s) # {}

Quiet(s) == (\A c \in Calls : call[c].server # s) /\ (\A t \in timers : t.server # s)

(* When nothing is under way for a server that is in the store, the store has the
   configuration of its client: every way to add a server ends with it. *)
StoreFollowsClient ==
    \A s \in Servers \ (removed \cup saved) :
        Quiet(s) /\ entities[s] # None => entities[s] = clients[s]

(* The primary recommends other servers, each once.  Nothing makes it
   (configuration_validation.rs does not look at federation_info.servers). *)
ListsOnce == IsInjective(Recommended) /\ ~Contains(Recommended, Primary)

(* The order of the servers lists servers of the store only, and each of them once if the
   primary recommends each once, also when the user adds and removes servers while the
   start puts them in the primary's order (servers_state.ts:147-158). *)
IdsMatchEntities ==
    /\ \A s \in Servers : Contains(ids, s) => entities[s] # None
    /\ ListsOnce =>
        /\ IsInjective(ids)
        /\ \A s \in Servers : entities[s] # None => Contains(ids, s)

(* Every call ends: its retries are counted, and whoever waits for another's load takes
   over when that load fails. *)
CallsFinish == \A c \in Calls : call[c].pc # "idle" ~> call[c].pc = "idle"

(* Once the first load has succeeded, the start comes to its end, for which the pages
   show a spinner (configuringFederation), whichever recommended servers fail. *)
StartFinishes == boot.at = "polling" ~> boot.at = "finished"

(* What servers_state.ts:70 relies on, that asking for the client brings the store up to
   date: the configuration in the store never goes back to an older one. *)
NeverOutdated ==
    [][\A s \in Servers : entities[s] # None /\ entities'[s] # None => entities'[s] >= entities[s]]_vars
=============================================================================
