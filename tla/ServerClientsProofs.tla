------------------------ MODULE ServerClientsProofs ------------------------
(* That a server is loaded by one call at a time, and that the store ends with the
   configuration its client has, for any servers, calls, retries and faults.  What changes
   in a step is one call, and the mark of its server with it; the lemmas say what that
   does to the loads of every server, and then to what the store has of it. *)
EXTENDS ServerClients, FiniteSetTheorems, TLAPS

IsCall(r) == r = [pc |-> r.pc, server |-> r.server, left |-> r.left, by |-> r.by, with |-> r.with]

(* The loads of s, as the mark of s tells them. *)
Marked(s) ==
    /\ \A c, d \in Loaders(s) : c = d
    /\ s \in loading <=> Loaders(s) # {}

CallsTyped == call = [c \in Calls |-> call[c]] /\ \A c \in Calls : IsCall(call[c])

LoadsInv ==
    /\ CallsTyped
    /\ \A s \in Servers \ removed : Marked(s)

-----------------------------------------------------------------------------
(* Steps that start or end no load. *)
LEMMA NoLoadChanges ==
    ASSUME LoadsInv, CallsTyped', loading' = loading, removed' = removed,
           \A s \in Servers : Loaders(s)' = Loaders(s)
    PROVE  LoadsInv'
  BY DEF LoadsInv, Marked

(* A call that is not loading before or after. *)
LEMMA OtherCallChanges ==
    ASSUME LoadsInv, loading' = loading, removed' = removed, NEW c \in Calls, NEW r,
           call' = [call EXCEPT ![c] = r], call[c].pc # "loading", r.pc # "loading", IsCall(r)
    PROVE  LoadsInv'
  <1>1. CallsTyped'
    BY DEF LoadsInv, CallsTyped, IsCall
  <1>2. ASSUME NEW s \in Servers PROVE Loaders(s)' = Loaders(s)
    <2>1. ASSUME NEW d \in Calls, d # c PROVE call'[d] = call[d]
      BY <2>1 DEF LoadsInv, CallsTyped
    <2>2. call'[c] = r
      BY DEF LoadsInv, CallsTyped
    <2> QED
      BY <2>1, <2>2 DEF Loaders
  <1> QED
    BY <1>1, <1>2, NoLoadChanges

(* The load of a call ends, with or without success, and its mark goes with it. *)
LEMMA LoadEnds ==
    ASSUME LoadsInv, removed' = removed, NEW c \in Calls, NEW r,
           call' = [call EXCEPT ![c] = r], call[c].pc = "loading", r.pc # "loading", IsCall(r),
           loading' = loading \ {call[c].server}
    PROVE  LoadsInv'
  <1>1. CallsTyped'
    BY DEF LoadsInv, CallsTyped, IsCall
  <1>2. ASSUME NEW s \in Servers PROVE Loaders(s)' = Loaders(s) \ {c}
    <2>1. ASSUME NEW d \in Calls, d # c PROVE call'[d] = call[d]
      BY <2>1 DEF LoadsInv, CallsTyped
    <2>2. call'[c] = r
      BY DEF LoadsInv, CallsTyped
    <2> QED
      BY <2>1, <2>2 DEF Loaders
  <1>3. ASSUME NEW s \in Servers \ removed PROVE Marked(s)'
    <2>1. Marked(s)
      BY DEF LoadsInv
    <2>2. CASE s = call[c].server
      <3>1. Loaders(s) = {c}
        BY <2>1, <2>2 DEF Marked, Loaders
      <3> QED
        BY <1>2, <2>2, <3>1 DEF Marked
    <2>3. CASE s # call[c].server
      <3>1. Loaders(s)' = Loaders(s)
        BY <1>2, <2>3 DEF Loaders
      <3> QED
        BY <2>1, <2>3, <3>1 DEF Marked
    <2> QED
      BY <2>2, <2>3
  <1> QED
    BY <1>1, <1>3 DEF LoadsInv

(* A call that found no mark begins to load. *)
LEMMA LoadBegins ==
    ASSUME LoadsInv, NEW c \in Calls, StartLoad(c)
    PROVE  LoadsInv'
  <1> DEFINE r == [call[c] EXCEPT !.pc = "loading"]
  <1>0. call' = [call EXCEPT ![c] = r] /\ IsCall(r) /\ r.pc = "loading" /\ r.server = call[c].server
    BY DEF LoadsInv, CallsTyped, IsCall, StartLoad
  <1> HIDE DEF r
  <1>1. CallsTyped'
    BY <1>0 DEF LoadsInv, CallsTyped, IsCall
  <1>2. ASSUME NEW d \in Calls PROVE call'[d].server = call[d].server
    BY <1>0 DEF LoadsInv, CallsTyped
  <1>3. ASSUME NEW d \in Calls, d # c PROVE call'[d].pc = call[d].pc
    BY <1>0, <1>3 DEF LoadsInv, CallsTyped
  <1>4. call'[c].pc = "loading" /\ call[c].pc # "loading"
    BY <1>0 DEF LoadsInv, CallsTyped, StartLoad
  <1>5. ASSUME NEW s \in Servers \ removed PROVE Marked(s)'
    <2>1. Marked(s)
      BY DEF LoadsInv
    <2>2. CASE s = call[c].server
      <3>1. Loaders(s) = {}
        BY <2>1, <2>2 DEF Marked, StartLoad, NotLoading
      <3>2. Loaders(s)' = {c}
        BY <1>2, <1>3, <1>4, <2>2, <3>1 DEF Loaders
      <3> QED
        BY <2>2, <3>2 DEF Marked, StartLoad
    <2>3. CASE s # call[c].server
      <3>1. Loaders(s)' = Loaders(s)
        BY <1>2, <1>3, <1>4, <2>3 DEF Loaders
      <3> QED
        BY <2>1, <2>3, <3>1 DEF Marked, StartLoad
    <2> QED
      BY <2>2, <2>3
  <1> QED
    BY <1>1, <1>5 DEF LoadsInv, StartLoad, ghosts
-----------------------------------------------------------------------------
(* What calls of getServerClient do: they are made, fail, or end with a client. *)
LEMMA Made ==
    ASSUME LoadsInv, loading' = loading, removed' = removed, NEW c \in Calls,
           NEW s, NEW by, NEW with, Start(c, s, by, with)
    PROVE  LoadsInv'
  <1>1. call[c].pc # "loading"
    BY DEF Start, Idle
  <1>2. IsCall(Asking(s, by, with)) /\ Asking(s, by, with).pc # "loading"
    BY DEF IsCall, Asking
  <1> QED
    BY <1>1, <1>2, OtherCallChanges DEF Start

LEMMA IdleIsNoLoad == IsCall(Idle) /\ Idle.pc # "loading"
  BY DEF IsCall, Idle

LEMMA Failed ==
    ASSUME LoadsInv, NEW c \in Calls, TryAgain(c) \/ GiveUp(c)
    PROVE  LoadsInv'
  <1>1. call[c].pc = "loading" /\ loading' = loading \ {call[c].server} /\ removed' = removed
    BY DEF TryAgain, GiveUp, LoadFails, Unmarked
  <1>2. CASE TryAgain(c)
    <2> DEFINE r == [Asking(call[c].server, call[c].by, call[c].with) EXCEPT !.left = call[c].left - 1]
    <2>1. call' = [call EXCEPT ![c] = r]
      BY <1>2 DEF TryAgain
    <2>2. IsCall(r) /\ r.pc # "loading"
      BY DEF IsCall, Asking
    <2> HIDE DEF r
    <2> QED
      BY <1>1, <2>1, <2>2, LoadEnds
  <1>3. CASE GiveUp(c)
    BY <1>1, <1>3, IdleIsNoLoad, LoadEnds DEF GiveUp, Ends
  <1> QED
    BY <1>2, <1>3

LEMMA Obtained ==
    ASSUME LoadsInv, NEW c \in Calls, Obtains(c), Ends(c), removed' = removed
    PROVE  LoadsInv'
  <1>1. CASE call[c].pc = "looking"
    BY <1>1, IdleIsNoLoad, OtherCallChanges DEF Obtains, Ends
  <1>2. CASE call[c].pc = "loading"
    BY <1>2, IdleIsNoLoad, LoadEnds DEF Obtains, Ends
  <1> QED
    BY <1>1, <1>2 DEF Obtains

-----------------------------------------------------------------------------
LEMMA LoadsInit == Init => LoadsInv
  <1> SUFFICES ASSUME Init PROVE LoadsInv
    OBVIOUS
  <1>1. PICK c \in Calls : call = [d \in Calls |-> IF d = c THEN Asking(Primary, "start", 0) ELSE Idle]
    BY DEF Init
  <1>2. CallsTyped
    BY <1>1 DEF CallsTyped, IsCall, Asking, Idle
  <1>3. ASSUME NEW d \in Calls PROVE call[d].pc # "loading"
    BY <1>1 DEF Asking, Idle
  <1>4. ASSUME NEW s \in Servers PROVE Marked(s)
    BY <1>3 DEF Init, Marked, Loaders
  <1> QED
    BY <1>2, <1>4 DEF LoadsInv

LEMMA LoadsNext ==
    ASSUME LoadsInv, [Next]_vars
    PROVE  LoadsInv'
  <1>1. CASE UserStep
    <2>1. PICK s \in Servers :
             \/ \E c \in Calls : \/ \E by \in {"page", "peek"} : AskPage(c, s, by)
                                 \/ AddServer(c, s) \/ SaveConfiguration(c, s)
             \/ RemoveServer(s) \/ Reconfigured(s)
      BY <1>1 DEF UserStep
    <2>2. ASSUME NEW c \in Calls, NEW by, AskPage(c, s, by) PROVE LoadsInv'
      BY <2>2, Made DEF AskPage
    <2>3. ASSUME NEW c \in Calls, AddServer(c, s) PROVE LoadsInv'
      BY <2>3, Made DEF AddServer
    <2>4. ASSUME NEW c \in Calls, SaveConfiguration(c, s) PROVE LoadsInv'
      BY <2>4, Made DEF SaveConfiguration
    <2>5. CASE RemoveServer(s)
      <3>1. call' = call /\ loading' = loading \ {s} /\ removed' = removed \cup {s}
        BY <2>5 DEF RemoveServer
      <3>2. ASSUME NEW t \in Servers \ removed' PROVE Marked(t)'
        <4>1. Marked(t) /\ t # s
          BY <3>1 DEF LoadsInv
        <4>2. Loaders(t)' = Loaders(t)
          BY <3>1 DEF Loaders
        <4> QED
          BY <3>1, <4>1, <4>2 DEF Marked
      <3> QED
        BY <3>1, <3>2 DEF LoadsInv, CallsTyped
    <2>6. CASE Reconfigured(s)
      BY <2>6 DEF Reconfigured, LoadsInv, CallsTyped, Marked, Loaders
    <2> QED
      BY <2>1, <2>2, <2>3, <2>4, <2>5, <2>6
  <1>2. CASE Page
    <2>1. CASE SelectPrimary \/ SkipRecommended \/ FinishStart
      BY <2>1 DEF SelectPrimary, SkipRecommended, FinishStart, ghosts, LoadsInv, CallsTyped, Marked, Loaders
    <2>2. ASSUME NEW c \in Calls, RunTimer(c) PROVE LoadsInv'
      BY <2>2, Made DEF RunTimer, ghosts
    <2>3. ASSUME NEW c \in Calls, LoadRecommended(c) PROVE LoadsInv'
      BY <2>3, Made DEF LoadRecommended, ghosts
    <2> QED
      BY <1>2, <2>1, <2>2, <2>3 DEF Page
  <1>3. ASSUME NEW c \in Calls, CallStep(c) PROVE LoadsInv'
    <2>1. CASE StartLoad(c)
      BY <2>1, LoadBegins
    <2>2. CASE TryAgain(c) \/ CallGivenUp(c) \/ StartFails(c) \/ RecommendedFails(c)
      BY <2>2, Failed DEF CallGivenUp, StartFails, RecommendedFails
    <2>3. CASE PageServed(c) \/ UpsertFulfilled(c) \/ StartLoaded(c) \/ RecommendedLoaded(c)
      BY <2>3, Obtained DEF PageServed, UpsertFulfilled, StartLoaded, RecommendedLoaded, ghosts
    <2> QED
      BY <1>3, <2>1, <2>2, <2>3 DEF CallStep
  <1>4. CASE UNCHANGED vars
    BY <1>4 DEF vars, ghosts, LoadsInv, CallsTyped, Marked, Loaders
  <1> QED
    BY <1>1, <1>2, <1>3, <1>4 DEF Next

LEMMA MarkedMeansOne == LoadsInv => OneLoaderEach
  <1> SUFFICES ASSUME LoadsInv, NEW s \in Servers \ removed
               PROVE  Cardinality(Loaders(s)) <= 1 /\ (s \in loading <=> Loaders(s) # {})
    BY DEF OneLoaderEach
  <1>1. Marked(s)
    BY DEF LoadsInv
  <1>2. CASE Loaders(s) = {}
    BY <1>1, <1>2, FS_EmptySet DEF Marked
  <1>3. CASE Loaders(s) # {}
    <2>1. PICK c \in Loaders(s) : Loaders(s) = {c}
      BY <1>1, <1>3 DEF Marked
    <2>2. Cardinality(Loaders(s)) = 1
      BY <2>1, FS_Singleton
    <2> QED
      BY <1>1, <2>2 DEF Marked
  <1> QED
    BY <1>2, <1>3

(* Every server that nobody removed is marked as loading by exactly the one call that
   loads it: the inductive invariant of the loads (clients.ts:80-108). *)
THEOREM LoadsInvariant == Spec => []LoadsInv
  <1>1. LoadsInv /\ [Next]_vars => LoadsInv'
    BY LoadsNext
  <1> QED
    BY LoadsInit, <1>1, PTL DEF Spec

(* A server that nobody removed is loaded by one call at a time, and marked exactly
   meanwhile (clients.ts:83-105), for any number of calls and faults. *)
THEOREM OneLoadAtATime == Spec => []OneLoaderEach
  BY LoadsInvariant, MarkedMeansOne, PTL

-----------------------------------------------------------------------------
(* What the store has of a server follows from what its client was created with: the
   client is created once, every write under way carries its configuration or none, and
   as long as the store has another one a write of it is under way. *)
Upserts(c, s) == call[c].pc # "idle" /\ call[c].by = "upsert" /\ call[c].server = s

Tracks(s) ==
    /\ Loaders(s) # {} => clients[s] = 0
    /\ \A t \in timers : t.server = s => t.with = clients[s] /\ clients[s] # 0
    /\ \A c \in Calls : Upserts(c, s) => call[c].with \in {0, clients[s]}
    /\ entities[s] # None => clients[s] # 0
    /\ entities[s] # None /\ entities[s] # clients[s] =>
         \/ \E t \in timers : t.server = s
         \/ \E c \in Calls : Upserts(c, s) /\ call[c].with # 0

CallTyped(r) ==
    /\ r.pc \in {"idle", "looking", "loading"}
    /\ r.pc # "idle" => r.server \in Servers /\ r.with \in Nat

StoreTyped ==
    /\ version \in [Servers -> Nat \ {0}]
    /\ clients \in [Servers -> Nat]
    /\ entities \in [Servers -> Nat \cup {None}]
    /\ timers \subseteq [server : Servers, with : Nat]
    /\ \A c \in Calls : CallTyped(call[c])

(* The first load of the start is of the primary. *)
FirstIsPrimary ==
    boot.at = "loading" => \A c \in Calls : For(c, "start") => call[c].server = Primary

FollowInv ==
    /\ LoadsInv /\ StoreTyped /\ FirstIsPrimary
    /\ \A s \in Servers \ (removed \cup saved) : Tracks(s)

-----------------------------------------------------------------------------
(* A server of which a step changes neither client nor store nor timers, and neither
   loads nor writes. *)
LEMMA Elsewhere ==
  ASSUME NEW s \in Servers, Tracks(s),
         clients'[s] = clients[s], entities'[s] = entities[s],
         \A t : t.server = s => (t \in timers' <=> t \in timers),
         \A c \in Calls : call'[c] = call[c] \/ ~(Upserts(c, s) \/ Upserts(c, s)'),
         Loaders(s)' # {} => Loaders(s) # {}
  PROVE  Tracks(s)'
  <1>1. \A c \in Calls : (Upserts(c, s) <=> Upserts(c, s)') /\ (Upserts(c, s) => call'[c] = call[c])
    BY DEF Upserts
  <1>2. Loaders(s)' # {} => clients'[s] = 0
    BY DEF Tracks
  <1>3. \A t \in timers' : t.server = s => t.with = clients'[s] /\ clients'[s] # 0
    BY DEF Tracks
  <1>4. \A c \in Calls : Upserts(c, s)' => call'[c].with \in {0, clients'[s]}
    BY <1>1 DEF Tracks
  <1>5. entities'[s] # None => clients'[s] # 0
    BY DEF Tracks
  <1>6. ASSUME entities'[s] # None, entities'[s] # clients'[s]
        PROVE  (\E t \in timers' : t.server = s) \/ \E c \in Calls : Upserts(c, s)' /\ call'[c].with # 0
    BY <1>1, <1>6 DEF Tracks
  <1> QED
    BY <1>2, <1>3, <1>4, <1>5, <1>6 DEF Tracks

(* The fields of calls. *)
LEMMA OneCallChanges ==
  ASSUME LoadsInv, NEW c \in Calls, NEW r, call' = [call EXCEPT ![c] = r]
  PROVE  /\ call'[c] = r
         /\ \A d \in Calls \ {c} : call'[d] = call[d]
  BY DEF LoadsInv, CallsTyped

LEMMA FirstStaysPrimary ==
  ASSUME FollowInv, [Next]_vars
  PROVE  FirstIsPrimary'
  <1>0. \A c \in Calls : CallTyped(call[c])
    BY DEF FollowInv, StoreTyped
  <1> SUFFICES ASSUME boot'.at = "loading", NEW c \in Calls, For(c, "start")'
               PROVE  call'[c].server = Primary
    BY DEF FirstIsPrimary
  <1>1. boot.at = "loading"
    <2>1. \A at, next : Boots(at, next) => boot'.at = at
      BY DEF Boots
    <2>2. CASE UserStep
      BY <2>2 DEF UserStep, AskPage, AddServer, SaveConfiguration, RemoveServer, Reconfigured
    <2>3. CASE Page
      BY <2>1, <2>3 DEF Page, SelectPrimary, SkipRecommended, FinishStart, RunTimer, LoadRecommended, Settle
    <2>4. ASSUME NEW d \in Calls, CallStep(d) PROVE boot.at = "loading"
      BY <2>1, <2>4 DEF CallStep, StartLoad, TryAgain, CallGivenUp, PageServed, UpsertFulfilled,
                        StartFails, StartLoaded, RecommendedLoaded, RecommendedFails, Settle
    <2> QED
      BY <2>2, <2>3, <2>4 DEF Next, vars
  <1>2. ASSUME call'[c] = call[c] PROVE call'[c].server = Primary
    BY <1>1, <1>2 DEF FollowInv, FirstIsPrimary, For
  <1>3. ASSUME For(c, "start"), call'[c].server = call[c].server PROVE call'[c].server = Primary
    BY <1>1, <1>3 DEF FollowInv, FirstIsPrimary
  <1>4. CASE call'[c] # call[c]
    <2>1. ASSUME NEW d \in Calls, NEW r, call' = [call EXCEPT ![d] = r] PROVE d = c /\ call'[c] = r
      BY <1>4, <2>1, OneCallChanges DEF FollowInv
    <2>2. ASSUME NEW d \in Calls, NEW u, NEW by, NEW with, Start(d, u, by, with) PROVE by = "start"
      <3>1. call' = [call EXCEPT ![d] = Asking(u, by, with)]
        BY <2>2 DEF Start
      <3>2. call'[c] = Asking(u, by, with)
        BY <2>1, <3>1
      <3> QED
        BY <3>2 DEF For, Asking
    <2>3. ASSUME NEW d \in Calls, Ends(d) PROVE FALSE
      <3>1. call'[c] = Idle
        BY <2>1, <2>3 DEF Ends
      <3> QED
        BY <3>1 DEF For, Idle
    <2>4. ASSUME NEW d \in Calls, StartLoad(d) PROVE call'[c].server = Primary
      <3>1. d = c /\ call'[c] = [call[c] EXCEPT !.pc = "loading"]
        BY <2>1, <2>4 DEF StartLoad
      <3>2. call'[c].server = call[c].server /\ call'[c].by = call[c].by
        BY <3>1 DEF FollowInv, LoadsInv, CallsTyped, IsCall
      <3> QED
        BY <1>3, <2>4, <3>1, <3>2 DEF For, StartLoad
    <2>5. ASSUME NEW d \in Calls, TryAgain(d) PROVE call'[c].server = Primary
      <3>1. d = c /\ call'[c] = [Asking(call[c].server, call[c].by, call[c].with) EXCEPT !.left = call[c].left - 1]
        BY <2>1, <2>5 DEF TryAgain
      <3>2. call'[c].server = call[c].server /\ call'[c].by = call[c].by
        BY <3>1 DEF Asking
      <3> QED
        BY <1>3, <2>5, <3>1, <3>2 DEF For, TryAgain, LoadFails
    <2>6. CASE UserStep
      BY <1>4, <2>2, <2>6 DEF UserStep, AskPage, AddServer, SaveConfiguration, RemoveServer, Reconfigured
    <2>7. CASE Page
      BY <1>1, <1>4, <2>2, <2>7 DEF Page, SelectPrimary, SkipRecommended, FinishStart, RunTimer,
                                   LoadRecommended, ToLoad
    <2>8. ASSUME NEW d \in Calls, CallStep(d) PROVE call'[c].server = Primary
      BY <2>3, <2>4, <2>5, <2>8 DEF CallStep, CallGivenUp, GiveUp, PageServed, UpsertFulfilled,
                                   StartFails, StartLoaded, RecommendedLoaded, RecommendedFails
    <2> QED
      BY <1>4, <2>6, <2>7, <2>8 DEF Next, vars
  <1> QED
    BY <1>2, <1>4

(* Steps of the page that change no call, client or write. *)
LEMMA StillFollows ==
  ASSUME FollowInv, [Next]_vars, UNCHANGED <<call, clients, timers, entities>>,
         removed' = removed, saved' = saved, version' \in [Servers -> Nat \ {0}]
  PROVE  FollowInv'
  <1>1. LoadsInv'
    BY LoadsNext DEF FollowInv
  <1>2. StoreTyped'
    BY DEF FollowInv, StoreTyped
  <1>3. ASSUME NEW s \in Servers \ (removed \cup saved) PROVE Tracks(s)'
    <2>1. Loaders(s)' = Loaders(s)
      BY DEF Loaders
    <2> QED
      BY <2>1, Elsewhere DEF FollowInv, Upserts
  <1> QED
    BY <1>1, <1>2, <1>3, FirstStaysPrimary DEF FollowInv

(* A call is made: by a page, by the start, by a timer with the configuration it was set
   with, by a user who adds a server without one, or with a new one that an admin saves. *)
LEMMA MadeFollows ==
  ASSUME FollowInv, [Next]_vars, NEW c \in Calls, NEW u \in Servers, NEW by, NEW with \in Nat,
         Start(c, u, by, with), UNCHANGED <<clients, entities>>, version' \in [Servers -> Nat \ {0}],
         removed' = removed, saved \subseteq saved',
         \/ timers' = timers /\ (by = "upsert" => with = 0 \/ u \in saved')
         \/ /\ \E t \in timers : t.server = u /\ t.with = with /\ timers' = timers \ {t}
            /\ by = "upsert"
  PROVE  FollowInv'
  <1> DEFINE r == Asking(u, by, with)
  <1>0. /\ r.pc = "looking" /\ r.server = u /\ r.by = by /\ r.with = with
        /\ call' = [call EXCEPT ![c] = r] /\ call[c].pc = "idle"
    BY DEF Start, Asking, Idle
  <1> HIDE DEF r
  <1>1. call'[c] = r /\ \A d \in Calls \ {c} : call'[d] = call[d]
    BY <1>0, OneCallChanges DEF FollowInv
  <1>2. LoadsInv'
    BY LoadsNext DEF FollowInv
  <1>3. StoreTyped'
    <2>1. \A d \in Calls : CallTyped(call'[d])
      BY <1>0, <1>1 DEF CallTyped, FollowInv, StoreTyped
    <2>2. timers' \subseteq timers
      OBVIOUS
    <2> QED
      BY <2>1, <2>2 DEF FollowInv, StoreTyped
  <1>4. ASSUME NEW s \in Servers \ (removed' \cup saved') PROVE Tracks(s)'
    <2>0. Tracks(s)
      BY <1>4 DEF FollowInv
    <2>1. Loaders(s)' = Loaders(s)
      BY <1>0, <1>1 DEF Loaders
    <2>2. ~Upserts(c, s) /\ (Upserts(c, s)' <=> by = "upsert" /\ u = s)
      BY <1>0, <1>1 DEF Upserts
    <2>3. CASE ~(by = "upsert" /\ u = s)
      <3>1. \A t : t.server = s => (t \in timers' <=> t \in timers)
        BY <2>3
      <3>2. \A d \in Calls : call'[d] = call[d] \/ ~(Upserts(d, s) \/ Upserts(d, s)')
        BY <1>1, <2>2, <2>3
      <3>3. clients'[s] = clients[s] /\ entities'[s] = entities[s]
        OBVIOUS
      <3> QED
        BY <2>0, <2>1, <3>1, <3>2, <3>3, Elsewhere
    <2>4. CASE by = "upsert" /\ u = s
      <3>0. \/ with = 0 /\ timers' = timers
           \/ \E t \in timers : t.server = s /\ t.with = with /\ timers' = timers \ {t}
        BY <1>4, <2>4
      <3>1. with \in {0, clients[s]} /\ (timers' # timers => with # 0)
        BY <2>0, <3>0 DEF Tracks
      <3>2. \A d \in Calls \ {c} : (Upserts(d, s)' <=> Upserts(d, s)) /\ call'[d] = call[d]
        BY <1>1 DEF Upserts
      <3>3. Loaders(s)' # {} => clients'[s] = 0
        BY <2>0, <2>1 DEF Tracks
      <3>4. \A t \in timers' : t.server = s => t.with = clients'[s] /\ clients'[s] # 0
        BY <2>0, <3>0 DEF Tracks
      <3>5. \A d \in Calls : Upserts(d, s)' => call'[d].with \in {0, clients'[s]}
        BY <1>0, <1>1, <2>0, <3>1, <3>2 DEF Tracks
      <3>6. entities'[s] # None => clients'[s] # 0
        BY <2>0 DEF Tracks
      <3>7. ASSUME entities'[s] # None, entities'[s] # clients'[s]
            PROVE  (\E t \in timers' : t.server = s) \/ \E d \in Calls : Upserts(d, s)' /\ call'[d].with # 0
        <4>1. CASE timers' # timers
          BY <1>0, <1>1, <2>2, <2>4, <3>1, <4>1
        <4>2. CASE timers' = timers /\ \E t \in timers : t.server = s
          BY <4>2
        <4>3. CASE \E d \in Calls : Upserts(d, s) /\ call[d].with # 0
          BY <2>2, <3>2, <4>3
        <4> QED
          BY <2>0, <3>7, <4>1, <4>2, <4>3 DEF Tracks
      <3> QED
        BY <3>3, <3>4, <3>5, <3>6, <3>7 DEF Tracks
    <2> QED
      BY <2>3, <2>4
  <1> QED
    BY <1>2, <1>3, <1>4, FirstStaysPrimary DEF FollowInv

(* A load begins, where there is no client, or fails. *)
LEMMA LoadFollows ==
  ASSUME FollowInv, [Next]_vars, NEW c \in Calls, StartLoad(c) \/ TryAgain(c) \/ GiveUp(c),
         entities' = entities
  PROVE  FollowInv'
  <1> DEFINE u == call[c].server
  <1>0. PICK r : /\ call' = [call EXCEPT ![c] = r]
                 /\ r.pc = "idle" \/ (r.server = u /\ r.by = call[c].by /\ r.with = call[c].with)
                 /\ r.pc \in {"idle", "looking", "loading"}
                 /\ r.pc = "loading" => StartLoad(c)
    <2>1. CASE StartLoad(c)
      <3> DEFINE r == [call[c] EXCEPT !.pc = "loading"]
      <3>1. call' = [call EXCEPT ![c] = r]
        BY <2>1 DEF StartLoad
      <3>2. r.pc = "loading" /\ r.server = u /\ r.by = call[c].by /\ r.with = call[c].with
        BY DEF FollowInv, LoadsInv, CallsTyped, IsCall
      <3> HIDE DEF r
      <3> QED
        BY <2>1, <3>1, <3>2
    <2>2. CASE TryAgain(c)
      <3> DEFINE r == [Asking(call[c].server, call[c].by, call[c].with) EXCEPT !.left = call[c].left - 1]
      <3>1. call' = [call EXCEPT ![c] = r]
        BY <2>2 DEF TryAgain
      <3>2. r.pc = "looking" /\ r.server = u /\ r.by = call[c].by /\ r.with = call[c].with
        BY DEF Asking
      <3> HIDE DEF r
      <3> QED
        BY <2>2, <3>1, <3>2
    <2>3. CASE GiveUp(c)
      <3>1. call' = [call EXCEPT ![c] = Idle]
        BY <2>3 DEF GiveUp, Ends
      <3>2. Idle.pc = "idle"
        BY DEF Idle
      <3> QED
        BY <3>1, <3>2
    <2> QED
      BY <2>1, <2>2, <2>3
  <1>1. call'[c] = r /\ \A d \in Calls \ {c} : call'[d] = call[d]
    BY <1>0, OneCallChanges DEF FollowInv
  <1>2. /\ UNCHANGED <<version, clients, timers, removed, saved>>
        /\ call[c].pc # "idle" /\ u \in Servers
        /\ StartLoad(c) => clients[u] = 0
        /\ ~StartLoad(c) => c \in Loaders(u)
    BY DEF StartLoad, TryAgain, GiveUp, LoadFails, FollowInv, StoreTyped, CallTyped, ghosts, Loaders
  <1>3. LoadsInv'
    BY LoadsNext DEF FollowInv
  <1>4. StoreTyped'
    <2>1. CallTyped(r)
      BY <1>0, <1>2 DEF CallTyped, FollowInv, StoreTyped
    <2>2. \A d \in Calls : CallTyped(call'[d])
      BY <1>1, <2>1 DEF FollowInv, StoreTyped
    <2> QED
      BY <1>2, <2>2 DEF FollowInv, StoreTyped
  <1>5. ASSUME NEW s \in Servers \ (removed' \cup saved') PROVE Tracks(s)'
    <2>0. Tracks(s)
      BY <1>2, <1>5 DEF FollowInv
    <2>1. CASE s # u
      <3>1. Loaders(s)' # {} => Loaders(s) # {}
        BY <1>0, <1>1, <2>1 DEF Loaders
      <3>2. \A d \in Calls : call'[d] = call[d] \/ ~(Upserts(d, s) \/ Upserts(d, s)')
        BY <1>0, <1>1, <2>1 DEF Upserts
      <3>3. clients'[s] = clients[s] /\ entities'[s] = entities[s] /\ timers' = timers
        BY <1>2
      <3> QED
        BY <2>0, <3>1, <3>2, <3>3, Elsewhere
    <2>2. CASE s = u
      <3>1. clients[s] = 0
        BY <1>2, <2>0, <2>2 DEF Tracks
      <3>2. \A d \in Calls : Upserts(d, s)' => Upserts(d, s) /\ call'[d].with = call[d].with
        BY <1>0, <1>1, <1>2, <2>2 DEF Upserts
      <3>3. \A d \in Calls : Upserts(d, s)' => call'[d].with \in {0, clients'[s]}
        BY <1>2, <2>0, <3>2 DEF Tracks
      <3> QED
        BY <1>2, <2>0, <3>1, <3>3 DEF Tracks
    <2> QED
      BY <2>1, <2>2
  <1> QED
    BY <1>3, <1>4, <1>5, FirstStaysPrimary DEF FollowInv

(* A call gets its client.  Either the client was there, or it is created now and
   nothing of the server can have reached the store. *)
LEMMA ObtainFollows ==
  ASSUME FollowInv, [Next]_vars, NEW c \in Calls, Obtains(c), Ends(c), call[c].pc # "idle",
         UNCHANGED <<version, removed, saved>>,
         NEW u, u = call[c].server,
         \/ timers' = timers /\ entities' = entities /\ call[c].by # "upsert"
         \/ Noticed(u) /\ entities' = entities /\ call[c].by # "upsert"
         \/ /\ Noticed(u) /\ call[c].by = "upsert"
            /\ entities' = [entities EXCEPT ![u] = Merged(u, call[c].with)]
  PROVE  FollowInv'
  <1>0. /\ call'[c] = Idle /\ Idle.pc = "idle" /\ \A d \in Calls \ {c} : call'[d] = call[d]
        /\ u \in Servers /\ call[c].with \in Nat
    BY OneCallChanges DEF FollowInv, Ends, Idle, StoreTyped, CallTyped
  <1>1. /\ clients' \in [Servers -> Nat] /\ clients'[u] # 0
        /\ \A s \in Servers \ {u} : clients'[s] = clients[s]
        /\ clients' = clients \/ c \in Loaders(u)
    BY <1>0 DEF Obtains, FollowInv, StoreTyped, Loaders
  <1>2. LoadsInv'
    BY LoadsNext DEF FollowInv
  <1> DEFINE with == call[c].with
             Merges == Noticed(u) /\ call[c].by = "upsert" /\ entities'[u] = Merged(u, with)
             Keeps == entities'[u] = entities[u] /\ call[c].by # "upsert"
  <1>3. /\ entities' \in [Servers -> Nat \cup {None}]
        /\ \A s \in Servers \ {u} : entities'[s] = entities[s]
        /\ Merges \/ Keeps
    <2>1. entities \in [Servers -> Nat \cup {None}]
      BY DEF FollowInv, StoreTyped
    <2>2. Merged(u, with) \in Nat \cup {None}
      BY <1>0, <2>1 DEF Merged
    <2> QED
      BY <1>0, <2>1, <2>2
  <1> DEFINE new == [server |-> u, with |-> clients'[u]]
  <1>4. /\ timers' = timers \/ timers' = timers \cup {new}
        /\ new.server = u /\ new.with = clients'[u] /\ new \in [server : Servers, with : Nat]
        /\ Noticed(u) /\ entities[u] # clients'[u] => new \in timers'
    BY <1>0, <1>1 DEF Noticed, Outdated
  <1> HIDE DEF new
  <1>5. StoreTyped'
    <2>1. \A d \in Calls : CallTyped(call'[d])
      BY <1>0 DEF FollowInv, StoreTyped, CallTyped
    <2>2. timers' \subseteq [server : Servers, with : Nat]
      BY <1>4 DEF FollowInv, StoreTyped
    <2> QED
      BY <1>1, <1>3, <2>1, <2>2 DEF FollowInv, StoreTyped
  <1>6. ASSUME NEW s \in Servers \ (removed' \cup saved') PROVE Tracks(s)'
    <2>0. Tracks(s) /\ Marked(s)
      BY <1>6 DEF FollowInv, LoadsInv
    <2>1. CASE s # u
      <3>1. Loaders(s)' # {} => Loaders(s) # {}
        BY <1>0 DEF Loaders
      <3>2. \A d \in Calls : call'[d] = call[d] \/ ~(Upserts(d, s) \/ Upserts(d, s)')
        BY <1>0, <2>1 DEF Upserts
      <3>3. \A t : t.server = s => (t \in timers' <=> t \in timers)
        BY <1>4, <2>1
      <3>4. clients'[s] = clients[s] /\ entities'[s] = entities[s]
        BY <1>1, <1>3, <2>1
      <3> QED
        BY <2>0, <3>1, <3>2, <3>3, <3>4, Elsewhere
    <2>2. CASE s = u
      <3>1. clients[s] # 0 => clients'[s] = clients[s] /\ c \notin Loaders(s)
        BY <1>1, <2>0, <2>2 DEF Tracks
      <3>2. Loaders(s)' = {}
        <4> SUFFICES ASSUME NEW d \in Loaders(s)' PROVE FALSE
          OBVIOUS
        <4>1. d # c /\ d \in Loaders(s)
          BY <1>0 DEF Loaders
        <4>2. c \notin Loaders(s) /\ clients[s] = 0
          BY <2>0, <4>1 DEF Tracks, Marked
        <4> QED
          BY <1>1, <2>2, <4>2
      <3>3. \A t \in timers' : t.server = s => t.with = clients'[s] /\ clients'[s] # 0
        BY <1>1, <1>4, <2>0, <2>2, <3>1 DEF Tracks
      <3>4. \A d \in Calls : Upserts(d, s)' => d # c /\ Upserts(d, s) /\ call'[d] = call[d]
        BY <1>0 DEF Upserts
      <3>5. \A d \in Calls : Upserts(d, s) => call[d].with \in {0, clients'[s]}
        BY <2>0, <3>1 DEF Tracks
      <3>6. \A d \in Calls : Upserts(d, s)' => call'[d].with \in {0, clients'[s]}
        BY <3>4, <3>5
      <3>7. ASSUME entities'[s] # None, entities'[s] # clients'[s]
            PROVE  (\E t \in timers' : t.server = s) \/ \E d \in Calls : Upserts(d, s)' /\ call'[d].with # 0
        <4>1. CASE Merges
          <5>1. CASE entities[s] # clients'[s]
            BY <1>4, <2>2, <4>1, <5>1
          <5>2. CASE entities[s] = clients'[s]
            <6>1. entities[s] # None
              BY <1>1, <2>2, <5>2, ClientsAssumption
            <6>2. entities'[s] = with /\ with # 0
              BY <2>2, <3>7, <4>1, <5>2, <6>1 DEF Merged
            <6> QED
              BY <2>2, <3>5, <3>7, <4>1, <6>2 DEF Upserts
          <5> QED
            BY <5>1, <5>2
        <4>2. CASE Keeps
          <5>1. entities[s] # None /\ entities[s] # clients[s]
            BY <2>0, <2>2, <3>1, <3>7, <4>2 DEF Tracks
          <5>2. CASE \E t \in timers : t.server = s
            BY <1>4, <5>2
          <5>3. CASE \E d \in Calls : Upserts(d, s) /\ call[d].with # 0
            BY <1>0, <4>2, <5>3 DEF Upserts
          <5> QED
            BY <2>0, <5>1, <5>2, <5>3 DEF Tracks
        <4> QED
          BY <1>3, <4>1, <4>2
      <3>8. entities'[s] # None => clients'[s] # 0
        BY <1>1, <2>2
      <3> QED
        BY <3>2, <3>3, <3>6, <3>7, <3>8 DEF Tracks
    <2> QED
      BY <2>1, <2>2
  <1> QED
    BY <1>2, <1>5, <1>6, FirstStaysPrimary DEF FollowInv

(* Removing a server says nothing of the others. *)
LEMMA RemoveFollows ==
  ASSUME FollowInv, [Next]_vars, NEW u \in Servers, RemoveServer(u)
  PROVE  FollowInv'
  <1>0. /\ clients' = [clients EXCEPT ![u] = 0] /\ entities' = [entities EXCEPT ![u] = None]
        /\ UNCHANGED <<version, call, timers, saved>> /\ removed' = removed \cup {u}
    BY DEF RemoveServer
  <1>1. LoadsInv'
    BY LoadsNext DEF FollowInv
  <1>2. StoreTyped'
    BY <1>0 DEF FollowInv, StoreTyped
  <1>3. ASSUME NEW s \in Servers \ (removed' \cup saved') PROVE Tracks(s)'
    <2>1. Tracks(s) /\ clients'[s] = clients[s] /\ entities'[s] = entities[s]
      BY <1>0, <1>3 DEF FollowInv, StoreTyped
    <2>2. Loaders(s)' = Loaders(s)
      BY <1>0 DEF Loaders
    <2> QED
      BY <1>0, <2>1, <2>2, Elsewhere
  <1> QED
    BY <1>1, <1>2, <1>3, FirstStaysPrimary DEF FollowInv

-----------------------------------------------------------------------------
LEMMA FollowInit == Init => FollowInv
  <1> SUFFICES ASSUME Init PROVE FollowInv
    OBVIOUS
  <1>1. PICK c \in Calls : call = [d \in Calls |-> IF d = c THEN Asking(Primary, "start", 0) ELSE Idle]
    BY DEF Init
  <1>2. \A d \in Calls : CallTyped(call[d]) /\ call[d].pc # "loading" /\ call[d].by # "upsert"
    BY <1>1, ClientsAssumption DEF CallTyped, Asking, Idle
  <1>3. StoreTyped
    BY <1>2 DEF Init, StoreTyped
  <1>4. ASSUME NEW s \in Servers PROVE Tracks(s)
    BY <1>2 DEF Init, Tracks, Loaders, Upserts
  <1>5. FirstIsPrimary
    BY <1>1 DEF FirstIsPrimary, For, Asking, Idle
  <1> QED
    BY <1>3, <1>4, <1>5, LoadsInit DEF FollowInv

LEMMA FollowNext ==
  ASSUME FollowInv, [Next]_vars
  PROVE  FollowInv'
  <1>0. version \in [Servers -> Nat \ {0}]
    BY DEF FollowInv, StoreTyped
  <1>1. CASE UserStep
    <2>1. PICK s \in Servers :
             \/ \E c \in Calls : \/ \E by \in {"page", "peek"} : AskPage(c, s, by)
                                 \/ AddServer(c, s) \/ SaveConfiguration(c, s)
             \/ RemoveServer(s) \/ Reconfigured(s)
      BY <1>1 DEF UserStep
    <2>2. ASSUME NEW c \in Calls, NEW by \in {"page", "peek"}, AskPage(c, s, by) PROVE FollowInv'
      BY <1>0, <2>2, MadeFollows DEF AskPage, storeVars
    <2>3. ASSUME NEW c \in Calls, AddServer(c, s) PROVE FollowInv'
      BY <1>0, <2>3, MadeFollows DEF AddServer, storeVars
    <2>4. ASSUME NEW c \in Calls, SaveConfiguration(c, s) PROVE FollowInv'
      <3>1. version' \in [Servers -> Nat \ {0}] /\ version[s] + 1 \in Nat
        BY <1>0, <2>4 DEF SaveConfiguration
      <3> QED
        BY <2>4, <3>1, MadeFollows DEF SaveConfiguration, storeVars
    <2>5. CASE RemoveServer(s)
      BY <2>5, RemoveFollows
    <2>6. CASE Reconfigured(s)
      <3>1. version' \in [Servers -> Nat \ {0}]
        BY <1>0, <2>6 DEF Reconfigured
      <3> QED
        BY <2>6, <3>1, StillFollows DEF Reconfigured, storeVars
    <2> QED
      BY <2>1, <2>2, <2>3, <2>4, <2>5, <2>6
  <1>2. CASE Page
    <2>1. CASE SelectPrimary \/ SkipRecommended \/ FinishStart
      BY <1>0, <2>1, StillFollows DEF SelectPrimary, SkipRecommended, FinishStart, Settle, ghosts, storeVars
    <2>2. ASSUME NEW c \in Calls, RunTimer(c) PROVE FollowInv'
      <3>1. PICK t \in timers : timers' = timers \ {t} /\ Start(c, t.server, "upsert", t.with)
        BY <2>2 DEF RunTimer
      <3>2. t.server \in Servers /\ t.with \in Nat
        BY DEF FollowInv, StoreTyped
      <3> QED
        BY <1>0, <2>2, <3>1, <3>2, MadeFollows DEF RunTimer, ghosts, storeVars
    <2>3. ASSUME NEW c \in Calls, LoadRecommended(c) PROVE FollowInv'
      <3>1. Federated[boot.next] \in Servers
        BY <2>3, ClientsAssumption DEF LoadRecommended, ToLoad
      <3> QED
        BY <1>0, <2>3, <3>1, MadeFollows DEF LoadRecommended, ghosts, storeVars
    <2> QED
      BY <1>2, <2>1, <2>2, <2>3 DEF Page
  <1>3. ASSUME NEW c \in Calls, CallStep(c) PROVE FollowInv'
    <2>1. CASE StartLoad(c) \/ TryAgain(c)
      BY <2>1, LoadFollows DEF StartLoad, TryAgain, storeVars
    <2>2. CASE CallGivenUp(c) \/ StartFails(c) \/ RecommendedFails(c)
      BY <2>2, LoadFollows DEF CallGivenUp, StartFails, RecommendedFails, Settle, storeVars
    <2>3. CASE PageServed(c)
      BY <2>3, ObtainFollows DEF PageServed, For, storeVars, ghosts
    <2>4. CASE UpsertFulfilled(c)
      BY <2>4, ObtainFollows DEF UpsertFulfilled, For, ghosts
    <2>5. CASE RecommendedLoaded(c)
      BY <2>5, ObtainFollows DEF RecommendedLoaded, For, Settle, ghosts
    <2>6. CASE StartLoaded(c)
      <3>1. call[c].server = Primary
        BY <2>6 DEF StartLoaded, FollowInv, FirstIsPrimary
      <3> QED
        BY <2>6, <3>1, ObtainFollows DEF StartLoaded, For, storeVars, ghosts
    <2> QED
      BY <1>3, <2>1, <2>2, <2>3, <2>4, <2>5, <2>6 DEF CallStep
  <1>4. CASE UNCHANGED vars
    BY <1>0, <1>4, StillFollows DEF vars, ghosts, storeVars
  <1> QED
    BY <1>1, <1>2, <1>3, <1>4 DEF Next

(* When nothing is under way for a server, the store has the configuration its client
   was created with, whichever calls, timers and failures came before
   (clients.ts:51-69, servers_state.ts:277-289). *)
THEOREM StoreIsCurrent == Spec => []StoreFollowsClient
  <1>1. FollowInv /\ [Next]_vars => FollowInv'
    BY FollowNext
  <1>2. FollowInv => StoreFollowsClient
    BY DEF FollowInv, Tracks, Upserts, StoreFollowsClient, Quiet
  <1> QED
    BY FollowInit, <1>1, <1>2, PTL DEF Spec

-----------------------------------------------------------------------------
(* What a filter gives.  The kept positions are numbered from 1 in their order, so that
   every place of the result is taken from one of them and none twice. *)
LEMMA RanksRise ==
  ASSUME NEW n \in Nat, NEW P \in SUBSET (1..n)
  PROVE  /\ IsFiniteSet(P) /\ Cardinality(P) \in Nat
         /\ \A i \in P : Rank(i, P) \in 1..Cardinality(P)
         /\ \A i, j \in P : i < j => Rank(i, P) < Rank(j, P)
  <1>1. IsFiniteSet(P) /\ Cardinality(P) \in Nat
    <2>1. IsFiniteSet(1..n)
      BY FS_Interval
    <2>2. IsFiniteSet(P)
      BY <2>1, FS_Subset
    <2> QED
      BY <2>2, FS_CardinalityType
  <1> DEFINE Upto(i) == {j \in P : j <= i}
  <1>2. ASSUME NEW i \in P
        PROVE  /\ IsFiniteSet(Upto(i)) /\ Cardinality(Upto(i)) \in Nat \ {0}
               /\ Cardinality(Upto(i)) <= Cardinality(P)
    <2>1. IsFiniteSet(Upto(i)) /\ Cardinality(Upto(i)) <= Cardinality(P)
      BY <1>1, FS_Subset
    <2>2. i \in Upto(i)
      OBVIOUS
    <2>3. Cardinality(Upto(i)) \in Nat /\ Cardinality(Upto(i)) # 0
      BY <2>1, <2>2, FS_CardinalityType, FS_EmptySet
    <2> QED
      BY <2>1, <2>3
  <1>3. ASSUME NEW i \in P PROVE Rank(i, P) \in 1..Cardinality(P)
    <2>1. Rank(i, P) = Cardinality(Upto(i))
      BY DEF Rank
    <2> HIDE DEF Upto
    <2> QED
      BY <1>1, <1>2, <2>1
  <1>4. ASSUME NEW i \in P, NEW j \in P, i < j PROVE Rank(i, P) < Rank(j, P)
    <2>0. \A k \in P : k \in Nat
      OBVIOUS
    <2>1. Upto(i) \subseteq Upto(j) /\ j \in Upto(j) \ Upto(i)
      <3>1. i \in Nat /\ j \in Nat /\ ~(j <= i) /\ j <= j
        BY <1>4, <2>0
      <3>2. \A k \in P : k <= i => k <= j
        BY <1>4, <2>0, <3>1
      <3> QED
        BY <3>1, <3>2
    <2>2. Rank(i, P) = Cardinality(Upto(i)) /\ Rank(j, P) = Cardinality(Upto(j))
      BY DEF Rank
    <2> HIDE DEF Upto
    <2>3. Cardinality(Upto(i)) <= Cardinality(Upto(j)) /\ Cardinality(Upto(i)) # Cardinality(Upto(j))
      BY <1>2, <2>1, FS_Subset
    <2> QED
      BY <1>2, <2>2, <2>3
  <1> QED
    BY <1>1, <1>3, <1>4

LEMMA RanksReachAll ==
  ASSUME NEW n \in Nat, NEW P \in SUBSET (1..n), NEW k \in 1..Cardinality(P)
  PROVE  \E i \in P : Rank(i, P) = k
  <1> DEFINE m == Cardinality(P)
             rank == [i \in P |-> Rank(i, P)]
  <1>1. IsFiniteSet(P) /\ m \in Nat
    BY RanksRise
  <1>2. rank \in [P -> 1..m]
    BY RanksRise
  <1>3. \A i, j \in P : rank[i] = rank[j] => i = j
    <2> SUFFICES ASSUME NEW i \in P, NEW j \in P, Rank(i, P) = Rank(j, P) PROVE i = j
      OBVIOUS
    <2>1. i \in Int /\ j \in Int /\ m \in Nat
      <3>1. m \in Nat
        BY RanksRise
      <3> QED
        BY <3>1
    <2>2. Rank(i, P) \in 1..m
      BY RanksRise
    <2>3. (i < j => Rank(i, P) < Rank(j, P)) /\ (j < i => Rank(j, P) < Rank(i, P))
      BY RanksRise
    <2> HIDE DEF m
    <2> QED
      BY <2>1, <2>2, <2>3
  <1>4. rank \in Injection(P, 1..m)
    BY <1>2, <1>3 DEF Injection, IsInjective
  <1>5. IsFiniteSet(1..m) /\ Cardinality(1..m) = m
    BY <1>1, FS_Interval
  <1> HIDE DEF m
  <1>6. rank \in Surjection(P, 1..m)
    BY <1>4, <1>5, FS_Injection DEF m
  <1> QED
    BY <1>6 DEF Surjection, m

LEMMA FilterKeeps ==
  ASSUME NEW S, NEW seq \in Seq(S), NEW keep
  PROVE  /\ Filtered(seq, keep) \in Seq(S)
         /\ ToSet(Filtered(seq, keep)) = ToSet(seq) \cap keep
         /\ IsInjective(seq) => IsInjective(Filtered(seq, keep))
  <1> DEFINE kept == {i \in DOMAIN seq : seq[i] \in keep}
             place(n) == CHOOSE i \in kept : Rank(i, kept) = n
             m == Cardinality(kept)
             result == [n \in 1..m |-> seq[place(n)]]
  <1>0. Filtered(seq, keep) = result
    BY DEF Filtered
  <1>1. Len(seq) \in Nat /\ DOMAIN seq = 1..Len(seq) /\ \A i \in DOMAIN seq : seq[i] \in S
    OBVIOUS
  <1>2. kept \in SUBSET (1..Len(seq))
    BY <1>1
  <1>3. m \in Nat
    BY <1>1, <1>2, RanksRise
  <1>4. ASSUME NEW n \in 1..m PROVE place(n) \in kept /\ Rank(place(n), kept) = n
    <2>1. \E i \in kept : Rank(i, kept) = n
      BY <1>1, <1>2, RanksReachAll
    <2> HIDE DEF kept
    <2> QED
      BY <2>1
  <1>5. ASSUME NEW i \in kept PROVE \E n \in 1..m : place(n) = i
    <2>1. Rank(i, kept) \in 1..m
      BY <1>1, <1>2, RanksRise
    <2>2. place(Rank(i, kept)) \in kept /\ Rank(place(Rank(i, kept)), kept) = Rank(i, kept)
      BY <1>4, <2>1
    <2> DEFINE j == place(Rank(i, kept))
    <2>3. ~(i < j) /\ ~(j < i) /\ i \in Nat /\ j \in Nat
      <3> HIDE DEF place, kept, m
      <3>1. \A a, b \in kept : a < b => Rank(a, kept) < Rank(b, kept)
        BY <1>1, <1>2, RanksRise
      <3>2. kept \subseteq Nat
        BY <1>1, <1>2
      <3>3. Rank(i, kept) \in Nat
        BY <1>3, <2>1
      <3>4. i \in kept /\ j \in kept /\ Rank(j, kept) = Rank(i, kept)
        BY <2>2
      <3> HIDE DEF j
      <3> QED
        BY <3>1, <3>2, <3>3, <3>4
    <2>4. i = j
      BY <2>3
    <2> QED
      BY <2>1, <2>4
  <1>6. result \in Seq(S)
    <2>1. \A n \in 1..m : seq[place(n)] \in S
      BY <1>1, <1>4
    <2> HIDE DEF place, m
    <2> QED
      BY <1>3, <2>1
  <1>7. ToSet(result) = ToSet(seq) \cap keep
    <2>1. DOMAIN result = 1..m /\ \A n \in 1..m : result[n] = seq[place(n)]
      OBVIOUS
    <2>2. ToSet(result) = {seq[place(n)] : n \in 1..m}
      <3> HIDE DEF place, m
      <3> QED
        BY <2>1 DEF ToSet
    <2>3. ToSet(seq) \cap keep = {seq[i] : i \in kept}
      BY DEF ToSet
    <2> HIDE DEF kept, place, m, result
    <2> QED
      BY <1>4, <1>5, <2>2, <2>3
  <1>8. ASSUME IsInjective(seq) PROVE IsInjective(result)
    <2> SUFFICES ASSUME NEW a \in 1..m, NEW b \in 1..m, seq[place(a)] = seq[place(b)] PROVE a = b
      BY DEF IsInjective
    <2>1. place(a) \in DOMAIN seq /\ place(b) \in DOMAIN seq
      BY <1>4
    <2>2. place(a) = place(b)
      BY <1>8, <2>1 DEF IsInjective
    <2> HIDE DEF kept, place, m
    <2> QED
      BY <1>4, <2>2
  <1> HIDE DEF result
  <1> QED
    BY <1>0, <1>6, <1>7, <1>8

(* A list without repetitions has as many items as places. *)
LEMMA OncePerPlace ==
  ASSUME NEW S, NEW seq \in Seq(S), IsInjective(seq)
  PROVE  IsFiniteSet(ToSet(seq)) /\ Cardinality(ToSet(seq)) = Len(seq)
  <1>1. Len(seq) \in Nat /\ DOMAIN seq = 1..Len(seq) /\ seq = [i \in 1..Len(seq) |-> seq[i]]
    OBVIOUS
  <1>2. ToSet(seq) = {seq[i] : i \in 1..Len(seq)}
    BY <1>1 DEF ToSet
  <1>3. seq \in Bijection(1..Len(seq), ToSet(seq))
    BY <1>1, <1>2 DEF IsInjective, Bijection, Injection, Surjection
  <1>4. IsFiniteSet(1..Len(seq)) /\ Cardinality(1..Len(seq)) = Len(seq)
    <2>1. \A n \in Nat : IsFiniteSet(1..n) /\ Cardinality(1..n) = n
      BY FS_Interval
    <2> QED
      BY <1>1, <2>1
  <1> QED
    BY <1>3, <1>4, FS_Bijection DEF ExistsBijection

-----------------------------------------------------------------------------
(* The order of the servers.  From when the start has selected the primary on, the
   primary is in the store and stays there: the order the start writes begins with it. *)
Stored == {s \in Servers : entities[s] # None}

OrderInv ==
    /\ ids \in Seq(Servers)
    /\ ToSet(ids) \subseteq Stored
    /\ ListsOnce => IsInjective(ids) /\ Stored \subseteq ToSet(ids)
    /\ boot.at \in {"next", "waiting"} => entities[Primary] # None

LEMMA OrderMeansMatch == OrderInv => IdsMatchEntities
  <1> SUFFICES ASSUME OrderInv PROVE IdsMatchEntities
    OBVIOUS
  <1>1. ASSUME NEW s \in Servers PROVE Contains(ids, s) <=> s \in ToSet(ids)
    <2>1. DOMAIN ids = 1..Len(ids)
      BY DEF OrderInv
    <2> QED
      BY <2>1 DEF Contains, ToSet
  <1> QED
    BY <1>1 DEF OrderInv, Stored, IdsMatchEntities

(* Nothing that the order is about changes. *)
LEMMA SameOrder ==
  ASSUME OrderInv, ids' = ids, entities' = entities, boot'.at \in {"next", "waiting"} => entities[Primary] # None
  PROVE  OrderInv'
  BY DEF OrderInv, Stored

(* The order the primary gives has only servers of the order there is, and if the primary
   recommends each server once, no repetitions. *)
LEMMA ExpectedOnce ==
  ASSUME OrderInv, Primary \in Stored
  PROVE  /\ Expected \in Seq(Servers) /\ ToSet(Expected) \subseteq ToSet(ids) \cup {Primary}
         /\ ListsOnce => IsInjective(Expected)
  <1> DEFINE rest == Filtered(Recommended, ToSet(ids))
  <1>1. /\ rest \in Seq(Servers) /\ ToSet(rest) = ToSet(Recommended) \cap ToSet(ids)
        /\ IsInjective(Recommended) => IsInjective(rest)
    BY ClientsAssumption, FilterKeeps
  <1>2. ListsOnce => Primary \notin ToSet(rest)
    <2>1. DOMAIN Recommended = 1..Len(Recommended)
      BY ClientsAssumption
    <2>2. ListsOnce => Primary \notin ToSet(Recommended)
      BY <2>1 DEF ListsOnce, Contains, ToSet
    <2> QED
      BY <1>1, <2>2
  <1>3. Expected = <<Primary>> \o rest
    BY DEF Expected
  <1> HIDE DEF rest
  <1>4. /\ Len(Expected) = Len(rest) + 1 /\ Len(rest) \in Nat
        /\ Expected[1] = Primary
        /\ \A i \in 2..Len(Expected) : Expected[i] = rest[i - 1]
        /\ Expected \in Seq(Servers)
    BY <1>1, <1>3, ClientsAssumption
  <1>5. DOMAIN Expected = 1..(Len(rest) + 1) /\ DOMAIN rest = 1..Len(rest)
    BY <1>1, <1>4
  <1>6. ASSUME NEW i \in DOMAIN Expected, i # 1 PROVE i - 1 \in DOMAIN rest /\ Expected[i] = rest[i - 1]
    BY <1>4, <1>5, <1>6
  <1>7. ASSUME NEW i \in DOMAIN Expected, i # 1 PROVE Expected[i] \in ToSet(rest)
    BY <1>6, <1>7 DEF ToSet
  <1>8. ASSUME ListsOnce,
               NEW a \in DOMAIN Expected, NEW b \in DOMAIN Expected, Expected[a] = Expected[b]
        PROVE  a = b
    <2>1. CASE a = 1 \/ b = 1
      BY <1>2, <1>4, <1>7, <1>8, <2>1
    <2>2. CASE a # 1 /\ b # 1
      <3>1. IsInjective(rest)
        BY <1>1, <1>8 DEF ListsOnce
      <3>2. a - 1 = b - 1
        BY <1>6, <1>8, <2>2, <3>1 DEF IsInjective
      <3> QED
        BY <1>4, <1>5, <3>2
    <2> QED
      BY <2>1, <2>2
  <1>9. ToSet(Expected) \subseteq ToSet(ids) \cup {Primary}
    <2>1. \A i \in DOMAIN Expected : Expected[i] \in ToSet(ids) \cup {Primary}
      BY <1>1, <1>4, <1>7
    <2> QED
      BY <2>1 DEF ToSet
  <1> QED
    BY <1>4, <1>8, <1>9 DEF IsInjective

(* Putting the servers in the primary's order adds none that is not in the store.  If the
   primary recommends each server once it changes nothing but their order: it is done only
   when there are as many, and so the same, servers in both. *)
LEMMA OrderedKeeps ==
  ASSUME OrderInv, Primary \in Stored
  PROVE  /\ Ordered \in Seq(Servers) /\ ToSet(Ordered) \subseteq Stored
         /\ ListsOnce => IsInjective(Ordered) /\ Stored \subseteq ToSet(Ordered)
  <1>1. CASE Len(ids) # Len(Expected)
    BY <1>1 DEF Ordered, OrderInv
  <1>2. CASE Len(ids) = Len(Expected)
    <2>1. /\ Ordered = Expected /\ Expected \in Seq(Servers)
          /\ ToSet(Expected) \subseteq ToSet(ids) \cup {Primary}
          /\ ListsOnce => IsInjective(Expected)
      BY <1>2, ExpectedOnce DEF Ordered
    <2>2. ASSUME ListsOnce
          PROVE  IsInjective(Expected) /\ Stored \subseteq ToSet(Expected)
      <3>1. ToSet(ids) = Stored /\ ids \in Seq(Servers) /\ IsInjective(ids)
        BY <2>2 DEF OrderInv
      <3>2. IsFiniteSet(ToSet(ids)) /\ Cardinality(ToSet(ids)) = Len(ids)
        BY <3>1, OncePerPlace
      <3>3. IsInjective(Expected) /\ Cardinality(ToSet(Expected)) = Len(Expected)
        BY <2>1, <2>2, OncePerPlace
      <3>4. ToSet(Expected) \subseteq ToSet(ids)
        BY <2>1, <3>1
      <3>5. ToSet(Expected) = ToSet(ids)
        BY <1>2, <3>2, <3>3, <3>4, FS_Subset
      <3> QED
        BY <3>1, <3>3, <3>5
    <2> QED
      BY <2>1, <2>2 DEF OrderInv
  <1> QED
    BY <1>1, <1>2

LEMMA SettleKeepsOrder ==
  ASSUME OrderInv, boot.at \in {"next", "waiting"}, NEW next, Settle(next)
  PROVE  OrderInv'
  <1>1. Primary \in Stored
    BY ClientsAssumption DEF OrderInv, Stored
  <1>2. ids' = Ordered /\ entities' = entities
    BY DEF Settle
  <1> QED
    BY <1>1, <1>2, OrderedKeeps DEF OrderInv, Stored

LEMMA UpsertKeepsOrder ==
  ASSUME OrderInv, FollowInv, NEW c \in Calls, UpsertFulfilled(c)
  PROVE  OrderInv'
  <1> DEFINE s == call[c].server
  <1>1. s \in Servers /\ call[c].with \in Nat /\ entities \in [Servers -> Nat \cup {None}]
    BY DEF UpsertFulfilled, For, FollowInv, StoreTyped, CallTyped
  <1>2. Merged(s, call[c].with) # None
    BY <1>1, ClientsAssumption DEF Merged
  <1>3. /\ entities' = [entities EXCEPT ![s] = Merged(s, call[c].with)]
        /\ ids' = IF entities[s] = None THEN Append(ids, s) ELSE ids
        /\ boot' = boot
    BY DEF UpsertFulfilled
  <1> HIDE DEF s
  <1>4. Stored' = Stored \cup {s}
    BY <1>1, <1>2, <1>3 DEF Stored
  <1>5. boot'.at \in {"next", "waiting"} => entities'[Primary] # None
    BY <1>1, <1>2, <1>3, ClientsAssumption DEF OrderInv
  <1>6. CASE entities[s] # None
    <2>1. Stored' = Stored /\ ids' = ids
      BY <1>1, <1>3, <1>4, <1>6 DEF Stored
    <2> QED
      BY <1>5, <2>1 DEF OrderInv
  <1>7. CASE entities[s] = None
    <2>1. ids \in Seq(Servers) /\ s \notin ToSet(ids) /\ ids' = Append(ids, s)
      BY <1>3, <1>7 DEF OrderInv, Stored
    <2>2. /\ ids' \in Seq(Servers) /\ DOMAIN ids = 1..Len(ids) /\ Len(ids) \in Nat
          /\ DOMAIN ids' = DOMAIN ids \cup {Len(ids) + 1} /\ ids'[Len(ids) + 1] = s
          /\ \A i \in DOMAIN ids : ids'[i] = ids[i]
      BY <1>1, <2>1
    <2>3. \A i \in DOMAIN ids : ids[i] # s
      BY <2>1 DEF ToSet
    <2>4. IsInjective(ids) => IsInjective(ids')
      BY <2>1, <2>2, <2>3 DEF IsInjective
    <2>5. ToSet(ids') = ToSet(ids) \cup {s}
      BY <2>2 DEF ToSet
    <2> QED
      BY <1>4, <1>5, <2>2, <2>4, <2>5 DEF OrderInv
  <1> QED
    BY <1>6, <1>7

LEMMA RemoveKeepsOrder ==
  ASSUME OrderInv, FollowInv, NEW s \in Servers, RemoveServer(s)
  PROVE  OrderInv'
  <1>1. entities \in [Servers -> Nat \cup {None}]
    BY DEF FollowInv, StoreTyped
  <1>2. /\ s # Primary /\ boot' = boot
        /\ entities' = [entities EXCEPT ![s] = None] /\ ids' = Filtered(ids, Servers \ {s})
    BY DEF RemoveServer
  <1>3. /\ ids' \in Seq(Servers) /\ ToSet(ids') = ToSet(ids) \cap (Servers \ {s})
        /\ IsInjective(ids) => IsInjective(ids')
    BY <1>2, FilterKeeps DEF OrderInv
  <1>4. Stored' = Stored \ {s}
    BY <1>1, <1>2 DEF Stored
  <1>5. boot'.at \in {"next", "waiting"} => entities'[Primary] # None
    BY <1>1, <1>2, ClientsAssumption DEF OrderInv
  <1>6. ToSet(ids) \subseteq Servers
    BY DEF OrderInv, Stored
  <1> QED
    BY <1>3, <1>4, <1>5, <1>6 DEF OrderInv

LEMMA OrderNext ==
  ASSUME OrderInv, FollowInv, [Next]_vars
  PROVE  OrderInv'
  <1>0. \A at, next : Boots(at, next) => boot'.at = at
    BY DEF Boots
  <1>1. CASE UserStep
    <2>1. ASSUME NEW s \in Servers, RemoveServer(s) PROVE OrderInv'
      BY <2>1, RemoveKeepsOrder
    <2>2. ASSUME NEW s \in Servers, NEW c \in Calls, NEW by,
                 AskPage(c, s, by) \/ AddServer(c, s) \/ SaveConfiguration(c, s) \/ Reconfigured(s)
          PROVE  OrderInv'
      BY <2>2, SameOrder DEF AskPage, AddServer, SaveConfiguration, Reconfigured, storeVars, OrderInv
    <2>3. ASSUME NEW s \in Servers, Reconfigured(s) PROVE OrderInv'
      BY <2>3, SameOrder DEF Reconfigured, storeVars, OrderInv
    <2> QED
      BY <1>1, <2>1, <2>2, <2>3 DEF UserStep
  <1>2. CASE Page
    <2>1. CASE SelectPrimary
      BY <2>1, SameOrder DEF SelectPrimary
    <2>2. CASE SkipRecommended
      BY <2>2, SettleKeepsOrder DEF SkipRecommended
    <2>3. CASE FinishStart
      BY <1>0, <2>3, SameOrder DEF FinishStart, storeVars
    <2>4. ASSUME NEW c \in Calls, RunTimer(c) PROVE OrderInv'
      BY <2>4, SameOrder DEF RunTimer, storeVars, OrderInv
    <2>5. ASSUME NEW c \in Calls, LoadRecommended(c) PROVE OrderInv'
      BY <1>0, <2>5, SameOrder DEF LoadRecommended, ToLoad, storeVars, OrderInv
    <2> QED
      BY <1>2, <2>1, <2>2, <2>3, <2>4, <2>5 DEF Page
  <1>3. ASSUME NEW c \in Calls, CallStep(c) PROVE OrderInv'
    <2>1. CASE StartLoad(c) \/ TryAgain(c) \/ CallGivenUp(c) \/ PageServed(c)
      BY <2>1, SameOrder DEF StartLoad, TryAgain, CallGivenUp, PageServed, storeVars, OrderInv
    <2>2. CASE UpsertFulfilled(c)
      BY <2>2, UpsertKeepsOrder
    <2>3. CASE StartFails(c) \/ StartLoaded(c)
      BY <1>0, <2>3, SameOrder DEF StartFails, StartLoaded, storeVars
    <2>4. CASE RecommendedLoaded(c) \/ RecommendedFails(c)
      BY <2>4, SettleKeepsOrder DEF RecommendedLoaded, RecommendedFails
    <2> QED
      BY <1>3, <2>1, <2>2, <2>3, <2>4 DEF CallStep
  <1>4. CASE UNCHANGED vars
    BY <1>4, SameOrder DEF vars, storeVars, OrderInv
  <1> QED
    BY <1>1, <1>2, <1>3, <1>4 DEF Next

(* The order of the servers lists servers of the store only, whatever the primary
   recommends, and each of them once if it recommends others, each once, whoever adds and
   removes servers while the start puts them in the primary's order
   (servers_state.ts:147-158). *)
THEOREM OrderListsTheStore == Spec => []IdsMatchEntities
  <1>1. Init => OrderInv
    <2> SUFFICES ASSUME Init PROVE OrderInv
      OBVIOUS
    <2>1. ids = <<>> /\ entities = [s \in Servers |-> None] /\ boot.at = "loading"
      BY DEF Init
    <2>2. ids \in Seq(Servers) /\ DOMAIN ids = {}
      BY <2>1
    <2> QED
      BY <2>1, <2>2 DEF OrderInv, Stored, IsInjective, ToSet
  <1>2. FollowInv /\ OrderInv /\ [Next]_vars => (FollowInv /\ OrderInv)'
    BY FollowNext, OrderNext
  <1> QED
    BY FollowInit, <1>1, <1>2, OrderMeansMatch, PTL DEF Spec
=============================================================================
