# Rellm in TLA+

A TLA+ development of [Rellm](../src/README.md), a federated social network
server: specifications of the parts of its backend where several actors share
state, and of the core of its web front end (the codec of the API, its clients,
tokens and pages), model-checked with TLC on small instances, and theorems about
them, proved with TLAPS for every value of the constants.

Paths below are relative to `src/backend/src/` unless they begin with `src/`;
those that begin with `app/` or `api/` are in `src/frontends/tamagui/packages/`.

## 1. The system

Rellm is a Rust backend (gRPC through tonic, web pages and webhooks through
Rocket) over a Postgres database and an S3-compatible object store, with Elm,
Flutter and Tamagui front ends. All shared state is in Postgres. A server
usually runs as

* two or more replicas of the `rellm` server, whose threads handle gRPC calls
  and HTTP requests, each with a pooled database connection;
* a background-jobs pod (`src/backend/background_jobs.sh`) that starts the
  programs of `bin/` in loops, one process at a time for each loop;
* a preview generator pod (`src/backend/preview_generator_job.sh`).

Several servers ("namespaces") can share one Kubernetes cluster. One of them is
the *conductor*: it keeps the locks by which the servers' jobs take turns at
expensive resources (browser, ffmpeg, ImageMagick).

The web front end (Tamagui, in TypeScript) runs in one page for a whole session.
It talks to **several servers at once**, each perhaps with an account and of a
version of its own, keeps everything it read in Redux stores (most of them
persisted), and is one thread: what interleaves are promises, timers, store
writes and renders. It encodes and decodes every call with generated code.

Two habits of the backend decide what is hard about it:

* **Statements, not transactions.** Apart from a few calls that take a row
  `FOR UPDATE` in a transaction, a handler is a sequence of SQL statements, each
  committed on its own. Other handlers, jobs and replicas run in between, and a
  failure or a crash leaves the statements that were done.
* **Whole rows and whole JSON columns.** Handlers read a row, change a field of
  the Rust struct, and write the struct back (diesel's `AsChangeset`), which
  puts back every other column as it was read; a `None` is not written at all.
  Where the database does a computation itself (`sold_count + 1`), or the row is
  held `FOR UPDATE`, this cannot happen.

### Inventory

| Component | State | Operations | Interacts with | What makes it correct |
|---|---|---|---|---|
| Cluster resource locks (`rpcs/server_configuration/lock_cluster_resources.rs`, `free_cluster_resources.rs`) | JSON list of locks and limits in the active configuration row | LockClusterResources, FreeClusterResources, `bin/free_all_cluster_resources` | called by the jobs of other servers; shares its row with ConfigureServer | no resource beyond its limit; a holder may always lock again |
| Cluster jobs (`logic/cluster_lock.rs`, `bin/convert_media_sizes.rs`, `bin/generate_link_preview_images.rs`) | a run's resources, requests still under way | poll for a lock, work, free | the conductor, over a network with 10 s timeouts | a run at work holds its lock; a leaked lock is freed by the next run that needs it |
| Server configuration (`rpcs/server_configuration/`) | versioned rows, one of them active | ConfigureServer, ConfigureCustomCSS, Lock/Free (in place), usage counters (in place) | read by everything | one active version; no save loses another's change |
| Marketplace: checkout (`rpcs/market/make_market_purchase.rs`, `web/stripe_webhook.rs`, `logic/market/market_fulfillment.rs`) | products, subscriptions, purchases, payments; users' permissions, storage limit and AI grants | open a Checkout Session; record, count and fulfil a paid one | Stripe, which redelivers events; renewal; RPCs below | each paid session recorded and granted once |
| Marketplace: buyers' and admins' RPCs (`rpcs/market/`) | the same tables | cancel, create, edit a product, append notes | checkout, renewal | slots and cancellations are kept; notes are appended to |
| Marketplace: renewal (`logic/market/market_renewal.rs`) | the same tables; charges at Stripe | charge and extend due subscriptions, end lapsed ones | Stripe; everything above | charge once per period; nobody cut off early or served for ever |
| Contact verification and consent (`rpcs/users/verify_contact_method.rs`, `start_contact_method_verification.rs`, `web/contact_integrations_webhook.rs`, `logic/contact_methods/`) | one JSON column per contact method: code, attempts, cooldown, consent | start, verify, STOP/START webhook | SMS and e-mail providers | at most 5 guesses per code; a withdrawn consent stays withdrawn |
| Storage usage (`logic/server_storage_usage.rs`, `bin/calculate_server_*_usage.rs`) | JSON counters in the active configuration row, per-user counters | adjust, recompute | media uploads, ConfigureServer | counters agree with the media rows |
| Events and RSVPs (`rpcs/events/`) | occasions, attendances | RSVP, delete, moderate, change limits | — | attendee limit |
| AI providers and grants (`rpcs/ai_providers/`) | providers, grants with tokens | generate, grant | provider APIs, Marketplace grants | tokens are not overspent |
| Groups, memberships; follows (`rpcs/groups/`, `rpcs/users/`, `logic/users/user_counts.rs`) | two-sided moderation, denormalised counters | join, invite, approve, leave, follow | counters job | both sides' consent kept; counters right when quiet |
| Sync sources (`logic/sync_sources/`) | imported posts and events, missing-since marks | fetch, match, create, update, prune | calendars and feeds on the web | nothing pruned that the source still has |
| Sync destinations (`logic/sync_destinations/`) | one row per post and destination | publish | other networks | — |
| Media (`logic/media/`, `web/media.rs`) | media rows, objects | upload, convert, delete unowned | object store, ffmpeg | no referenced object deleted |
| Tokens (`auth/token_generation.rs`, `rpcs/authentication/access_token.rs`, `bin/delete_expired_tokens.rs`) | refresh and access tokens | issue, rotate, check, clean up | the front end's accounts | a client that follows the rotation stays signed in |
| Posts and stars, messages, federation, push | one row each | CRUD | — | visibility |
| API codec (`api/generated/`) | none | encode, decode, toJSON, fromJSON, fromPartial of each message | the server's own codec, of another version | what is sent is what is read; a message survives an edit |
| Server clients (`app/store/clients.ts`, `app/store/modules/servers_state.ts`) | clients, loads, the stored servers | get a client, add and remove servers, start the page | every request of the page | one load each; store and clients agree; nobody waits for ever |
| Accounts and tokens in the front end (`app/store/credentialed_data.ts`, `accounts_state.ts`) | accounts, a cache of tokens, late writes | obtain a credential, verify, log in, remove | the server's tokens | no mix-up of accounts; the newest token is kept |
| Pinned accounts and pages (`app/store/modules/`, `app/hooks/pagination/`, `app/store/pagination/`) | pins, pages, entries, their states | pin, select, log in and out, load, reset | requests under way, renders, timers | what is shown belongs to the account signed in; what is missing gets loaded |
| Web serving, migrations, other front-end features, the Elm and Flutter front ends, deployment | none shared | — | — | — |

### What is hard

`PROJECT.json` lists the hazards line by line. In short:

* *Interleaving at READ COMMITTED*: two saves of the configuration; two
  deliveries of one Stripe event; a save waiting for a row that is superseded
  meanwhile.
* *Stale state*: cluster locks read before a transaction and inserted in it; a
  product loaded when the event arrives and not when the price was shown; a
  batch of due subscriptions worked through while buyers cancel; whole rows
  written back by admin updates.
* *Failure half-way and redelivery*: a webhook that dies after recording a
  purchase and before granting it; a charge whose answer is lost; a run that
  dies holding a cluster lock.
* *Liveness*: subscriptions, and locks asked for again, that later runs must clean up; in
  the front end, calls that poll for one another and effects that run only when
  what they watch changes.
* *Copies written back in the front end*: a whole message read, edited and sent;
  an account written to the store a second after it was read.

Hazards that no property covers and that the list leaves out, as their
components are not modelled: `bin/free_all_cluster_resources.rs:56` reads the
row without a lock; the usage counters are read before ConfigureServer's
transaction (`configure_server.rs:278`) and recomputed from an older sum
(`logic/server_storage_usage.rs:86`); attempts and cooldowns of contact
verification (`verify_contact_method.rs:71`); tokens of AI grants spent after the
call (`generate_media.rs:135`); memberships written back whole
(`update_membership.rs:76`); counters (`user_counts.rs:46`); pruning by a partial
feed (`logic/sync_sources/event_sync.rs:604`); renewals on the 31st
(`market_renewal.rs:152`).

## 2. The modules

```
ResourceQuota ·· ClusterLock ──────── ClusterJobs     ServerConfiguration ·· ClusterLock
                     │                  │   \               │
             ClusterLockProofs ─────────┼─ ClusterJobsProofs├─ ServerConfigurationProofs
                                 MCClusterJobs       MCServerConfiguration

MarketTables ─┬─ MarketCheckout ─┐               ┌─ MCMarketplace ─────┐
              ├─ MarketAccount ──┼─ Marketplace ─┼─ MarketSlots ───────┼─ MCMarketEdits
              └─ MarketRenewal ──┘       ·       │            └────────┼──────────┐
                                         ·       └─ MarketplaceProofs ─┴─ MarketChargesProofs
                            SubscriptionLedger, OrderBook

Protobuf ─┬─ ApiContent, ApiPeople, ApiServer, ApiMarket ── ApiService ─┬─ MCApiExchange
          └─ ApiCodec ── ApiExchange ───────────────────────────────────┘

TokenServer ── AccountTokens ─┬─ AccountTokensProofs
                              └─ MCAccountTokens
ServerClients ─┬─ ServerClientsProofs      FederatedPages ─┬─ FederatedPagesProofs
               └─ MCServerClients                          └─ MCFederatedPages
```

A line is an `EXTENDS`, except that `Marketplace` has `MarketRenewal` by
`INSTANCE` (its steps are called like those of the webhook); a dotted line is an
`INSTANCE ... WITH`, which says that one module implements the other:
`ClusterLock` the `ResourceQuota`, `ServerConfiguration` the `ClusterLock`, and
`Marketplace` the `SubscriptionLedger` and the `OrderBook`. The `MC...` modules
give the constants values; for the Marketplace they also define specifications
with only the components a run is about. `Mistake:` marks operators that no
specification uses; each is the definition after it with a plausible bug, kept
to show that a property would notice. `MarketSlots` adds to the Marketplace two variables that
only watch it.

### ClusterLock

The conductor's table. `locks` is `conductor_state.locks`, a set of entries
`[ns, resources]`; `limits` is `conductor_state.limits`.

* `LockClusterResources(ns, R)` — `lock_cluster_resources.rs`: refused as a whole
  if a resource is `AtLimit` among the *other* namespaces' entries; otherwise the
  namespace's entries that overlap the request are dropped and one entry is
  pushed.
* `FreeClusterResources(ns, R)` — `free_cluster_resources.rs`: drops the entries
  of the namespace that overlap, whole.

`ResourceQuota` is what the table is for, said without a table: each resource has
a set of holders, and a step changes what one namespace holds, taking a resource
only while fewer others than its capacity have it. `KeepsQuota` is its
specification with `holders` read from the entries and `capacity` from the
limits.

Both do read, decision and write in a transaction that holds the row `FOR
UPDATE`, so each is one action; that this is right, `ServerConfiguration` shows
(`CallsAreAtomic`). `Capacity` states what a limit means in effect:
the refusal needs a holder to name, so a limit of 0 behaves as 1. The order of
the entries and `acquired_at` influence nothing but a message.

Left out: who may call (checked before the transaction, changes nothing), and
changes of the limits by an admin, which `ServerConfiguration` covers as a write
of the column.

### ClusterJobs

The loops that use the locks, each process a job `j` of server `NsOf(j)`. `pc`
goes `idle → asking → working → freeing → idle`:

| Action | Code |
|---|---|
| `StartRun` | `convert_media_sizes::main` / `LazyBrowser` finds work and knows the resources it needs |
| `AskGranted`, `AskRefused`, `AskFails` | `acquire_cluster_lock`: poll every 5 s up to `LOCK_MAX_WAIT`; at the deadline the run is skipped |
| `FinishWork`, `Free`, `FreeFails` | conversion or capture, then one `release_cluster_lock`, whose failure is only logged |
| `Crash` | panic, OOM kill or deploy |
| `LateLock`, `LateFree` | the conductor handles a request the client has timed out on |

A call that fails may not have reached the conductor, may have been acted upon
with the answer lost, or may be handled later; the client cannot tell which.
`StartRun` waits for late requests of the job's previous run: the loops sleep 120
and 600 seconds between runs and a request lives 10 seconds. This is the one
timing assumption, and it is what `JobsInv` needs; a request handled during the next run of
the same job is therefore not in the model.
`JobsAssumption` says that two loops of one server never want a common
resource: the converter asks for FFMPEG and IMAGEMAGICK, the preview generator
for BROWSER.

### ServerConfiguration

The versioned table `server_configurations` at READ COMMITTED, statement by
statement: `rows` are the committed rows, `owner` the row locks, `call[w]` a
writer's transaction with its statement's snapshot (`view`).

| Action | Code |
|---|---|
| `ConfigureServer` | `configure_server.rs` up to the transaction: it reads the active row's cluster resources, which it will insert again |
| `ConfigureCustomCSS` | `logic/custom_css.rs`, the save and its transaction |
| `LockClusterResources`, `FreeClusterResources` | their transactions, for one resource of limit 1 |
| `SelectActive`, `SkipRow`, `LockRow`, `NoRow` | `SELECT … WHERE active FOR UPDATE`: snapshot, wait, re-check, lock; or nothing is left, which ConfigureServer takes for "no CSS" (`.optional()?.unwrap_or_default()`) and the others for NotFound |
| `GrantLock`, `FreeLock` | the in-place update and commit |
| `Deactivate`, `Commit` | `UPDATE … SET active = false`, insert, commit |
| `Rollback` | an error, a lost connection, a crash; also the victim of a deadlock that Postgres breaks |

`CallsAreAtomic` is `ClusterLock`'s specification with `locks` read from the lock column of
the active row (`RecordedLocks`): the calls that lock and free, each a transaction of
several statements among others that supersede the row, are single steps of that
table, and no other statement changes it. That is what lets `ClusterLock` and
`ClusterJobs` take a call as one action; a `ConfigureServer` meanwhile may undo a grant
(section 7).

The other columns of the row are stored as the request has them. The creation
of the default row on first read and the usage counters are not modelled yet.

### MarketTables, MarketCheckout, MarketAccount, MarketRenewal, Marketplace

`MarketTables` has the tables the Marketplace's processes share, the clock, and
what Stripe knows (sessions, off-session charges). What an admin can edit of a
product (amount, currency, details) is one value, its *terms*; a period is a
number of ticks. None of this code runs in a transaction, so **every action is
one SQL statement or one call of Stripe**.

* `MarketCheckout`: `MakeMarketPurchase` (checks listing and stock, opens a
  session, writes nothing), `Pay`, `Deliver`, and the steps of
  `handle_checkout_session_completed` in the code's order — `CheckProcessed`,
  `LoadProduct`, `InsertSubscription`, `InsertPurchase`, `InsertPayment`,
  `CountSale`, `Fulfil`, `GrantPermissions` — on server threads `Hooks`. A
  delivery may fail or die anywhere (`FailDelivery`). Stripe delivers until it is
  answered 200, and may deliver again after that; deliveries that come while another of
  their event is handled (`extra`) are bounded by `MaxExtra`. No unique index guards
  `market_purchases.stripe_checkout_session_id`, so none is in the model.
* `MarketAccount`: `ReadForCancel`/`SetCanceled`/`FreeSlot`
  (`cancel_market_subscription.rs`), `ReadProduct`/`WriteProduct`
  (`update_market_product.rs`), `ReadSubscription`/`WriteSubscription`
  (`update_market_subscription.rs`). The two updates keep the row they read and
  write it back whole, a NULL that was read left alone.
* `MarketRenewal`: one process, `job`, and the `batch` of rows its current query
  returned, still as they were then. For each type in the order of
  `ALL_PURCHASE_TYPES`: `LoadDue`, `NextDue`, `Charge` (or `Declined`,
  `ChargeUnanswered`), `RecordPurchase`, `RecordPayment`, `AdvanceRenewal`,
  `Refulfil`, `RegrantPermissions`; `EndSubscription` on any error; then
  `LoadLapsed`, `NextLapsed`, `Revoke`, `TakePermissions`, `StampTerminated`.
  `CrashJob` anywhere.
* `Marketplace`: the composition, the properties, and the fairness.
* `MarketSlots`: what becomes of the slots of a product. `crossed` counts the sales since an
  editor opened the product, `forgotten` the slots that the code gives away in two
  interleavings, as they happen: a second call cancels a subscription that the first has not
  yet marked (`FreesAgain`), and an editor writes back the count from before a sale
  (`TakesBack`).

Two abstract specifications say what this is for. `SubscriptionLedger` has, for each
subscription, one account on which one thing happens at a time: it is opened with its
first period, charged when that is over and nothing that was paid for is left,
recorded and extended by what was charged, canceled, and ended when it is used up; a
failure allows one more charge. `AccountOf` reads the account from the row, the
recorded purchases and Stripe's charges; `KeepsLedger` says that the job's statements,
interleaved with everybody else's, are steps of it. `OrderBook` has orders and
subscriptions: an order is placed and paid; while a paid order is not booked,
subscriptions of its buyer to its product may be opened; and it is booked on one of
them that has no order yet, once. `OrderOf` reads the orders from Stripe's sessions,
`ServedBy` the subscriptions and what is booked on them from the tables;
`BooksOrders` says that the handlers, with redelivered and failing deliveries, do no
more than that.

Left out: signature checks and parsing of webhooks (events are genuine),
permissions of callers, field validation, product creation (products exist from
the start) and summaries.

### Protobuf, Api*, ApiCodec, ApiExchange

`api/generated/*.ts` is ts-proto's output: for each message the same six
functions, unrolled over its fields. `Protobuf` says what a field is (number,
property, kind, label), `ApiContent`, `ApiPeople`, `ApiServer` and `ApiMarket`
have the table of every message and the numbers of every enum, `ApiService` the
calls with their requests and answers. `ApiCodec` has the functions themselves,
once, over the table of the peer that calls them (`ApiExchange` takes the tables as
constants, `MCApiExchange` gives them their values):

* `Encode`: a plain field is left out when it has its default, an optional one
  when it is undefined; lists of messages and texts are one record for each
  element; lists of enums are one packed record, written even when empty.
* `DecodeRecord`: one turn of the loop — an unknown field, or a known one with
  another wire type, is skipped; a packed list is taken unpacked too; a message
  field replaces what was there; `longToNumber` throws beyond `MaxSafe`.
* `toTimestamp`, `fromTimestamp`: a `Date` keeps milliseconds, and both parts of a
  time before 1970 are negative.
* `ToJson`, `FromJson`, `fromPartial`, and the enums' names.

`ApiExchange` is an edit, the front end's basic exchange: the server sends a
message, its records in any of several orders, packed or not; the client reads
record after record; a form spreads the object with one property changed
(`SetProperty`, as `app/features/accounts/server_details_screen.tsx:229`) or
removed; the stub encodes `fromPartial` of it; the server reads it. Either end may
lack a field that the other has. The server's side of the codec (prost) is
external; it keeps microseconds.

### TokenServer, AccountTokens

`TokenServer` has the two token tables of the backend. A refresh token
past its expiry gets a new pair (`RotateLapsed`), one whose expiry lies ahead is
turned away (`TurnedAway`); one that never expires is replaced by a pair one time
in twenty-one and given six minutes (`RotateAtRandom`), and otherwise makes an
access token (`GiveAccess`). `AccountTokens` is `getCredentialClient`:

| Action | Code (`app/store/credentialed_data.ts`) |
|---|---|
| `BeginCall`, `PinAccount`, `SelectAccount` | a page, or the check of an account, calls with the account object it has |
| `UseOwnToken`, `UseCachedToken`, `AskForToken` | the account's access token, else the cached one, else a new one |
| `Answered`, `AnswerLost`, `ConnectionFails` | the server handles AccessToken; its answer may be lost |
| `RefreshSucceeds`, `RefreshFails` | the cache, the credential, and a write of the store set for a second later |
| `LateWrite` | `upsertAccount` of the object built from the copy |
| `VerifySucceeds`, `VerifyFails`, `CallReturns` | `getCurrentUser` of pinAccount and selectAccount |
| `LogIn`, `RemoveAccount`, `Tick`, `CleanUp` | the user, the clock, `bin/delete_expired_tokens.rs` |

### ServerClients

The map of clients, the set `loading` and the calls in progress
(`getServerClient`, `getConfiguredServerClient`), the timers that upsert a server
a millisecond later, the servers of the store with their order, and the start of
the page (`initializeWithServer`) as the process `boot`. A call looks for a
client, loads it if nobody else does, and polls otherwise; a failed load is tried
again `Retries` times. `asked` bounds what users and other admins do: pages ask,
with and without `skipUpsert`, servers are added, removed and reconfigured.

### FederatedPages

Pins and accounts (`accounts_state.ts`), the posts' and groups' pages of each
server, and the hooks that load them. *Rendering comes before everything else*:
the guards `IsRendered` say that the effects see each change of the store before
the next event, as React runs them. `RenderPosts` runs when `needsLoading` has
changed, `RenderGroups` when the states of the servers or the servers shown have.
A request belongs to the account it was made with, and `pages`, `seen` record for
which accounts what they hold was loaded; `resetCredentialedData` is debounced.

## 3. The runs

Every run explores all reachable states of its instance. `CHECK_DEADLOCK FALSE`
is said where bounds stop the bounded system (no more versions, subscriptions or
time); the lock and job runs check for deadlock.

| Run | Checks | Instance |
|---|---|---|
| `jobs` | `RelockIsGranted`, `WorkersHoldTheirLocks`, `WorkerLimit`, `KeepsQuota` (refinement), `LeakedLockHeals` (liveness) | 2 converters and a preview generator on 2 servers, 3 faults, 1 late Lock per run; no limits (1 each), or two servers with ffmpeg and, by a limit of 0, one with ImageMagick |
| `configuration_locked` | `OneActiveRow`, `CustomCssNeverLost`, `RecordedHolderIsGranted`, `CallsAreAtomic` (refinement) | 3 threads, 2 stylesheets, 2 lock holders, up to 3 versions; every call but ConfigureServer |
| `configuration_all` | `AlwaysConfigured`, `OldVersionsAreFrozen` | 2 threads, all four calls |
| `configuration_css_lost` | `CustomCssNeverLost`, violated | 2 threads, all saves |
| `checkout` | `OnePurchasePerSession`, `UnboughtComeFromFailures`, `UngrantedComeFromFailures`, `PaidIsRecorded` (liveness), `BooksOrders` (refinement) | 1 buyer, a product of storage and two of different permissions, 2 sessions, 2 handler threads, 2 failures |
| `renewal` | `ChargesAreRecorded`, `NoDoubleCharge`, `ServedForWhatWasPaid`, `NothingIsLeft` (liveness), `KeepsLedger` (refinement) | 2 subscriptions of 4 products, payable or not, 2 ticks, a canceler, 1 failure anywhere |
| `edits` | `SoldCoversLiveSubs`, `CancellationSticks`, `NotesLostOnlyToOverlaps` | 2 hosting orders, 2 editors with 2 updates between them, 2 cancelers; and either a third order being paid, 1 failure and edits of the product, or the job, 2 ticks and edits of the notes |
| `exchange` | `ReadsWhatWasSent`, `FailsOnlyOnUnsafeNumbers`, `NothingElseChanges`, `EditIsStored`, `JsonKeepsRecognized` | every message a call carries, with each of its fields and each pair of neighbouring ones, each order and packing, each field unknown to one end, each edit |
| `accounts` | `TokensBelong`, `RefreshTokenKept`, `MarkIsLastOutcome` | 2 accounts, 2 calls at once, 2 ticks, 1 fault |
| `accounts_verification` | `LastTokenKept`, violated | 1 account, 1 call at a time, no faults |
| `clients` | `OneLoaderEach`, `StoreFollowsClient`, `IdsMatchEntities`, `CallsFinish`, `StartFinishes` (liveness) | the page's server, one it recommends, one the user adds; 2 calls at once, 2 failing loads |
| `pages` | `PinnedAccountsExist`, `SignedInView`, `GroupsGetLoaded` (liveness) | a server with 2 accounts and one without, 2 steps of the user, 1 fault |

What the safety properties say, beyond their names:

* **Locks.** A refused request counts the *other* namespaces' entries, and a
  grant drops only entries that overlap. That these two rules together keep the
  *total* of each resource within its limit, through any sequence of overlapping
  and disjoint requests, is `KeepsQuota`; it rests on `OneEntryPerResource` and
  `EntriesWithinLimit` (the proofs). `RelockIsGranted` is what retries after a lost answer
  depend on: a server that does not know that it holds a lock is never shut out
  by it.
* **Jobs.** `WorkersHoldTheirLocks` relates what the clients believe to what the
  conductor's table says, across lost answers, late requests and crashed runs.
  The hazard is a late Free, or the Free of an earlier run, that takes away the
  lock of a later one. `LeakedLockHeals` is about a lock left behind. There is no expiry in the
  code: such a lock stays if no run of its server asks for the resource again, or each asks
  for another one as well that the server cannot get. It says that nothing else keeps it: a
  server that keeps asking for what it is left with is granted it, works and frees it.
* **Configuration.** Calls that hold the active row `FOR UPDATE` do not lose each
  other's changes, because each either locks the active row and carries
  everything over, or finds the row superseded and gives up with NotFound.
  `OldVersionsAreFrozen` is the re-check after the wait: an in-place writer that
  used the row it first saw would write into a version no longer in force.
  `RecordedHolderIsGranted` is over what callers were told (`granted`), not over
  the table alone. `CallsAreAtomic` is about the grants themselves: none is made or dropped
  but by a call that saw the locks there were.
* **Checkout.** `OnePurchasePerSession` holds while deliveries of one event do
  not overlap, whatever fails in between and however often they are repeated. A delivery that
  fails between its two
  inserts leaves a subscription nobody bought, which will be billed:
  `UnboughtComeFromFailures` bounds these by one for each failure, and
  `PaidIsRecorded` says that a paid session is recorded in the end. `BooksOrders`
  relates Stripe's sessions to the tables: a purchase is of a paid session, and on a
  subscription that was opened for that session's buyer and product and has no other
  session's purchase.
* **Grants** (in `checkout`). The purchase is recorded before it is granted, so a delivery
  that fails in between leaves a paid session that the next one acknowledges as done
  (section 7). `UngrantedComeFromFailures` says that this is the only way: of the
  acknowledged sessions, one for each failure at most is not granted, and another
  grant to the buyer takes nothing away. `CheckoutSpec` leaves out that two threads write
  back one user's permissions at once (`GrantsDontOverlap`), by which a permission
  can be lost (section 7): one waits for the other, which goes on. The renewal
  job also grants, and takes back at the end of a subscription; that neither matters
  is in the theorem, not in the run. A buyer with a canceled subscription of the same type
  is excepted: its end takes back what it gave, whatever else gives it too.
* **Slots** (in `edits`). `sold_count` may overstate (a failed renewal keeps its slot) and
  must not understate the live subscriptions. It does understate them after two overlapping
  cancellations of one subscription, after an edit of the product that crosses a sale, and
  after a sale whose count failed (section 7); both interleavings and the failure are in the
  run, and the property says that each costs what it takes and that nothing else costs
  anything, including a cancellation that races the end of the same subscription by the job.
* **Renewal.** Three quantities move in separate statements: the charge at
  Stripe, the purchase, and `renews_at`. `ChargesAreRecorded` ties the first two
  and `NoDoubleCharge` the first and third, each exact but for
  the statement still to come and **one period per failure**. That slack is not a
  convenience: a job that dies after the charge does charge again, and the bound
  says that it does so once per crash. `ServedForWhatWasPaid` is the buyer's
  side. `NothingIsLeft`: later runs catch up. `KeepsLedger` says of each single step what
  the bounds say of states: no charge without a period that is over, no extension
  beyond a charge, nothing at all after the end.
* **Edits.** Admin updates write whole rows that they read before. Two columns
  survive this although the code does nothing about it: `canceled_at` and
  `service_terminated_at` only go from NULL to a value, and a NULL that was read
  is not written (`CancellationSticks`; its mutant writes it). Others do not
  survive it (section 7). `NotesLostOnlyToOverlaps`: the notes of an order go on from what
  they were, with two admins, cancellations and the job writing the row, except where an admin
  saves over a note that was saved since she opened the order.
* **Exchange.** `ReadsWhatWasSent` is about every prefix of what arrives: the
  decoding loop never loses its place at a field it does not know.
  `FailsOnlyOnUnsafeNumbers`: an answer is lost exactly for a number JavaScript
  cannot hold, in a field this version knows. `NothingElseChanges` is the round
  trip of everything the user did not touch; its exceptions are the code's (the
  microseconds of times, and what the client's version of a message lacks).
  `EditIsStored` has the cases where absence means something: an optional text set
  to "", a property taken away, the other member of a choice.
* **Accounts.** `TokensBelong` is over every copy of an account and of a token.
  `RefreshTokenKept` and `MarkIsLastOutcome` hold of calls made one after the
  other, verifications among them, with one exception: a verification that is still under way
  when the timer writes what its own refresh brought puts its older copy back. `raced` has
  the accounts in which calls overlapped or this happened, until the next login.
  `accounts_verification` shows the exception alone (section 7).
* **Clients.** `StoreFollowsClient` is at rest: whichever way a server came into the
  store, its configuration there is the one its client was made with. A server
  removed under a load is excepted, as removing takes the mark from under it, and
  one reconfigured from this page, which overtakes its client.
* **Pages.** `SignedInView` is at rest too: nothing of an account is shown after
  another has signed in and the reset has run. `stale` marks the two ways in which
  the code does not keep it (section 7). `GroupsGetLoaded` holds because the effect
  of the groups watches their states as well as the servers.

### Bounds, and why they are enough

Every bound is a constant whose name begins with `Max`.

* *Locks.* A refusal depends on one resource and the namespaces that hold it: two
  servers with three jobs between them, which ask for one resource or for two at
  once, reach a full resource, a refusal and a relock. The
  theorems remove these bounds.
* *Jobs.* Two faults are a crash and the loss of the call that would repair it;
  three add a late request. One late Lock per run is enough, as a second would
  find the table as the first left it. The theorems remove the bounds for the
  safety properties.
* *Configuration.* The losing interleavings need a waiter, a winner and a third
  call; three threads over three versions have them. A thread about to commit
  past `MaxRows` can only roll back.
* *Marketplace.* Races are between two statements of two processes, so two
  threads, two subscriptions, two cancelers and two edits show them; in `edits` admins and
  cancelers are interchangeable (symmetry), and the two settings keep apart sales and
  renewals, which write nothing in common that these properties are about; renewals need two ticks to
  have a second period and for a hosting order (period 2) to fall due. Faults
  are bounded because the properties count them. One buyer is enough, as
  only grants to the same one meet.
* *Exchange.* Fields are coded independently, so one field with each of its values,
  and two neighbours for the order, show what a message can; `MaxSafe` is 100, as
  only being beyond it matters; a list has two elements, a nested message its first
  two fields. The tables are whole: every message that a call carries is checked.
* *Accounts.* Two overlapping calls and two accounts are what a mix-up takes; two
  calls in all and two ticks reach each rotation and its grace.
* *Clients.* Two calls at once, next to the start, make a loader and a waiter; with
  two failures and one retry each (six tries in the code) a call gives up while
  another waits.
* *Pages.* Two steps of the user, with the requests, resets and timers they leave
  behind, interleave freely; `Opened` starts where the user may be signed in and
  the other server pinned or not. One failing request reaches each state of a page.

The hazards with a single component are checked in specifications with only
that component's steps, as the product of all of them is large.

### Fairness

* *Jobs* (`JobsFairness`): a run that has started goes on — polling ends at
  `LOCK_MAX_WAIT`, conversions and captures have timeouts — and the conductor
  handles what it received. Nothing is assumed of whether a run finds work, as that is up to
  the users; `LeakedLockHeals` says what happens if it does. Crashes and lost calls are
  never forced.
* *Checkout* (`CheckoutFairness`): a handler thread runs on, and Stripe keeps delivering an event
  until it has a 200 (within its retry period, which is days).
* *Renewal* (`RenewalFairness`): `background_jobs.sh` starts the job in an endless loop and a run
  does its steps, weak fairness of one process. The clock, users and Stripe's
  decisions are free.
* *Clients* (`Fairness`): timers and polls run, and every request is answered,
  fails or times out (five seconds in `createRellmGrpcClient`). Users need do nothing.
* *Pages* (`FairSpec`): weak fairness of the system's steps together. They use up
  what the user started — requests, timers, resets — so that apart from stuttering
  behaviours are finite, and one condition is as good as one for each step.

## 4. The proofs

The eight proof modules are checked by TLAPS (SMT, Zenon and PTL) down to every leaf. They
assume the `ASSUME`s of the modules, and nothing about the number of namespaces,
resources, jobs, threads, versions, products, subscriptions, sessions, accounts, calls,
servers, faults or late requests, except that the table of locks is finite (it begins
empty) and that a server has finitely many handler threads. Some `ASSUME`s say only that
a value that stands for NULL is none of the others (`None \notin Nat`). Bounds are
arbitrary numbers in the proofs, so that a theorem covers behaviours of every length.

Where a property holds of the code only as long as two calls do not overlap, the
theorem says so as a hypothesis about the behaviour, `Spec /\ []Hypothesis => []Property`.
Such a hypothesis names a race the code allows (section 7), one step before the
property fails; the runs of section 3 are instances without that race, and the
theorem says that nothing else can break the property:

| Hypothesis | Excludes | Code | Needed by |
|---|---|---|---|
| `DeliveriesDontOverlap` | two threads that handle one session's event at once | check and insert are two statements (`web/stripe_webhook.rs:160`) | `SessionsAreRecordedOnce`, `OrdersAreBooked`, `UngrantedAreFailures` |
| `GrantsDontOverlap` | two processes between reading and writing one user's permissions | they are read and written back (`market_fulfillment.rs:84`) | `UngrantedAreFailures` |
| `RenewalsDontCrossEdits` | a renewal recorded while an admin has the order open | the old `renews_at` is written back (`update_market_subscription.rs:95`) | `PeriodsAreChargedOnce`, `ServedUntilPaid`, `AccountsAreKept` |

Two theorems have no such hypothesis because their property counts or names the race
itself: `SoldCountCovers` and `NotesOnlyGrow`. What overlapping deliveries can do is
`RepeatsAreFromOverlaps`: a session is recorded at most once more than there were deliveries
that overlapped another of their event.

**`ClusterLockProofs`.** The inductive invariant is

    LockInv == LockTypeOK /\ OneEntryPerResource /\ EntriesWithinLimit

`LimitRespected` alone is not inductive: it counts namespaces, the code counts
entries. If one namespace had two entries for a resource, `AtLimit` would count
it twice for others and a grant could leave the count of entries unrelated to
that of namespaces; `OneEntryPerResource` excludes this, and
`EntriesWithinLimit` is what the check of a grant establishes: the others'
entries leave room for one (`RoomForOne`), and the requester's own are replaced
by one. Theorems: `LockInvariant` (`LockSpec => []LockInv`), `LimitIsRespected`
(holders inject into entries), `RelockSucceeds`, `EntriesStayApart`, and the refinement
`LockImplementsQuota`: with `LockInv` the entries of a resource are as many as its
holders, so a grant takes what `ResourceQuota` lets be taken.

**`ClusterJobsProofs`.** The inductive invariant is

    JobsInv == JobsTypeOK /\ RunsAreInOrder

where `RunsAreInOrder` says: a job that is not idle, or has a late request, has
`wanted` among the sets it may want; a late Free belongs to an idle job; and a
job that uses resources has *exactly* its entry in the table. The last needs the
second (no Free of one's own can come in between) and `JobsAssumption` (no other
job of the same server touches the entry: `OthersKeepTheirEntry`). Theorems:
`JobsImplementLock`, the refinement `JobsSpec => LockSpec` — every step of the
jobs is a Lock, a Free or a stutter of the table — through which the theorems of
the table hold of the jobs; `LocksInUseAreKept`; `WorkersAreLimited`, from
`JobsInv`, `LockInvariant` and `LimitIsRespected`; and, through the refinement,
`JobsKeepTheQuota`.

**`ServerConfigurationProofs`.** With all four calls the inductive invariant is

    ConfiguredInv == TypeOK /\ DraftsOK /\ ViewsOK /\ AlwaysConfigured

`AlwaysConfigured` needs to know that what a save is about to insert is active
(`DraftsOK`), and an in-place call that the rows its statement has in view exist
(`ViewsOK`). Theorems: `TypeCorrect`, `ServerIsAlwaysConfigured`,
`VersionsAreFrozen` (an action property).

More holds while `ConfigureServer` is not called, the assumption
`"ConfigureServer" \notin Calls`: without it TLC refutes the same properties
(section 7). Then the inductive invariant is

    LockedInv == ConfiguredInv /\ NoConfigureServer /\ SaversHold
                 /\ OneActiveRow /\ CustomCssNeverLost /\ RecordedHolderIsGranted

whose heart is `SaversHold`: a writer past its `SELECT ... FOR UPDATE` owns the
active row, has the lock column of that row in its draft, and sees every row at
its commit. So whoever takes the active row is alone (`RowForIsAlone`): no save
is under way that could undo what it writes, and a save leaves nothing active
but its own row. The three properties depend on each other: without
`OneActiveRow` a second active row would not be held. Theorems:
`LockedInvariant`, `OneVersionIsActive`, `SavedCssStays`, `LockColumnIsRight`.

`CallsTakeEffectAtOnce`, under the same assumption, is the refinement of `ClusterLock`. By
`LockedInv` the entries read from the lock column are those of the holders that were told
so (`LocksAreGrants`), so the proof can speak of `granted`: a step adds a holder when
nobody else is one, takes one away, or leaves them (`GrantsChange`), and with one
resource of limit 1 these are Lock and Free of the table (`OneHolderTable`).

**`MarketplaceProofs`.** No statement of the Marketplace is in a transaction, so that
everything rests on what a process may still rely on after others ran. `MarketInv` says
it: the tables and the processes are well-typed (`TypeOK`), and what each process
remembers of a row is true of the tables in the columns that nobody changes (`Same`: buyer,
product, terms, time of creation) — of a thread its session, subscription and
purchase (`HookOK`), of a canceler and an editor the row they read (`CancelOK`, `EditOK`),
of the job its batch and the row it is at (`JobOK`) — and sessions and purchases name
things that exist. Rows are only appended (`Keeps`), so that each step has to show this
only for the process that takes it; the rest is one lemma for each of the three
processes' frames. Theorem: `MemoryStaysTrue`. On top of it:

* `RenewalsRepeatTerms`, `CancellationsStick`, `NotesOnlyGrow` — for each column a lemma
  says which actions write it (`SubsWriters`, `NotesWriters`), and the property looks
  at those. For the notes, `NotesCarryOn`: what an editor saves is what she read and one
  note more. A NULL that was read is not written, which is why cancellations need no hypothesis.
* `SessionsAreRecordedOnce`, with `RecordedOnce`: a thread between its check and its
  insert is right that there is no purchase for its session.
* `RepeatsAreFromOverlaps`, with `RepeatsCounted`: the threads that handle a session are at
  most `1 + extra`, and so are its purchases together with the threads about to make one. A
  thread that begins alone finds the purchases there are, and one that begins beside
  another has been counted.
* `UnboughtAreFailures`: subscriptions without a purchase are those some thread is
  about to record (`Pending`) and those `Leaked`, of which `LeakedFew` says there is at
  most one for each failure. A failure turns one pending subscription into a leaked one;
  nothing else makes one, overlapping deliveries included.
* `UngrantedAreFailures` counts in the same way the sessions that are recorded but not
  granted and that no thread works on any more (`Stuck`). `GrantInv` has what the grants rest
  on: what a thread is about to grant is what is recorded for its session, and to its
  buyer; what is acknowledged is recorded, and no thread is past its check for it; the
  job takes back only for canceled rows; and permissions in a process's hands are the
  user's. With it a grant, once there, stays (`EntitlementStays`), so that a session comes to
  be stuck only by a failure (`NewlyStuck`).
* `OrdersAreBooked`, the refinement of `OrderBook`: ordering and paying are the book's
  (`PlacesOrPays`), the insert of a subscription is `Subscribe` and that of a purchase
  `Book`, and every other statement leaves orders and subscriptions as they are.
  `RecordedOnce` gives that the order is not booked yet; `ThreadsBook`, that a thread
  about to record has a subscription of its own, of the session's buyer, with nothing
  booked on it.

**`MarketChargesProofs`.** The five properties about money and slots count rows against
numbers. `JobPaths` reduces the steps of the job to the path `charge → purchase →
payment → advance` of one row and the failures that leave it; every other action leaves
the job, the charges and `renews_at` aside. The inductive invariants:

* `ChargesOK`: charges against recorded renewals, exact but for the purchase the job is
  about to record and one for each failure (`EveryChargeIsRecorded`).
* `RowsPaidFor`: *every* copy of a `renews_at` — in the table, the job's batch, an
  editor's row — has been paid for, and so has what the job is about to write
  (`NothingIsGivenAway`). Stale copies are older, and what was paid for stays so; hence
  no hypothesis, though the property is about writers of whole rows.
* `ChargedOnce`: the batch has the `renews_at` of the table until the job has advanced
  it, and each charge has advanced it, is about to, or failed (`PeriodsAreChargedOnce`).
  It is the other direction, and an old copy does break it.
* `EndedOnTime`: a pass over lapsed rows has rows that are canceled and over, a pass
  over due ones none that is terminated, so that what is ended is not charged again and
  was served for all that was charged (`ServedUntilPaid`).
* `SlotsCovered`: what `sold_count` has to cover is not the live subscriptions only but
  also those canceled whose slot is yet to be freed (`Held`), and an editor's row may be as
  many below the count as sales have crossed it; then a sale, a cancellation, an edit and a
  failure each change both sides by the same, or are counted (`SoldCountCovers`).

`AccountsAreKept`, the refinement of `SubscriptionLedger`, has these invariants together
(`LedgerInv`), with one more: the rows of a pass over due ones were due when they were read
(`DueWhenRead`), so that they still are. For each statement that touches an account there is a
lemma that it is that step of the ledger (`ChargesAccount`, `RecordsAccount`,
`ExtendsAccount`, `EndsAccount`, `WritesAccount`, `OpensAccount`); the others stutter.

**`AccountTokensProofs`.** The inductive invariant `TokensInv` adds to
`TokensBelong` what it rests on: every refresh token the client has, in whatever
copy, is *known* — if the server still has a row with its id, the row is of the
same user (`Known`). Ids are never used again, so every step of the server keeps
this (`ServerKeeps`), and an answer for the row found by the token is for the user
of the account the call works on. Theorems: `TokensAreTyped`,
`TokensStayWithTheirAccount`.

`RefreshTokenKept` and `MarkIsLastOutcome` are about the store, which is written a second
after the answer. Of an account that has not `raced` `InOrder` says that there is
at most one call at work and one write on its way, that the call works from the object
the store has until it is answered, that the write — or the store, when there is
none — carries the refresh token that arrived last and the mark of the last outcome
(`Right`), and that a verification past its answer would put back no less
(`PutsBackRight`). `OrderInv` is this for all accounts but the `raced`. Theorems:
`LastRefreshIsStored`, `MarkTellsLastOutcome`.

**`ServerClientsProofs`.** `OneLoaderEach` counts loaders; the inductive form is
`Marked`: two loaders of a server are the same call, and the mark is there exactly
if there is one. Each step changes one call, so the lemmas (`LoadBegins`,
`LoadEnds`, `OtherCallChanges`) say what that does to the loads of every server.
Theorems: `LoadsInvariant`, `OneLoadAtATime`.

`StoreFollowsClient` is about the page at rest; what leads there is `Tracks`: a server
that is being loaded has no client yet, so that its client is created once; every timer
and every call that upserts carries the client's configuration or none; and as long as
the store has another configuration a write of the client's is on its way. Whatever the
order of the writes, the last one leaves the right value. `FollowInv` adds the types and
that the first load of the start is the primary's. Theorem: `StoreIsCurrent`.

`IdsMatchEntities` is about a list that is filtered, appended to and put together anew. The
inductive form `OrderInv` says it with sets: the range of the list is among the servers of
the store; if the primary recommends each server once and not itself (`ListsOnce`), the list
is injective and has them all; and once the start has selected the primary, it is one of them.
`Filtered` is defined by positions, so that what it keeps and in which order follows
without an induction. The theorem, `OrderListsTheStore`, assumes nothing of what the primary
recommends.

**`FederatedPagesProofs`.** `PinnedAccountsExist` needs to know of the logins and
checks under way (`LoginsRight`): that their accounts are accounts, and that a login
is of the server it signs in to. Theorem: `PinsNameAccounts`.

`SignedInView` rests on `ViewInv`: for a server that is not `stale`, either a reset is on
its way (set now, or by one of the timers, `ResetPending`), or pages, entries and the
requests for more of them all belong to the account signed in (`HoldsOnly`). Every
action that changes who is signed in sets a reset, except a removal, which makes the
server stale; and a reset leaves nothing of the account before but its requests under
way, in which case the server is stale as well. The timers run in order, and the lemmas on
their queue (`LaterKeeps` and others) use the library's facts on sequences. Theorem:
`ShowsTheAccountSignedIn`.

## 5. What is only model-checked

* *Liveness* (`LeakedLockHeals`, `PaidIsRecorded`, `NothingIsLeft`, `CallsFinish`,
  `StartFinishes`, `GroupsGetLoaded`): fairness and `ENABLED` are beyond the prover.
* *The codec* (`ReadsWhatWasSent`, `FailsOnlyOnUnsafeNumbers`, `NothingElseChanges`,
  `EditIsStored`, `JsonKeepsRecognized`): it is recursive over nested messages, and what a
  recursive definition computes for every input takes an induction over data that
  the prover does not have. The run takes every message of the API.

Every other safety property of the runs is the subject of a theorem.

Conversely some theorems are of properties that no run repeats, since TLC would
learn nothing more from them: the types (`TypeCorrect`, `TokensAreTyped`), the
table's `OneEntryPerResource` (on which `KeepsQuota` rests), `RepeatsComeFromOverlaps`,
`NoFreePeriod` (which `KeepsLedger` implies) and `RenewalRepeatsTerms`. Their definitions are in the modules of
the components.

## 6. What is not modelled

* *Planned*: contact verification, storage usage, RSVPs, AI grants, memberships
  and counters, sync sources, calendar dates of renewals, `free_all_cluster_resources`
  (see section 8).
* *Only in effect*: authorisation and validation (a refused call changes
  nothing), ffmpeg, ImageMagick, the browser, Stripe's, SMS and e-mail APIs (their
  outcomes are choices), logging and wording.
* *Of the front end*: pages after the first, stars, the stores of events, users
  and media (kept like posts and groups, with the differences of section 7), forms
  and screens, the order of servers a user drags, `federateAccounts`, the
  persistence of the stores. gRPC-web framing and the protobuf runtime are
  external.
* *Not at all*: web pages, feeds and routes of the backend (no state),
  migrations, the Elm and Flutter front ends, deployment manifests. Posts, stars,
  messages, federation and push subscriptions are single-row operations whose
  correctness is in SQL filters rather than in the order of steps.
* Postgres deadlocks: of two transactions that wait for each other one is rolled
  back, which `Rollback` allows at any time.

## 7. Where code and documentation disagree

Two disagreements have a run:

* `configuration_css_lost`: a `ConfigureServer` that waits for a `ConfigureCustomCSS` finds no
  active row in its snapshot, takes that for "no stylesheet", and saves a version without one
  (`rpcs/server_configuration/configure_server.rs:379-388`; the comment above it says "never
  lost").
* `accounts_verification`: selecting or pinning an account verifies it, with a copy of the
  account from before the verification's own refresh. The timer writes the refresh's outcome
  after a second; if `getCurrentUser` answers later than that, `upsertAccount({ ...account,
  user })` puts the copy back (`accounts_state.ts:120`, `:229`), with the old refresh token,
  and the mark "needs reauthentication" if the copy has it. `src/docs/protocol.md:778-779` says
  of a new refresh token that it "should immediately replace the old one in client storage".

Others were met on the way and have no run of their own. In the backend:

* A leaked cluster lock is said to be "never released on its own"
  (`bin/free_all_cluster_resources.rs:10-14`) and to stay "until manually cleared"
  (`logic/cluster_lock.rs:57-59`). It is released by the next run of the same server's job that
  asks for a resource of its entry and gets what it asks for (`LeakedLockHeals`; a grant to the
  holder and the release after it are `lock_cluster_resources.rs:60-90` and
  `free_cluster_resources.rs`). The comments are right where there is no such run: the job finds
  no more work, the server is gone, or two servers each keep what the other's run asks for
  besides, as two converters can that leak ffmpeg and ImageMagick.
* The webhook records the purchase before it fulfils it. If it
  fails in between, the next delivery finds the purchase and answers 200 without
  granting anything (`web/stripe_webhook.rs:158-172`; `AcknowledgedIsGranted` in
  `Marketplace` states what the comment says, `UngrantedComeFromFailures` what holds: one
  such session for each failure at most).
* `UpdateMarketSubscription` writes back the `renews_at` it read, so
  a renewal in between is charged again
  (`rpcs/market/update_market_subscription.rs:95-98`); so `renewal` has no editor.
* AccessToken turns a refresh token away while its expiry lies ahead and accepts it
  afterwards; the log line of `rpcs/authentication/access_token.rs:36-38` says of the
  one turned away that it is expired (`OnlyExpiredAreTurnedAway`).
* `LockClusterResources` gives a namespace a second entry for a disjoint request;
  `src/protos/server_configuration.proto:220-225` says one per namespace.
* `ConfigureServer` reads the cluster locks before its transaction and inserts
  them, undoing a grant or a release in between (`configure_server.rs:321`). No property of the
  lock column holds where it is called, so `configuration_locked` leaves it out.
* A `ConfigureServer` left without a row to lock overlaps a third save and does
  not see the row that one inserts: two active rows.
* A `ConfigureServer` request without media settings stores none, where its
  comment says that it carries them forward (`configure_server.rs:275-285`).
* Two overlapping deliveries of one event both record it; there is no unique
  index on the session (`web/stripe_webhook.rs:160`; `RepeatsAreFromOverlaps` bounds it).
* Two fulfilments for one buyer can lose a permission, since the list is read
  and written back (`logic/market/market_fulfillment.rs:84`).
* The webhook records the product's price at delivery, not what was paid
  (`web/stripe_webhook.rs:277`).
* The last slot can be sold twice: only opening a checkout looks at the cap
  (`rpcs/market/make_market_purchase.rs:43`).
* Two overlapping cancellations decrement `sold_count` twice
  (`cancel_market_subscription.rs:42`; that "a double-cancel can't double-decrement", `:50-52`,
  is true of one after the other), and `UpdateMarketProduct` puts back the count it read before a
  sale (`update_market_product.rs:53`). `forgotten` counts both.
* A delisted product cannot be listed again, as `None` is not written
  (`update_market_product.rs:50`).
* The end of a subscription after a failed charge keeps its slot
  (`market_renewal.rs:157`; `src/protos/market.proto:473-478`).
* A subscription canceled after the job loaded its batch is charged
  (`market_renewal.rs:50`).
* Of two overlapping updates of notes the second drops the first's
  (`update_market_subscription.rs:60-98`), where `src/protos/market.proto:599` and the comment at
  `update_market_subscription.rs:19` have the notes append-only; `NotesLostOnlyToOverlaps` says
  that this is the only way to lose one.

In the front end, as the specifications' unused properties or plain reading show:

* A cached access token is used whether it has expired or not
  (`app/store/credentialed_data.ts:27-31`; `src/docs/protocol.md:777-778`), until an
  account is selected or the page is loaded again (`ExpiredTokensAreNotSent`).
* Of two calls of one account that overlap, the later store write wins, also with
  the older refresh token (`credentialed_data.ts:69`; `raced`).
* The configuration of a server in the store can go back to the one its client was
  made with (`clients.ts:58-64`, `server_details_screen.tsx:269`; `NeverOutdated`).
* The spinner of the start never ends if the first load fails
  (`servers_state.ts:109`), and a primary that recommends itself, or a server
  twice, may set an order with an id repeated and another server missing (`servers_state.ts:150-157`);
  nothing in the backend's `configuration_validation.rs` keeps a server from it.
* A call under way puts back a server that was removed, and the check of an account
  puts back an account that was removed (`accounts_state.ts:113`, `:227`).
* Removing an account resets nothing of what it loaded, and answers for the account
  before may arrive after the reset (both excepted in `SignedInView`).
* The effect that loads posts depends on `needsLoading` alone
  (`post_pagination_hooks.ts:76`): a server that comes to be missing while that stays
  true is not asked (`PostsGetLoaded`). A new post makes page 0 count as loaded
  (`posts_state.ts:78-87`; `PagesWereLoaded`).
* `loadUsername` waits for ever for another load that fails, and `loadUser` marks and
  unmarks a user under different ids (`user_actions.ts:30-76`).
* `followUnfollowUser.fulfilled` fails if the users were reset meanwhile, and
  `isUserLocked` is asked with an id without its server (`user_card.tsx:79`).
* `loading_mutex.ts` can miss the wake-up of the events' hook.
* `deletePost` leaves the id in the pages, `loadPostsPage` looks for posts under an id
  without their server and so loses replies, `deleteMedia` filters pages by such an id.
* `resetEvents` leaves `failedPostIds` and the RSVPs, `resetUsers` writes its failures
  under the host, `resetAllData` leaves the events, and the `getHasMore...Pages` read
  a path that is not there.

## 8. Plan

The core of the backend's shared rows and of the front end's session is modelled;
what is left, in this order:

1. *Contact verification* (`rpcs/users/verify_contact_method.rs`,
   `start_contact_method_verification.rs`, the consent webhook): attempts (5 per
   code), cooldown (60 s) and consent in one JSON column that each call writes
   back whole. Properties: guesses per code within the limit for calls that do
   not overlap, how many overlapping calls add; a withdrawn consent.
2. *Storage usage*: in-place adjustments, recomputation and `ConfigureServer` on
   one column of the active row, as an extension of `ServerConfiguration`, with
   `free_all_cluster_resources` and the creation of the default row.
3. *RSVPs*: the attendee limit, with the occasion row held by `upsert_rsvp` and not by the
   calls that approve, delete or edit.
4. *AI grants*: check, long call, spend; and an abstract resource limiter that
   locks, slots, RSVPs and tokens are instances of.
5. *Memberships, follows and their counters*; *sync sources*: matching and
   pruning of occasions with missing-since marks.
6. *Calendar dates*: `advance_by_period` on months of 28 to 31 days as a pure
   function, and the drift of a subscription bought on the 31st.

7. *The other stores of the front end*: events with their time filters and the mutex
   of their hook, users with follows, media; later pages.

Theorems: the safety properties that a run checks are proved but for those of section 5.
What is worth proving next is

* `MarketInv`'s counterpart at the front end: the types of the clients' and pages' whole
  state, of which the proofs above have the parts they need;
* a resource limiter of which `ResourceQuota` and the slots of a product are instances;
* the invariants of the components above as they are modelled, first that of the
  guesses of a verification code.
