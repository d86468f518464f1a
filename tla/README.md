# Agent Discovery Board: TLA+ models, model checks and proofs

The board is a FastAPI service over one PostgreSQL database: a directory of
listings that anybody may post, that their owners edit with wallet signatures,
and that publishers import in bulk from other directories. This directory
models how those operations interleave, checks the models with TLC and proves
the properties that matter most with TLAPS. Paths below are relative to `src/`.

## The system

| Part | State it keeps | Operations | What must hold |
|---|---|---|---|
| Listing routes, `app/api/routes/listings.py` | none of its own: local variables between two `await`s | POST, PATCH, DELETE, claim, remove-imported, heartbeat, search, facets | a decision made on a row read earlier must still be right when the write lands; the statements of one search agree |
| Database, `app/core/db.py` | tables `listings`, `do_not_import` (and a search log, a verifier cache); two unique indexes | one autocommit statement per call, one transaction for removal | no duplicate active offering; one row per (source, endpoint); removals recorded |
| Maintenance, `app/core/maintenance.py`, `demo_data.py` | `_last_run` | startup purge, throttled purge inside POST and GET | only expired test listings disappear |
| Import sync, `app/core/import_sync.py`, `imports.py` | a `SyncPlan` while a batch is processed | `plan_sync` (reads), `apply_plan` (upserts, then stale marking) | claimed content untouched; removed endpoints stay removed; a failure stales nothing |
| Import endpoint, `app/api/routes/admin_import.py`, `core/import_auth.py`, `core/limits.py` | `_import_running`, a process-local lock; two rate limiters | authorize, read a bounded body, import one at a time, dry run by default, audit | the lock is held exactly while an import runs and always given back; one bounded body in memory; the audit line says what happened |
| Import script, `scripts/bulk_import_listings.py` | none; a process of its own | the same sync, without the lock | the same |
| Wallet signatures, `app/core/wallet_auth.py` | `_seen_nonces`, in memory | check freshness, claim the nonce, recover the signer | only what was signed is authorized; a header is not replayed |
| Rate limiter, `app/core/rate_limit.py` | `_counters`, `_day`, `_served_today` under a lock | `check_ip`, from several threads | windows and the daily cap hold whatever order threads take the lock in |
| Pool and schema, `app/core/db.py` | `_pool`, `_schema_ready`, `_state_lock` in each process; the schema itself | first call opens the pool and migrates, `close_db` | nobody runs a statement against a schema that is not there; one pool, one migration per process |
| Verifier info, `app/core/verifier_info.py` | `_sections`, refresh flags, a stored copy | background refresh, snapshot | the last-known copy survives failures; "live" means confirmed; one refresh at a time |
| Badges, `app/core/score_client.py` | `_cache` | look up, fetch, store | nothing shown is older than the cache's lifetime; what an agent costs is bounded; a lookup ends |
| Pagination, `app/core/pagination.py` | the client's cursor | keyset pages by last activity or rank | no listing that stays put is skipped; only one that was moved down is repeated |
| Operator scripts, `scripts/admin_*.py` | none between runs; a prompt may stay open | guarded edit, hard delete, test purge, link repair | the write happens only to the rows the operator stated or was shown |
| MCP server, `app/mcp_server.py` | none of its own | the same search and facets as tools | the same |
| Discovery, errors, logging, health | none | documents and response shaping | nothing stateful |

Parts interact through the database and through nothing else, except that the
routes call the signature check and the rate limiter in their own process, and
an import call takes the process-local lock. The hard behaviours are therefore:
handlers interleaving between their statements; an import reading a list and
writing much later; a second process that does not share the lock; memory that
a restart forgets; clocks read before a lock is taken; an operator's prompt
between a look and a write; a migration that other processes watch statement by
statement. `PROJECT.json` lists
them one by one under `hazards`, each at its line.

## The modules

`ListingStore` holds the tables and every statement that writes them, as
operators from a table to the table it would leave; `Commits(T)` is the unique
indexes' verdict. `Maintenance` adds the purge. `ListingRoutes` adds the request
handlers and `ImportSync` the syncs; `Board` composes them with a clock and a
server restart and states the properties. `ListingLifecycle` is the abstract
specification of who controls a listing; `Board!LifecycleSpec` is the refinement
mapping to it. `OperatorScripts` adds the operator's script as one more writer of
those tables, and `OperatedBoard` composes it with `Board`. `WalletAuth`,
`RateLimiter`, `VerifierInfo`, `BadgeCache`, `ImportEndpoint`, `ImportPlan`,
`TemplateRepair`, `Search`, `Pagination` and `Startup` are components of their own: nothing they
decide depends on the board's state beyond what each models of it (`Pagination`
a listing's two times and its text, `Startup` a listing's version and what is
derived from it, `TemplateRepair` the template link and what decides about it,
`Search` what the filters look at, `ImportPlan` an import's content and flags). The `MC...` modules hold the
instances for TLC, the `...Proofs` modules the theorems: `BoardProofs` about
`Board`, `OperatedBoardProofs` about `OperatedBoard`, `AdmissionProofs` about
`WalletAuth` and `RateLimiter`, `ImportProofs` about `ImportEndpoint`,
`TemplateRepair` and `ImportPlan`, `ReadingProofs` about `Pagination`,
`BadgeCache` and `Search`, `VerifierInfoProofs` and `StartupProofs` about the
modules they are named for. `FiniteSums` has what they need of sums and of
induction.

**Handlers.** A handler is a record in `req[r]`: where it is (`pc`), the
operation, the row as it read it (`snap`, the code's `existing`) and its clock
reading. Every `await asyncio.to_thread(db. ...)` is a step of its own; what a
handler does between two awaits depends on its own snapshot only and belongs to
the step that read it. `XRefused` are the early returns of a handler, in the
code's order, `XRead` the read with all its checks passed, `XWrite` the
statement that writes. A write reports what the statement found: PATCH and
DELETE of a vanished row end in a 500, as in the code. Listing ids are uuid4, so
`NewId` never returns an id twice and a deleted id is `Gone` for good.

**Signatures in the board.** Within `Board` a request carries its signer and
`verify_wallet_auth(expected)` passes when the signer is the expected address;
any well-signed request may still be refused with a 401 (stale, replayed).
`Placeholder` is the zero address, for which nobody signs. `WalletAuth` is the
detailed model of that check: headers are a signature, a timestamp and a nonce,
and the server accepts when the signature recovers the expected wallet over the
message it rebuilds for *its own* request (`purpose` stands for action, listing
and body hash).

**Syncs.** `sync[p]` is one run: its rows, its sources and what its loops have
left. `ReadBatch` is parsing and validation (a record without a source or
invalid in itself is simply not in the batch), `PlanSource` one turn of the
planning loop with its do-not-import query, `Upsert` one `import_upsert`,
`MarkMissing` one stale marking. `SyncFails` may happen at any point, with the
`finally` that releases the lock. Endpoint calls are refused while the lock is
held, which changes nothing; scripts take no lock.

`ImportPlan` looks at one sync in full, with nobody else at work: a batch is a
sequence of records with repetitions, records without a source or a wallet,
records that are not objects and records with a field of another JSON type. It
keeps the table as it was `before` and the dry run's counts, may break off
between any two statements and is then run again. An imported listing is its
(source, endpoint key) there.

**Import endpoint.** `call[c]` goes through the middleware's check of the
declared length, the key, the limiter of the key's holder, the parameters, the
lock, the body chunk by chunk, the plan and the writes, with the status it was
answered with and the audit line's outcome. A stalled upload is a call that
takes no further step. `ServerRestarts` forgets everything in memory. The daily
cap and the eviction of a full table are in `RateLimiter`; here a limiter is its
count in the current window.

**Operators.** `command[s]` is one run of the script: the command, the values
expected, the row's change as computed before the prompt (`EditStart`,
`DeleteStart`, `TestPurgeStart`) and then one guarded statement (`EditWrite`,
`HardDelete`, `TestPurge`). `GuardHolds` is the statement's WHERE clause on the row
as it is by then. An operator may change an owner by design, so what
`BoardProofs` says of ownership is said of `Board`'s own `Spec`; what a row keeps
whoever writes it is proved in `OperatedBoardProofs`, for `OperatedSpec`.

**Link repair.** `repair[s]` holds the preview of one run (the id and link of each
row shown) until it has committed and logged. Syncs with the
board's links or with the source's, claims, owners, removals and the edit script
write the same rows meanwhile. A database starts with rows that were imported
before the board had links of its own.

**Badges.** `cache[a]` has the time the code stored and, as history, the time the
service was read; `lookup[l]` is a request between its miss and its store, an
await apart. An answer, a failure and the 15 s timeout are `Answer` with or
without a badge. `begun` counts the requests sent, as history.

**Search.** `request` is one search or facets request; each SELECT is a step.
`stale` is decided in the filter with the database's clock (the transaction's
beginning for a trigram search) and again in `Show`, when a row's badge has
come. `disturbed` is history: somebody wrote, or time passed under a filter on
staleness. The MCP tools call the same two functions.

**Verifier info.** A section's data is the version of the document it was read
from. A thread goes through loading, two fetches and saving; each may fail.
`sinceAttempt` is the monotonic time since the last attempt. `loadFailed` and
`outcome` are history: what this process could read and what it last fetched.

**Pagination.** A walk holds the query, the mode its first page settled and the
cursor, which is the position it encodes. `DecideMode` and `SelectPage` are
separate statements, as in `list_listings`: the count that picks the mode and
the page are not one snapshot. `seen`, `repeated`, `written` and `lowered` are
history of the walk; `lowered` marks a listing that a write moved down.

**Startup.** Each process has a pool, a ready flag and a lock; each thread goes
through `_connection` with its two unlocked reads, two looks under the lock and
the pool. The migration is a row of statements; neighbours that touch nothing
another process can tell apart are one step (the `ADD COLUMN`s; the
`search_vector` column with the `DROP TRIGGER`). Any statement may fail, any
process may crash and start again, and `close_db` may come from any thread, as
the verifier's thread outlives the shutdown. What a caller does once connected
is an insert, an edit or a delete. Table locks are left out: a statement of the
model never waits for another process.

**Data.** A name is reduced to whether it starts with `test-`, prices and
payment options to whether they are set, URLs to model values with
`Normalize` mapping two spellings of one endpoint to one key. Types and pricing
models keep one member of every class the code tells apart (offering, another
priced type, a type without pricing; none, free, priced). Text, search, paging,
response bodies and timestamps nobody decides on are left out.

**Time.** `clock` is wall-clock time in coarse ticks; the intervals are a tick or
two. The purge's monotonic clock is taken to run with it. The purge's turn
(`_last_run`) and its DELETE are one step: nothing but the next purge reads the
turn, and a failure between the two is the branch of `PurgeOrFail` that deletes
nothing. In `WalletAuth` a second has several ticks, because the code compares a
truncated second with a float; in `RateLimiter` a UTC day has several ticks.

## What the runs check

| Run | Bounds | Shows |
|---|---|---|
| `BoardPosting` | 2 ids, 2 handlers, 1 endpoint in two spellings and another, 3 bodies, 3 patches (deactivate and rename, turn into a test, reactivate), 2 clock values, test listings purged at age 0 | `OneActiveOffering`: no two active offerings of one owner normalize alike, through POST/PATCH/reactivation races beside the purge. |
| `BoardOperator` | 1 id, 2 handlers (post, PATCH, heartbeat, browse), 1 operator with three edits, a hard delete and a test purge, 2 clock values, interval and throttle of one tick, purge batch of one | `KeysFollowUrls`, `TestNamesKept` (the name prefix and `is_test` never part), `HeartbeatsAreSpaced`, `RemovalsAreWarranted`. |
| `BoardClaims` | 1 listing, 2 handlers of all five signed operations, a script re-syncing it with another wallet or an unclaimable one | `UnclaimedUntouched`, `ClaimedWritesAreAuthorized`, `RemovalsAreRecorded`, `LifecycleSpec`, `TypeOK`. |
| `Background`: imports | 2 ids, 2 sources, 2 endpoint calls, 1 handler (claim, move, remove), 4 batches | `PlannedRemovalsAreHonored`, `MarksAreJustified`, and `ImportLockReleased` under fairness. |
| `Background`: verifier | 2 threads, 2 versions of each document, TTL 2, backoff 1, 2 restarts | `OneRefresher`, `LiveIsConfirmed`, `LastKnownIsKept`, `StoredIsKeptIfLoaded`, and `RefreshEnds` under fairness. |
| `Process`: startup | a server with two threads and a script with one, 2 pool identities, 1 listing of 2 versions, old or new database, any number of failures and crashes | `ServesMigrated`, `PoolsAreAccounted`. |
| `Process`: signatures | 2 wallets, captured headers for two purposes with timestamps before, at and after the clock, ticks well past the memory of nonces, one restart | `ReusesAreFarApart`. |
| `Process`: limiter | 2 threads, 2 clients, 5 clock values over a midnight, a table that is full at one client | `StraddledWindowsBound`, `CapUpToRollbacks`, `CapRefusalsJustified`. |
| `Reading`: pages | 2 listings in pages of one, 2 texts (one found by full text, one by trigrams only), browse and one query, 2 clock values | `OnlyLoweredAreRepeated`, `NothingSteadyIsSkipped`. |
| `Reading`: search | 2 listings of 5 shapes, 8 questions, one write during a request, 3 clock values | `QuietAnswersAgree`, `StaleAnswersAreShownStale`. |
| `Reading`: badges | 1 agent, 2 lookups at a time, a lifetime of 2 ticks, 5 clock values | `ShownIsRecent`, `SpendingBounded`, and `LookupsEnd` under fairness. |
| `Imports`: endpoint | 2 calls, bodies of up to two chunks and one too many, 2 imports and 1 wrong key per window, restarts | `AuditIsTrue`, `WritesWereAsked`, `OneBoundedBody`. |
| `Imports`: batch | 2 sources, 2 endpoints, 6 batches of up to 3 records, every table of 4 kinds of row, one entry on the do-not-import list, 2 attempts | `CompletedSyncOwesNothing`, `CompletedAsForetold`. |
| `Imports`: repair | 2 listings, a repair run again and again, links absent, the board's or elsewhere | `ClaimedLinksAreTheOwners`, `BoardLinksAnswer`, `OffboardLinksAreOld`. |

`MCProcess`, `MCReading`, `MCImports` and `MCBackground` put several components
into one run. The components share no variable there, so `part` says which one of them moves,
and the others stay as they began: the run explores every behaviour of each of
them, and none of their products, which would say nothing more.

The purge finds something to delete in `BoardPosting` and `BoardOperator`. In
`BoardClaims` the clock does not run and no listing is a test, so what
`RemovalsAreRecorded` shows there is about `remove-imported`; that the purge,
whenever it fails or comes, takes only old test listings is `RemovalsAreWarranted`
in `BoardOperator`, and the theorem `RemovalsStayWarranted`.

Two handlers are enough for the races in the routes: each handler has one
decision and one write, and every property is about one row and one or two
writers; a third handler repeats one of the two. One listing suffices where the
properties speak of a single row (`BoardClaims`, `BoardOperator`, startup), two
where they compare rows or need the row re-created after a removal, or an order
(pages: one above the cursor, one below). Two threads suffice where the second
look under a lock is what matters, and a second process where migrations
interleave. For searches two listings are enough to tell a count of listings
from a count of payment options and a full-text hit from a trigram hit; for a
batch two sources and two endpoints give every pair of records that may collide,
and a second attempt every place a first one can break off. Request slots, an
import's calls, pools and the two threads of a server are interchangeable:
`BoardPosting`, `BoardOperator`, `BoardClaims`, `Process` and `Imports`, which
check no liveness, use symmetry.

Five runs show a disagreement between the code and what the repository says:

* `HeaderReplayed`: a header dated exactly the allowed skew ahead is accepted
  twice. Freshness compares its timestamp with the clock truncated to seconds, so
  it is fresh for up to 600.999 s; its nonce is forgotten once 600 s have passed
  since its use, and in what is left of the second the same header is let through
  again. `wallet_auth.py:37-39` says that a captured header "can't be replayed
  even once", and `README.md:279-282` that a pair "may be used exactly once". What
  does hold is `ReusesAreFarApart` (in `Process`), that a reuse comes more than two
  `MaxAge` after the use before it, and `AtMostOneReplay`, that there is no second
  replay, which is proved.
* `BoardReimport`: a sync that was planned before a `remove-imported` and writes
  after it re-creates the removed listing. The docs promise it stays away from
  later syncs; the script waits at a prompt between its plan and its writes, so
  the gap can be long. `PlannedRemovalsAreHonored` (in `Background`) is the part
  that does hold.
* `VerifierForgets`: the stored row is read once per process and a failure of
  that read is not retried, so a later refresh that gets one section of two
  replaces the whole row. `StoredIsKeptIfLoaded` is the part that does hold.
* `StartupSearch`: every start of a process drops the search trigger and creates
  it again in two statements while others serve. A listing edited in between
  keeps its old search vector; a start that fails there leaves no trigger.
* `PlanRefused`: two sources that list one endpoint as an offering have the same
  placeholder owner; the dry run counts both, the sync is refused half-way.
  `CompletedAsForetold` is what holds.

Further behaviour the models have and no run reports, because no property
claims the opposite: a claim may land just after a re-sync changed
`payment_wallet`, so that the owner is a wallet the listing no longer pays; and two
PATCHes, each consistent with the row it read, may leave a notice with a price.
The memory of nonces is the process's own (`README.md:281`: "tracked in memory"),
so a header used before a restart is let through after it, and `NeverReplayed`
speaks of one process. A listing the
repair has given no board link because it was still supplied keeps its source's
link when it goes missing later. Facets with a price cap count a network for
every listing that has it, also if the affordable option is on another; a facet
of zero under `q` may still be narrowed to, since the narrower search falls back
to trigrams.

The same goes for eight places where a document or a comment says more than the
code does:

* The badge cache does not join a lookup under way, so while the service is slow
  every listing view asks it again (`README.md:316-319` has it otherwise).
  `SpendingBounded` is what holds.
* A call whose declared length is over the limit is answered by the middleware,
  before its key is looked at and without the audit line that
  `import_auth.py:17` promises of every call. `AuditIsTrue` excepts it.
* A body over the limit without a declared length makes the middleware raise at
  the very limit the route checks: a 500, not the 413 of `README.md:467-468`.
* The link that the repair logs as the one before is the preview's; the UPDATE
  compares ids only, so it may have replaced another one
  (`admin_fix_template_urls.py:22-23`).
* A listing that grows stale while the page's badges are awaited is shown as
  stale in an answer to `stale=false` (`listings.py:290`).
  `StaleAnswersAreShownStale` is the direction that holds.
* A record with, say, a number for its source raises what validation does not
  catch, and the whole batch is given up (`import_sync.py:99` says never).
* The daily cap, which `README.md:573-575` calls hard and a bound on the listings
  of a day, forgets its count when `_day` goes back over a midnight
  (`rate_limit.py:56-57`), and with the process, as it is kept in memory.
  `CapUpToRollbacks` is what holds of one process: one more cap for each time the
  day went back.
* A listing whose record is in the batch but invalid counts as no longer
  supplied and is marked (`README.md:434-435`). `CompletedSyncOwesNothing` says
  so.

`StraddledWindowsBound` counts the threads. In a span of one window's length a
client is served up to (threads + 1) allowances, less one. A fixed window may be
straddled, which gives two, less one; and each further thread may hold a reading
of the clock from before the span, enter the lock when a full table has dropped
the client's window, and open one that starts in the past and soon runs out.

`CapUpToRollbacks` is as strong as the code allows: a thread that read the date
before midnight and enters the lock after one that read it later sets `_day`
back and clears the count, so a day may serve one more cap for each rollback.

**Fairness.** Three properties need any. For `ImportLockReleased`, `BackgroundSpec` has the weak fairness of `FairSpec`
on the steps of an endpoint import that has its whole batch: it runs in a server
thread, and every step either succeeds or raises. Nothing is assumed of a client
that is still uploading: `_handle` takes the lock before it reads the body, so a
stalled upload keeps the lock, and the property does not claim otherwise. Nor is
anything assumed of the operator at the script's prompt, or of handlers. For
`RefreshEnds`, it has that of `VerifierFairSpec` on the steps of a refresh that
runs: its fetches and statements have timeouts, and each step succeeds or fails. For
`LookupsEnd`, `ReadingSpec` has the weak fairness of `BadgeFairSpec` on the answer
and the store of a lookup: the HTTP client has a timeout of its own, and the event loop runs what is ready.

## What is proved

Every safety invariant and every action property that a run finds to hold is a
theorem, about the very specification the run explores, for every value of the constants
that the modules' assumptions allow: for any number of listings, wallets,
sources, handlers, syncs, operators, captured headers, threads, processes, walks,
any page size and any batch.

### The assumptions

Each is an `ASSUME` that TLC evaluates on every instance. Most say what a
constant is: `StoreAssumption`, `RoutesAssumption`, `ImportAssumption`,
`OperatorAssumption`, `AuthAssumption`, `SentAssumption`, `VerifierAssumption`,
`PagingAssumption`, `StartupAssumption`, `EndpointAssumption`, `PlanAssumption`,
`SearchAssumption`; `SentinelAssumption`, `MissingAssumption`,
`MissingRowAssumption` and `LinksAssumption` say that a value that stands for
"nothing" is not one of the things. Those that ask for more:

* `OperatorAssumption`: every edit and every delete states at least one expected
  value, and an edit changes something, which the script insists on.
* `PurgeIntervalAssumption`, `LimiterAssumption`: intervals and allowances are
  not zero, and the pool of threads is finite and not empty.
* `BadgeAssumption`: there are finitely many lookups at a time.
* `BatchAssumption`, `QuestionAssumption`: sources and keys are finite in number,
  as they are bounded in length (100 characters in `app/core/imports.py:39`, 2048
  in `app/core/models.py:25`), and so are listing types; the value for "no
  filter" is none of a filter's.
* `AdmissionProofs!NeverTwoReplays` has a hypothesis of its own, `MaxAge # 0`:
  with a freshness of zero seconds a header would be good for every tick of its
  second. The code's default is 300 (`app/core/wallet_auth.py:64`).

### The board

* `BoardProofs!TypeCorrectness`, `UnclaimedStaysUntouched`, `OnlyTheOwnerWrites`,
  `LockIsExact`.
  `UnclaimedUntouched` is not inductive: a PATCH in flight writes by id alone,
  and what makes that harmless is what was true when it was admitted.
  `OwnershipInv` adds that link. A claimed row has an owner who can sign, an
  unclaimed one belongs to the placeholder, and a PATCH, DELETE or heartbeat in
  flight was signed by the *present* owner of its row, because nobody signs for
  the placeholder (so no handler can be in flight from before a claim) and
  ownership never changes after it. The proof goes action by action; a lemma
  says which changes of the table keep the pending handlers' facts. That the
  import lock is held exactly while one endpoint import runs (`ImportLockExact`)
  is inductive beside the types: each step moves on, gives back or takes.
* The rest of `Board`'s safety properties, on one lemma: `StepIsStatement` says
  that a step of the board is one database statement (`Statement`: a POST's
  insert, a claim, a removal, a heartbeat, an update, the purge, a sync's upsert
  or its marking) or leaves the listings alone. With it
  * `BoardImplementsLifecycle` is the step refinement to `ListingLifecycle`:
    each statement is one step of the life cycle for one listing, or the purge
    for several, and no statement but a claim changes an owner;
  * `KeysAlwaysFollow` and `NeverTwoOfferings` come from `SlotInv`, which is both
    properties together: a heartbeat, a removal and a marking never ask the
    index, and cannot break it because they change neither owner, key nor status;
  * `RemovalsLeaveARecord` needs `SlotInv` too: a removal records the key of the
    row's URL, and the property asks for the key that the row stores;
  * `NamesStayHonest` comes from `NamesInv`: a PATCH in flight that carries a
    name carries one that fits its row, as no statement changes `is_test`;
  * `HeartbeatsStayApart` needs no more than the types: the UPDATE compares with
    the stored time again, whatever the handler read;
  * `PlannedRemovalsStay` and `MarksFollowWholeBatches` come from `PlansInv`:
    what is left to write was not blocked when it was planned, nothing is
    written or marked in a dry run, and only sources in the batch are marked.
* `OperatedBoardProofs`: the same board with the operator's script at work.
  `OwnershipInv` is of no use there, since an operator may write an owner;
  `OperatedInv` says what is left. A row in the table is a `KeptRow`: its key
  follows its URL, its name fits `is_test`, and without an owner it has a source.
  A handler in flight (`InFlight`) and a command at its prompt (`Prompted`) carry
  only what their checks let through, and a name they carry still fits the row
  they would write. A step of the board or of an operator `Moves` the table: each
  row stays, appears as a kept row, goes, or changes so that `StaysKept` holds of
  it, and only if its removal is warranted. `OperatedInvariant` and `OperatedTypes`
  follow; `OperatedKeysFollow` and `OperatedNamesStay` are parts of it;
  `OperatedHeartbeatsStayApart` comes from `StaysKept`. For `RemovalsStayWarranted`
  the removal of an import needs the invariant again, as the handler records the
  key of the URL and the property asks for the one stored, and a test purge needs
  that the cutoff fixed before the prompt still lies its age back.
  `OperatedIndexesHold` needs `IndexesHold` beside `OperatedInv`: a statement that
  gives a row a new owner, key or status asks both unique indexes (`Commits`); all
  others leave `NoNewSlots`, that is fewer rows, each in no slot of an index but
  its own. `OperatedOfferingsStayUnique` follows, as every key is that of its URL;
  the run `BoardPosting` checks that property on the board without operators.
  `OperatedPlansHold` is `PlansInv` again, on the types of the syncs alone, since
  the script never touches a sync. With it and `OnlySyncsLeaveTraces` (a step that
  is neither an upsert nor a marking adds no row without an owner and changes no
  missing mark) follow `OperatedRemovalsStay` and `OperatedMarksAreJustified`,
  which the run `Background` checks without operators.

### Signatures and limits

* `AdmissionProofs!NothingUnsigned`, `RecentUsesAreRemembered`,
  `ReusesStayFarApart`, `NeverTwoReplays`. The inductive invariant is
  `RecentUsesRemembered`: every use of the present process within the horizon is
  in `_seen_nonces`. Reuses of one pair therefore lie more than two `MaxAge`
  apart, and as the ticks at which one header is fresh span two `MaxAge` and less
  than a second, a third use of it has no room.
* `AdmissionProofs!CapHoldsUpToRollbacks`, `CapRefusalsAreJustified`, from
  `CapLedger`: it accounts separately for days behind, at and ahead of `_day`,
  since a day ahead of it can only have been left by a rollback.
* `AdmissionProofs!WindowsAreBounded`, from `WindowLedger`, which accounts for a
  client and each span of time. What was served in the span, what the client's
  window still has room for, and the allowance owed for each thread that holds a
  reading from before the span (`Openings`) stay within what all threads are owed;
  once the span is past, only threads with a reading from inside it can add to it,
  one each. The proof is why the bound counts the threads: two allowances hold
  for the run's instance, where an allowance is one request, and fail for larger
  ones.

### Imports

* `ImportProofs!OnlyAskedWrites`, `AuditsAreTrue`, `NeverTwoBodies`,
  `KeyHolderIsAdmitted`, from `EndpointInv` (`EndpointIsSound`): between a call's
  admission and its answer the lock is its own, so what each call has read,
  written and answered can be said call by call.
* `ImportProofs!CompletedSyncIsWhole`, `CompletedSyncIsForetold`, from `PlanInv`
  (`PlanIsSound`). In every attempt each listing is as it was before the first
  attempt or as owed (`EachAsBeforeOrOwed`); what is not yet as owed has its turn
  to come (`RestIsUnderWay`); and what is done and what is left to do add up to
  the dry run's counts (`CountsAddUp`). That a second attempt plans from a table
  the first one left half written is harmless, because writing a record over
  its own result changes nothing (`RewriteChangesNothing`), and a listing the first
  attempt already wrote or marked is owed what it now has.
* `ImportProofs!BoardLinksLeadSomewhere`, from `RepairInv`: beside its types it
  needs that an owner has only rows of the table. `ClaimedLinksStay` and
  `OffboardLinksStayGone` are properties of each step: the statements look again
  at what the preview read, except at the link itself.

### Reading

* `ReadingProofs!SteadyNeverSkipped`, `RepeatsAreLowered`, `CursorsMoveDown`,
  from `WalkInv`: a listing nobody wrote has been returned exactly if it does
  not lie below the cursor. That a page's choice is the top of the candidates
  (`SelectPage`) is what carries the separation from page to page.
* `ReadingProofs!ShownBadgesAreRecent` from `EntriesAreDatedBeforeRead`: a
  lookup takes its time before it asks, so an entry's date is never later than
  the reading, whichever of several answers is stored last.
* `ReadingProofs!SpendingIsBounded`, from `SpendingInv`: c lookups at a time cost
  at most c + (c - 1) + ... + 1 requests in one lifetime. Of the lookups under
  way only those begun before the span can still set the entry's time back to
  before it, each once, and only while it lies there can another lookup miss;
  `SpendsWithin` adds up what was begun, what each of those can bring about and
  who is free to miss now.
* `ReadingProofs!StaleAnswersStayStale`, from `AnswerInv`: what the filter found
  stale is stale at every later time.
* `ReadingProofs!QuietAnswersAddUp`, from `QuietInv`: what an undisturbed request
  has gathered so far is what the table and the clock say now, so that its
  statements are as good as one snapshot. That the counts of a facet add up to
  the total, and each to the total of the search narrowed to it, is then a
  matter of sums over finite sets.

### Processes

* `VerifierInfoProofs!NeverTwoRefreshers`, `MemoryAlwaysCoversRow`,
  `StoredStaysIfLoaded`, `KnownStaysKnown`, from `RefreshInv`: the flag says
  whether a refresh runs, and a process that has read the row has in memory at
  least what the row has, so that replacing the row loses nothing.
  `LiveWasConfirmed` comes from `ConfirmedInv` beside it: a section is live exactly
  when its last fetch went well. `LiveIsConfirmed` alone would let a section from
  the stored row pass for a fetched one.
* `StartupProofs!ServesOnlyMigrated`, `MigratesAlone`, `PoolsAreNeverForgotten`.
  `LockInv` says who holds `_state_lock`. `MigrationInv` adds what each statement
  can rely on (a thread at the guard has seen every listing get its key), which
  nobody undoes: no statement of any process takes away a key or a part of the
  schema but the trigger, and nobody inserts a listing without a key. `PoolInv`
  adds that whoever opens a pool found none, which the second look under the
  lock is for.

### What is only model-checked

Liveness under fairness, which is out of the prover's reach:
`ImportLockReleased`, `RefreshEnds` and `LookupsEnd`.

The inductive invariants themselves (`OwnershipInv`, `SlotInv`, `NamesInv`,
`PlansInv`, `OperatedInv`, `IndexesHold`, `RecentUsesRemembered`, `CapLedger`, `WindowLedger`,
`EndpointInv`, `PlanInv`, `RepairInv`, `WalkInv`, `DatedBeforeRead`, `SpendingInv`,
`AnswerInv`, `QuietInv`, `RefreshInv`, `ConfirmedInv`, `LockInv`, `MigrationInv`,
`PoolInv`), and what follows from them at once (`UsesWereSigned`, `AtMostOneReplay`,
`MemoryCoversRow`, `CursorsDescend`, `OneMigratorPerProcess`,
`KeyHolderIsNotLockedOut`), and `ImportLockExact`, are proved and not repeated in
a run.

The library's induction theorems take an operator as a parameter, which the
provers cannot instantiate. `FiniteSums` states induction over the numbers and
over finite sets with a set in its place, from the well-foundedness of `<`, and
derives from it that a sum (`MapThenSumSet`) over a finite set unfolds term by
term and grows by one when one of its terms does. What a recursive definition computes for every input would need the
same for sequences; nothing here does.

## Not modelled yet, and the plan

In this order:

1. What is left of ownership under `OperatedSpec`: that an unclaimed listing
   changes its owner only through a claim or an operator.
2. The locks a migration takes in the database while a prompt is open.
3. The order of a ranked page within one request.

Left out for good: how well a text matches a query, which is the database's
(`Search` and `Pagination` say for each text whether and in which mode it is
found); the syntax of fields, pure functions over strings; discovery documents,
tool schemas, error shapes, `next_actions`, health and logging, which keep no
state; the search log, which nothing reads; the comparison of the import key; the
edit script's log file.

## Running

    tlc -workers 2 -config BoardClaims.cfg MCBoard
    tlapm BoardProofs.tla

A run's module and config are named in `PROJECT.json`, with the mutants that
show that each property can fail: a mutated operator sits just before the
definition it would replace, with a comment that starts with "Mutant".
