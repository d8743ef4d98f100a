# A formal model of the events aggregator

TLA+ modules, TLC runs and TLAPS proofs for the service in `src/src/events_aggregator`
(paths below are relative to that directory; `README` is `src/README.md`).

The service copies events from an *events provider* into PostgreSQL, sells and cancels
tickets through the provider, and tells a notification service (*Capashino*) about every
purchase through a transactional outbox.  All of it is one asyncio process (several, with
`uvicorn --workers N`), one database, and two HTTP services it does not control.

## 1. Inventory

| Component | State | Operations | Interacts with |
|---|---|---|---|
| Outbox publisher (`services/outbox_publisher.py`, `db/repositories/outbox.py`) | table `outbox_events` (status, attempts); stop event; the batch in memory; row locks | poll, fetch a batch, dispatch, mark sent / failed attempt, stop | rows written by the ticket service; Capashino; the lifespan starts, stops and cancels it |
| Capashino client (`clients/capashino`, `clients/base.py`) | none | `send_notification`, mapping of answers to errors | Capashino |
| Ticket service (`services/tickets.py`, repositories `tickets`, `idempotency`) | tables `tickets`, `idempotency_keys`; advisory locks | `register`, `unregister` | provider, outbox table, seats cache, events table |
| Seats lookup and cache (`services/seats.py`, `services/cache.py`) | TTL cache in memory | get, set, invalidate, expire | ticket service, `GET /events/{id}/seats`, provider |
| Synchronisation (`services/sync.py`, repositories `sync`, `events`, `clients/events_provider/paginator.py`) | tables `events`, `sync_metadata`; class-wide `asyncio.Lock` | `sync(full)` | provider; started by the trigger endpoint, the scheduler and the lifespan |
| Events provider client (`clients/events_provider`) | none | list, page, seats, register, unregister | provider |
| Event queries (`services/events.py`, `api/endpoints/events.py`) | none | list with next/previous links, detail, seats | events table, seats cache |
| Lifespan, scheduler (`main.py`, `scheduler.py`) | tasks | start, graceful shutdown | publisher, synchronisation |
| Error mapping, routing, health, metrics, configuration, migrations | none of interest | | |

**Hard behaviours.**  No call to the provider or to Capashino is atomic with the database:
between any two awaits another request, another worker, a crash or a shutdown may come.
Answers are lost after they took effect, commits fail after the provider acted, and nothing
is compensated.  The row locks of a publisher's batch end with its *first* commit.  The
provider's `ticket_id` names a seat, not a registration, so rows and cancellations of
successive owners of a seat meet under one primary key.  Synchronisations read a listing that
changes under them, with a filter that only knows the day, and the lock that keeps two of them
apart ends at the process.  Requests keep a database connection while they wait for a lock or
for the provider.  A shutdown stops some tasks, waits for others and only cancels one of them
without waiting.  `PROJECT.json` lists the hazards with their lines.

**What makes each component correct.**
Outbox: at-least-once delivery, no row given up early, a bounded number of posts, every row
settled.  Tickets: one live purchase per key, every 201 committed with its outbox row, one
ticket per key, tables and provider in step, every request answered.  Request hash: refuses
other data and nothing else.  Synchronisation: the watermark leaves nothing behind, versions
never go backwards, the copy becomes exact unless two processes spoiled it and nobody repaired it.  Seats cache: bounded staleness, one's own purchase
visible.  Process: the pool never gets stuck, a shutdown ends and nothing outlives the client it
uses.  Event queries: the links show all the rows of every
time, and those of a table that grows.

## 2. Modules

| Module | Models | Proved in |
|---|---|---|
| `OutboxPromise` | what the outbox promises about one row: posted only while pending, settled once, attempts counted up to interruptions | |
| `Outbox` | the table and any number of publishers; refines `OutboxPromise` | `OutboxProofs` |
| `KeyPromise` | what an idempotency key promises the clients that use it: one purchase at a time, a record for ever, answers the record decides | |
| `Tickets`, `MCTickets` | registrations and cancellations of one event's seats; refines `KeyPromise` | `TicketsProofs`, `KeyPromiseProofs` |
| `RequestHash` | the comparison under an idempotency key | `RequestHashProofs` |
| `Sync`, `MCSync` | synchronisations of any number of processes against a changing provider | `SyncProofs` |
| `Seats` | readers, sellers and the clock around one cached list | `SeatsProofs` |
| `Process` | one worker process: its tasks, its connection pool, its shutdown | `ProcessProofs` |
| `Paging`, `MCPaging` | a client following next links over a table that changes | `PagingProofs` |

Components meet in three places, and each is modelled where it can go wrong.  A purchase and its
outbox row are one commit: `Tickets` has the row (`Confirmed`), and `Outbox` starts from any
pending row, so composing the two would multiply states without a new interaction.  A purchase
and the cached list meet in `Seats`, where a registration is reduced to "sells, then invalidates
or not".  All tasks of a process share its pool, locks, clients and shutdown: `Process`, where a
task is reduced to the sequence of what it waits for.

### Outbox

A row is a number, its rank by `created_at`; `Audit` are the `ticket.cancelled` rows, which are
only acknowledged.  One action per stretch between awaits: `Fetch` (the SELECT ... FOR UPDATE
SKIP LOCKED), `Dispatch` (the call, its effect at Capashino and how `_publish_one` classifies
the answer), `Mark` (the commit).  `seen` are the attempts in the objects of the batch:
`expire_on_commit=False`, so they are never read again.  `held` are the row locks; `Mark`
clears all of them, as a commit does.  An UPDATE waits for a row another transaction holds
(`Lockable`).  `CommitFails` (effect unknown), `Stop`/`Exit`, `Crash` (also the cancellation
after five seconds) and `Restart` interrupt a publisher.  Capashino either refuses (`rejected`),
fails without effect (`error`), accepts (`created`), recognises a key it has accepted
(`conflict`) or accepts with its answer lost (`lost`).  What raises before there is a request (a
payload without a key or with a bad UUID, an unknown type) would count an attempt without a post;
it is left out, since no row the ticket service writes gets there.

### Tickets

One event; a request is a coroutine with a program counter.  The provider is `holder`: which
registration has the seat.  Since `ticket_id` is bound to the seat (README:415) a seat stands
for it, and a ticket row is named by the registration that wrote it, which is what its other
columns say.  Cancellations name a seat likewise.  A provider call takes effect in one action
(`ListSeats`, `Buy`, `Unregister`) and its answer is used in a later one.  `got` is the list of
seats on its way.  `blamed` is a history variable: the registrations a fault, a `success=false`
or a re-sale during a cancellation put out of step with the provider; `InStep` is about all
others.  `response` is the kind of HTTP answer: a 404 for the list is told as no seats, a 404 for
the purchase as an unknown event, and any 400 as a taken seat (`Refuse`), whatever the provider
meant by it.

`KeyPromise` is the abstract specification: no lock, session or provider, only what is recorded
under a key, who is buying and what everybody was answered.  `Tickets` implements it
(`KeepsKeyPromise`): `record` is the `idempotency_keys` table, `buying` the requests that have
bought a seat and not committed, `answer` the kind of HTTP answer, with all refusals told as
one.  A commit that takes effect although it raised, and a crash after it, record a purchase
whose client hears of an error or of nothing.  The promise is about the requests of the service,
not about what a provider does for a request that was given up: that is `RetryCanSucceed`.

Left out: the order in which PostgreSQL grants an advisory lock beyond nobody starving; events
other than one, which share nothing but keys and locks.

`CancelledCounted` compares the audit rows with the purchases that are gone.  It leaves out the
blamed registrations, because for them the code does not do what `monitoring/metrics.py:28`
says ("counted from outbox audit events"): when the answer to a cancellation is lost, the provider has
freed the seat but nothing is written; the repeated cancellation is told the registration is
unknown, deletes the ticket and writes no audit row, so that cancellation is never counted.

### RequestHash

A text is a sequence of letters; `Join` is `"|".join` of two texts.  SHA-256 is taken to be
injective, so the hash is the text.  `event_id`, a UUID, is a single letter; names, addresses
and seats are texts that may hold the separator, as the request schema lets them.
`RefusedIffDifferent` is what the README promises, and fails; `MisledOnlyBySeparator` is what the
code keeps of it: only a separator in a name or an address misleads it, one in the seat, the last
field, does not.

### Sync

Time is the provider's clock and advances with every change.  A version of an event is its
`changed_at`; 0 stands for "no date" and for `sync_first_date`.  A call of `sync` is a record:
where it is, from which date it reads, what it has of the page and of the batch, the newest
`changed_at`.  `Begin` finds the lock free and reads the metadata row, `MarkRunning` commits it
as running, `GetPage` is one request to the provider, `Collect` the run of the loop over its
events until a batch is full, `Flush` one upsert and its commit, `MarkSuccess` and `MarkFailure`
the last commit.  The provider chooses how many events a page has and, at the start, the order
of its listing, which is not documented: by `changed_at` (a changed event comes up again) or by
id (a change behind the reader is not seen).  In both, an event that does not change is listed
once.  A link to another host, which the paginator refuses, is one of the failures of a page.

`home` says which process a call belongs to; the class-wide `asyncio.Lock` is `Locked`, which
looks at the calls of one process only.  Two history variables say when the code vouches for
its results: a job is `alone` while no call of another process and no midnight under a listing
by id has disturbed it, and `trusted` is the watermark's standing, lost by such a disturbance
and regained by a full synchronisation that ran alone to its end.  Nothing in the code starts a
full one, so `Converges` is conditional: the copy becomes exact if trust is never lost for good,
that is, if nothing disturbs the calls or if somebody triggers a full synchronisation afterwards
and it runs alone to its end.

Events never disappear at the provider (`Change`).  If they did, a full listing without the
newest event, or without any, would set the watermark back (`max_changed_at or changed_at`,
`services/sync.py:81`), the next call would read more than it needs, and rows of vanished events
would stay for ever: `WatermarkNeverBack` and `Converges` say nothing of that.

### Seats

A list of free seats is the instant the provider made it up and the number of sales it knew of.
`Ask`, `MakeList` and `Cache` are the three moments of a miss: the request leaves, the provider
answers, the answer is cached.  `Sell` is a change at the provider and `Committed` the
invalidation after the commit; `NotCommitted` is everything that changes seats without an
invalidation here (a lost answer, another process, another customer of the provider).  `Transit`
is the longest a call lasts, which the HTTP timeout bounds.  `crossed` marks the list that the
code cannot help caching after an invalidation it predates.

### Process

A task is a program, a sequence of `lock`, `sql`, `commit`, `provider` and `capashino`; `at` is its
place in it.  `Connect` takes a connection for the first statement of a session, a commit or the
end gives it back, and `pg_advisory_xact_lock` ends with them.  `Fail` is any early return,
error or timeout.  The lifespan is `phase`: `Terminate` (SIGTERM), `Stop` (requests drained,
the scheduler shut down, the publisher told to stop), `PublisherTimeout` after five seconds,
`PublisherStopped` (which cancels the first synchronisation), `InitialSyncStopped`, then the two
`aclose`.  `scheduler.shutdown(wait=False)` cancels the daily job without waiting for it; it is a
cancelled task that need only be resumed once, and the awaits before `aclose` do not depend on it.
The programs have one page and two rows: more repeat the same steps.

### Paging

A client follows `next` from page 1.  A request is two statements, `Count` and `List`, with the
synchronisation's `Upsert` possibly between them.  `ORDER BY event_time` has no tie-break, so
`List` takes any rows that begin what is left after any `Offset` rows that begin the table.  The
endpoint accepts pages up to `LastPage` (100) but the link to the one after is built all the
same: `Refuse`.

Rows that share their `event_time` may stand in for each other on successive pages, so `SeenOnce`
and `NothingHidden` count: of each time, the walk shows exactly as many rows as have it when the
table is at rest, and at least as many as it found when rows come in.  `Share` is the part of the
rows of a time that lies on the pages the endpoint accepts, so walks that are refused are held to
it too.  `sent` records what each page showed.  `late` are the rows that came between the last
count and its page: the link is made of that count, so for each of them one row at the end of the
table may be out of sight.  A row that moves to another time (`moved`) can hide or repeat any
number of others, and voids `NothingHidden`.

## 3. Runs

| Run | Instance | Shows |
|---|---|---|
| `outbox_single` | 3 rows, one audit, 1 publisher, batch 2, 2 attempts, 3 interruptions | delivery, limits, the refinement and liveness as the service is deployed |
| `outbox_shared` | 2 rows, 2 publishers, batch 2, 1 interruption | what overlapping batches leave intact; no circle of publishers waiting for row locks |
| `outbox_duplicate` | the same, no faults | **violated** `AtMostOnePost`: README:413 |
| `tickets_click` | 3 requests with one key (two equal) and one whose key has the same lock, 2 seats, 2 faults | idempotency under concurrency, and that it implements `KeyPromise`; advisory locks are given up; no deadlock |
| `tickets_resale` | 2 registrations and 2 cancellations of one seat, 1 fault | the tables and the audit follow the provider |
| `tickets_retry` | a request and its repetition | **violated** `RetryCanSucceed`: README:215 |
| `request_hash` | names of 1 or 2 letters, addresses and seats of 1, the separator among the letters | only a separator in a name or an address can pass other data for the recorded ones |
| `request_hash_bar` | the same | **violated** `RefusedIffDifferent`: README:214 |
| `sync` | 2 calls in one process or in two, 2 events, days of 2 instants, pages of any size, batch 2, at most 2 pages, 3 changes, 1 fault, listing by `changed_at` or by id | nothing skipped, no version and no watermark set back by a call that ran alone, although ids repeat, changes are made behind the reader and pages run out; what two processes spoil a full synchronisation repairs, if somebody starts one |
| `seats` | 3 requests, a list that lives for 2 instants, calls of 1, 6 instants, 3 changes | how old a served list can be, and when one's own purchase shows |
| `process` | 2 clicks with one key, a seat lookup, a triggered, an initial and a daily synchronisation, the publisher, a pool of 2 | no deadlock on pool and locks, every request ends, the shutdown ends and in the right order |
| `paging` | 5 events at 3 times, pages of 2, at most 2 pages, 3 writes | how many rows of each time a walk shows: all of a table at rest, no fewer than it found of a growing one, up to the last page and the rows that came after the last count |

**Why the bounds are enough.**  A batch of two rows is the smallest one that has a rest; two
publishers and two rows are the smallest overlap; three rows leave one outside a batch.  Two
attempts tell the first failure from the last.  Two requests with one key race, the third tells
equal data from other data.  One seat with two owners and two cancellations is the smallest
setting in which a stale row is deleted.  Days of two instants, three changes and two events
cover a change before, during and after a page, on either side of midnight; two calls suffice for
every disturbance of one by another.  Three requests around the cache are a list on its way, an
invalidation that crosses it and a reader; six instants let an entry expire, be renewed and
expire again.  A pool of two is the smallest that a click and its repetition use up, one holding
the lock and one waiting for it.  Five events on pages of two with at most two accepted leave one
beyond the last page.  The faults are enough for one before and one after every commit.
The counters bounded in guards are `MaxInterruptions`, `MaxFaults`, `MaxChanges`, `MaxTime`
and `MaxWrites`; everything else is bounded by the code.  `paging` takes its rows as
symmetric, which is sound for the invariants it checks: `Paging` never compares events.
`process` has no cancellation, whose program is a shorter registration without a lock;
`ProcessProofs` covers it.

**Violations.**  Each of the three is a disagreement between the code and a sentence of its own
documentation, quoted in `PROJECT.json`.

**Fairness.**  `Outbox`: weak fairness of a publisher's own steps, `Exit` and `Restart`: the
loop polls every few seconds, the HTTP client has a timeout, and a supervisor restarts the
process.  `Tickets`: weak fairness of every coroutine's step, and strong fairness of `Lock`,
because PostgreSQL queues the waiters of an advisory lock; cancellations never wait for a lock,
so liveness is checked where registrations queue.  `Sync`: weak fairness of a call's own steps
and of an incremental `Begin`, the daily job; a full one,
which only an operator starts, is not forced, hence the condition of `Converges`.  `Process`: strong fairness of each task's step,
because the pool and the lock manager serve their waiters in the order they came and every call
times out, and weak fairness of the lifespan's own steps.  Nothing is assumed of clients, of
Capashino's answers, of the provider's success, of SIGTERM or of faults, which stop only because
they are bounded; in `Process` a task may fail but never has to.

## 4. Proofs

Every safety property a passing run checks, every action property and both refinements are
proved for all constants; what is left to TLC is liveness.

`OutboxProofs`: for any rows, publishers, batch size, attempt limit and number of interruptions.
The inductive invariant has four layers: `Sane` (types, and that a publisher's batch, locks and
reply fit its program counter), `Honest` (a reply of `ok` means Capashino has the row,
`permanent` that it refused it, and every attempt in the table or in a publisher's memory has a
post behind it) and, for exclusive publishers, `Accounted` (no row in two batches, and posts are
bounded by attempts, the post in flight and the interruptions), and `Locking` (a publisher has
its whole batch locked or nothing, and no row is locked twice).  `Delivery` and `Perseverance`
follow from the first two and need no exclusiveness; `BoundedPosting` and `Refinement` need the
third, and their assumption `Exclusive` -- one publisher, or batches of one row -- is exactly
what `outbox_duplicate` shows to be missing with several workers.  `Refinement` proves
`Promise!Spec`: each action maps to an abstract one or to a stutter.  `NoPublisherDeadlock`
follows from `Locking`, with overlapping batches too: a publisher whose row is locked by another
one cannot have its batch locked, so it has nothing locked.

`TicketsProofs`: for any requests, seats, keys and lock hashes, from `Sane` (types and which
steps a kind of request can be at), `Keyed` (between `lookup` and the commit a keyed request
holds its lock, and past the lookup no record exists for its key), `Matched` (rows, holders and
`blamed` seat by seat), `Honoured` (what a recorded or answered request has in the outbox),
`Serving` (who is granted a lock is past waiting and before its end) and `Backing` (whoever wrote
an outbox row is past its commit, a ticket has its outbox row, a request that has not ended has
no answer, and whoever keeps a seat against a cancellation is in blame).  No relation between
keys and locks but that equal keys have equal locks is assumed.

`CancellationsCounted` is a counting argument.  Neither the tickets gone from the table nor the
audit rows are counted where they change together: a cancellation frees the seat in one step and
deletes and audits in another, between which a second one may be told the seat is free and
delete as well.  What changes together is counted instead: `Lost`, the purchases whose seat the
provider has taken back, and `Credited`, the cancellations that have freed a seat, audited or
not.  For a seat without blame `Credited` never outnumbers `Lost`, and `Lost` never outnumbers
`Credited` and the cancellations that failed (`Balanced`): freeing a seat adds one to both,
every other step of a blameless seat leaves both alone.  `CancelledCounted` follows, because by
`Matched` the tickets gone are the lost ones, but for one whose cancellation is about to delete
it.  The sets are finite because all but finitely many requests have not begun (`Begun`).

`KeyPromiseProofs`: `KeyPromiseKept` proves the refinement.  `Buy`, a commit and an answer map to
`Buy`, `Record` and `Reply`; a fault or a crash to `Fail` of whoever was under way, or to `Record`
when its commit has taken effect; the rest are stutters.  That nobody else is buying under the
key comes from `Keyed` (two buyers would hold one lock), that an answer is the one the record
calls for from `Honoured`, and that a request under way still waits for its answer from the last
part of `Backing` (`Unheard`).

`RequestHashProofs`: for texts of any length over any letters, the separator among them.
`JoinInjective`: if the first parts have no separator, the first separator of a joined text is
where its first part ends, whatever the rest holds.  Two requests of one hash and without a
separator before the seat are therefore one (`HashInjective`), and comparing hashes errs only on
others.  No assumption on the letters is made; that `event_id` has no bar is what a UUID is.

`SyncProofs`: for any events, calls, processes, day length, batch and page limits.  `Apart` says
that two calls which run at once and are still alone do not exist; `Faithful` is about a call
that runs alone and undisturbed: whatever lies behind its cursor and within its date is stored,
in its batch or on its page in the current version, or has changed since, on a day its new
watermark does not pass.  At `MarkSuccess` page and batch are empty, and `Faithful` becomes
`NothingSkipped`.  `SyncNeverBackwards` needs of it that a call which runs alone holds nothing
older than what is stored (`Fresh`), and `Apart`, that nobody else stores meanwhile.
`WatermarkOnlyAdvances` is about the other end: `Backed` says that the watermark, and whatever
newest date a call has, is no later than some event of the provider, since events only become
newer; `Ahead` that a call alone has already seen an event as new as the watermark or has one on
its page or still to be listed, because it asked from the watermark's day or from the
beginning.  When it ends there is nothing left to be listed, so it has seen one.

`SeatsProofs`: `Timely` (a list on its way was asked for at most `Transit` ago, the cached one
expires `TTL` after it came) and `Current` (a list that was not crossed knows of every change
the cache was invalidated for).

`ProcessProofs`: `Holding` (who has a lock has a connection and is past its `lock` step) and
`Stopped` (which tasks can still run in which phase of the shutdown).  `PoolNeverStuck` follows:
if every connection is held by a task that waits for a lock, the holder of that lock has one too
and waits for nothing in the process.  The argument needs the lock step to come first in its
program, as it does in `register`.

`PagingProofs`: `Counting` (what page, total, `late` and phase say of each other), `Exact` (without
writes the pages so far have shown of each time its share of that many rows) and `Shown` (with
insertions only, at least the share of the rows that were there at first).  The rows of one time
take up consecutive places, whatever their order among themselves, so how many of them a page has
only depends on how many come before: `ShareOfTheFirst` for rows that begin a table, `OnThePage`
for those that begin what is left.  An insertion can only put off the share of other times
(`Shares`), and a page adds to the share of the first rows no more than to that of all
(`ShareGrows`).

`TypeOK` of `Seats` and of `Process` is proved rather than run.  The assumptions are the named
`ASSUME`s of the modules; every one is evaluated by a run.

**Model-checked only.**  Liveness (`EveryRowSettles`, `EveryRequestAnswered`, `Converges`,
`EveryRequestEnds`, `ShutdownEnds`): the prover does not handle fairness.  Each of them rests on safety
that is proved: no wait without somebody who can end it (`LockServed`, `WaitersHoldNothing`,
`PoolNeverStuck`) and counters that are bounded (`TypeOK`, `PostsBounded`).

## 5. Not modelled

Previous links (`_build_page_url` for page - 1) and the detail of an event, which read one row
and decide nothing; status codes, bodies and `Retry-After` (no caller acts on them); routing,
metrics (but for what `tickets_cancelled_total` counts), configuration values, DDL, the growth of `idempotency_keys`,
which is slow but never wrong.  Several processes are modelled where they
share something: the outbox table, the advisory locks, the tables of events and metadata.
The provider, Capashino, PostgreSQL's lock manager, SQLAlchemy's pool and uvicorn are external:
the models assume only what the code relies on, and `map` marks these definitions external.
