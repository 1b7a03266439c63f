# knx-telegram-store in TLA+

knx-telegram-store keeps the telegrams of a KNX bus: a host (Home Assistant, SpectrumKNX) hands
every telegram to `store()`, a write buffer collects them and writes them to SQLite or PostgreSQL in
batches, and queries read them back. This directory specifies the parts of it where the order of
events decides the outcome, checks them with TLC on small instances, and proves the safety
properties with TLAPS for all instances. Paths below are relative to
`src/src/knx_telegram_store/` unless they start with `src/`.

1. [Inventory](#1-inventory)
2. [Modules and their order](#2-modules-and-their-order)
3. [The write buffer](#3-the-write-buffer)
4. [Integer timestamps](#4-integer-timestamps)
5. [UTC conversion](#5-utc-conversion)
6. [Schema upgrade](#6-schema-upgrade)
7. [The SQL write path and the notifications](#7-the-sql-write-path-and-the-notifications)
8. [Queries and those who page through them](#8-queries-and-those-who-page-through-them)
9. [What is proved, what is only model-checked](#9-what-is-proved-what-is-only-model-checked)
10. [Disagreements between the code and its documentation, and known limits](#10-disagreements-between-the-code-and-its-documentation-and-known-limits)
11. [What is not modelled, and the plan](#11-what-is-not-modelled-and-the-plan)

`PROJECT.json` lists the same things for machines: components, runs, a mutation of the model for
every property, the source lines behind every definition, findings, hazards and theorems.

## 1. Inventory

| Component (code) | State | Operations | What is hard | Correct when |
|---|---|---|---|---|
| Write buffer (`buffered.py`, `buffered_sql.py`) | buffer, flush task, mutation lock and its owner, flush lock, write gate, `_closing`, `_initialized` | `store`, `store_sync`, `store_many`, `flush`, `query`, `get_stats`, `get_last_unique_telegrams`, `optimize`, `evict_older_than`, `evict_expired`, `clear`, `begin_backup`, `end_backup`, `initialize`, `start`, `close` | any two calls interleave at every await; a database call fails, is cancelled, or has committed although it failed; backups hold writes off | nothing is lost silently, order is kept, reads see earlier writes, nothing evicted comes back, a backup sees no write, close flushes, nobody waits for ever |
| SQLite backup lock and close (`backends/sqlite.py` 259-302, 357-391) | the connection that holds the write lock | `begin_backup`, `end_backup`, `close` | `close` and the two others overlap | a backup is ended once |
| SQLite timestamp conversion (`backends/sqlite.py` 304-590) | format of every row, flags in `store_metadata`, index, statistics, free pages, `_integer_timestamps_seen` of a reader | `initialize`, `needs_migration`, `query` of a read-only store | cut-offs between transactions, a full volume, another process reading during the rewrite | the flag tells the truth, a start resumes, reads are exact, `needs_migration()` keeps its promise |
| UTC conversion (`backends/sqlite.py` 60-150, 591-789) | convention of the file's digits, the boundary instant, the last rowid of the old rows, a flag | `initialize`, `needs_migration`, `migrate_timestamps_to_utc` | running a shift twice, rowids that retention frees, daylight-saving changes, restarts with and without a zone | a row is shifted once, by the offset of its own local time, and a new row never |
| Schema upgrade (`backends/sqlite.py` 790-1090) | columns, lookup ids, flags, `_telegrams_old` | `initialize`, `needs_migration` | commits between single statements; a pass whose failure is swallowed | a later start completes it, a value is recovered and unwrapped once, no row is left behind |
| SQL write path, lookup cache (`backends/base_sql.py`, `lookup.py`) | `string_lookup`, the cache, `telegrams`, `last_ga_telegrams` | `store_many`, `clear`, `evict_older_than`, `get_last_unique_telegrams`, reconciliation | several PostgreSQL clients; a transaction rolls back after ids were made | the cache never names an id that is not committed; a last value is the newest |
| Queries (`backends/base_sql.py`, `backends/memory.py`, `query.py`) | none | `query`, `count`, `get_last_unique_telegrams` | time-delta window, equal timestamps, pages and total are two statements | both backends answer alike |
| PostgreSQL startup (`backends/postgres.py`) | columns, table locks, advisory lock, flags, hypertable | `initialize`, `needs_migration` | two processes start at once; clients hold locks; a process of the version before | each pass is applied once, flags tell the truth, the backfill waits for nobody |
| Notifications (`backends/postgres.py` 335-425) | trigger, queue of one listener | `listen_for_new_telegrams` | rollbacks after the trigger ran, telegrams too large, a listener that subscribes meanwhile | every telegram committed after the listener is added, once |
| Memory store (`backends/memory.py`) | a bounded deque | the store interface | bisection, equal timestamps | newest `max_telegrams` kept; answers as the SQL stores do |
| Migration tool (`src/tools/migrate_store.py`) | set of copied timestamps, offset | copy | paging while the source is written; killed and run again | every telegram is copied once |
| MCP tools (`mcp/`) | none | `query_telegrams` and others | a client that pages while the store is written | pages cover the result |
| Connection checks (`connection.py`), ETS XML import (`formats/ets_xml.py`), records and interfaces (`model.py`, `store.py`), sample database tool (`src/tools/migrate_sample_db.py`) | none between calls | - | - | - |

How they interact:

- `BufferedSqliteStore` is `_BufferMixin` over `SqliteStore`: every public call goes through the
  buffer's locks and then to the backend with `super()`. A flush, which holds the mutation lock,
  calls the public `store_many()` of its own object, which asks for the same lock and for the gate:
  the lock is re-entrant by owner, and the gate must be open then.
- `begin_backup()` takes the mutation lock, flushes, takes SQLite's write lock on a connection of its
  own, and shuts the gate. The lock is released, the gate stays shut until `end_backup()`, which takes
  no lock.
- `initialize()` runs before the buffer writes. It converts the file; read-only stores of other
  processes read the same file and see only its rows and flags.
- `needs_migration()` is asked by the host before `initialize()`, to decide about a timeout.
- `initialize()` of SQLite runs the schema upgrade, the integer conversion, the classification, the UTC
  conversion, then warms the lookup cache and repairs the last values, in this order. Each pass tells
  from the file and its own flags what is left to do: they are
  specified one by one.
- Several processes may have stores on one PostgreSQL database. They meet in `string_lookup`, in
  `last_ga_telegrams` and, while starting, in the locks on `telegrams`; what each keeps in memory is its
  lookup cache.
- The MCP tools and the migration tool use the public interface: they page by offset through `query()`.

## 2. Modules and their order

| Module | What |
|---|---|
| `WriteBehind` | the abstract promise of the write buffer: a bounded queue in front of a log |
| `BufferedStore` | the write buffer over SQLite, one step per stretch of code between two awaits |
| `BufferedStoreProps` | its properties, the fairness, and the refinement of `WriteBehind` |
| `BufferedStoreProofs` | its theorems on the lock, the types and the losses, then on the write gate, backups and `close()` |
| `BufferedStoreDataProofs` | its theorems on rows, queries and losses, and the refinement of `WriteBehind` |
| `MCBufferedStore` + `MCBufferedStore_*.cfg` | instances for TLC |
| `IntegerTimestamps` | the conversion to integer timestamps with its flags, its readers and its cut-offs |
| `IntegerTimestampsProps` | its properties |
| `IntegerTimestampsProofs` | its theorems |
| `MCIntegerTimestamps` + `MCIntegerTimestamps_*.cfg` | instances for TLC |
| `UtcTimestamps` | the shift of local digits to UTC, from the first start on, with its properties |
| `UtcTimestampsProofs` | its theorems |
| `MCUtcTimestamps` | an instance for TLC |
| `SchemaUpgrade` | columns and passes over the rows at a start, on SQLite and on PostgreSQL |
| `SchemaUpgradeProps` | its properties |
| `SchemaUpgradeProofs` | its theorems |
| `MCSchemaUpgrade` + `MCSchemaUpgrade*.cfg` | instances for TLC |
| `SqlStore` | transactions of several processes on one database, statement by statement, and a listener |
| `SqlStoreProps` | its properties |
| `SqlStoreProofs` | its theorems on caches and ids, then on last values, notifications and types |
| `MCSqlStore` | an instance for TLC |
| `Queries` | what a SQL store and a memory store answer to one query, after the same calls |
| `Paging` | a client that pages, and the migration tool, over a store that is written meanwhile |
| `PagingProps` | the properties of both |
| `PagingProofs` | its theorems |
| `MCPaging` | an instance for TLC |
| `OrderLemmas` | extremes of finite sets and of sets of numbers, used by the proofs of three modules |

The buffer came first, since every telegram passes it and most of the concurrency is there; the
conversions next, since they rewrite all of a user's data; then what several processes do to one
database; then the reading side. `Paging` extends `Queries`, and uses its order, slices and
`limit_reached`. `BufferedStore` and `SqlStore` meet in `store_many()`: what is one step with a chosen
outcome there (`Committed`, or a failure that had committed or had not) is the sequence of statements
here. The names of
actions and variables are those of the code where TLA+ allows it. A definition named `X_Something` is
a variant of `X` with a plausible bug; no specification uses one, the mutations of `PROJECT.json` put
it in the place of `X` to see that a property notices.

## 3. The write buffer

### Code and model

The code is one asyncio event loop, so what a task does between two awaits is atomic. A step of
`BufferedStore` is such a stretch. `pc[t]` names the await at which a task is suspended:

| `pc` | await | code |
|---|---|---|
| `gate` | `_writes_allowed.wait()` | `_write_gate()` |
| `lock` | `_mutation_lock.acquire()` | `_mutation()` |
| `write` | `store_many(batch)` in a flush | `_flush()` |
| `single` | `store_many([telegram])` in the fallback | `_flush()` |
| `read`, `stale` | the backend's query, after a flush or after one that a backup held off | `query(flush_first=True)`, `get_stats()`, `get_last_unique_telegrams()` |
| `direct`, `vacuum`, `clear` | the backend's call | `store_many()`, `optimize()`, `clear()` |
| `evict`, `evictcancel` | `asyncio.shield(task)`, and the wait for that task after a cancellation | `evict_older_than()` |
| `begin`, `end` | checkpoint and `BEGIN IMMEDIATE`, `COMMIT` | `begin_backup()`, `end_backup()` |
| `closeend`, `join`, `closebackup`, `dispose` | the `end_backup()` of `close()`, the flush task, `end_backup()` of the backend, the engine | `close()` |
| `sleep`, `ended`, `none` | the flush task sleeps, has ended, was not started | `_flush_loop()` |

`mutationOwner` and `lockQueue` are the re-entrant lock with its queue, `writesAllowed` the gate,
`backupInProgress` the flag of `SqliteStore`. `db` is the table as a log of rows, `batch[t]` what a
call is writing. `accepted`, `direct`, `fate`, `mark`, `ambiguous` and `backupHost` are history: no
guard of the code reads them, except that `accepted`, `direct` and `ambiguous` bound the model, and
that `backupHost` says which host may call `end_backup()`.

A call to the database may succeed; raise with nothing done; raise although its transaction had
committed (`Committed`, bounded by `MaxAmbiguous`); raise a data error, for a telegram of
`Unstorable`; or be cancelled, which the model does not tell from a failure, as the code treats both
alike up to the exception raised. `Faulty` switches failures and cancellations by the host off.

Decisions worth knowing:

- A task that finds the lock free takes two steps, `Enqueue` and entry. A call that the host wraps in
  a task starts one turn of the loop later; a call awaited directly is one of the orders the model
  has.
- A waiter at the gate that was woken and finds it shut again goes back: in the model it does not
  leave.
- `_flush_lock` is not a variable. The code takes it only while it holds the mutation lock, and the
  eviction task takes it while its caller does; `MutualExclusion` states that this is so, the lock is
  thus never contended.
- `store()` and `store_sync()` do the same and are one action; on a closing store they change nothing.
- `evict_expired()` is the same path as `evict_older_than()` without the shield and is represented by
  it.
- `flush()` replaces the flush task. The new one sleeps again: `ResetTimer`.
- The backend is SQLite. PostgreSQL and memory backends have a `begin_backup()` and `end_backup()`
  that do not suspend: their orders are among those modelled.
- Of the hosts it is assumed that a backup is ended by the host that began it, and `close()` may come
  from any.
- `max_buffer_size` is at least 1. With 0 the code's `[-0:]` would keep the whole buffer; the hazard
  is listed, and the constant's assumption excludes it.

### The runs

There are two hosts and the flush task: with two hosts one can be at any await while the other makes any call,
and the flush task is the third party that flushes without being asked. `writes` uses the
symmetry of the hosts; `calls` cannot, since it checks liveness. Deadlock checking is on everywhere: the flush task of an open store can always
go on, and a store that closes leaves calls that are refused.

| Run | Question | Bounds |
|---|---|---|
| `writes` | does any interleaving of `store`, flushes, `query(flush_first)`, `store_many`, evictions, `clear` and `close` lose or duplicate a telegram without a reason, change their order, bring an evicted one back, break a read after a write, or close without flushing? | 3 telegrams for a buffer of 2, so it overflows while a batch is in flight; telegram 2 is unstorable, so the fallback runs; telegram 1 and the direct one are outdated; one failed write that had committed |
| `calls` | with backups and every kind of call that writes or holds the lock: is the lock exclusive, the database quiet from the return of `begin_backup()` on, the gate open for everyone who is inside, does every call end, and does every telegram reach the database? | 2 telegrams, one unstorable, both in one batch; 1 direct write |
| `close_during_begin`, `close_during_end` | the two disagreements of section 10 | smallest that show them |

`writes` leaves backups out because `CloseFlushes` does not hold with them (section 10) and because
`calls` looks at them. `calls` leaves out `query`, which waits where `flush` waits, and `optimize`,
which waits where `clear` does.

Why small bounds suffice here: the code never looks at a telegram except to ask whether it is
outdated or cannot be stored, and at the buffer only to ask whether it is empty or full. Three
telegrams over a buffer of two give a full batch in flight with a buffer behind it, which
`_requeue()` must cut. The invariants that are proved hold for all bounds.

The properties, in words, are in `BufferedStoreProps`. `ImplementsWriteBehind` is the summary: with
locks, tasks, failures, backups and close hidden, what remains is a bounded FIFO queue that loses
telegrams only in the ways the documentation names, and repeats a write only when its outcome was
unknown. `pending` is what the lock's owner is writing, followed by the buffer.

### Fairness

`FairSpec` asks for weak fairness of what a running event loop does: the flush task is started
(`Start`), its sleep ends (`Tick`), a flush goes on (`FlushStep`), the eviction task ends, and a
host's call goes on once it can (`Progress`), which contains that the database answers, if only with
an error, and that a backup is ended. Calls, `store()`, cancellations and failures are never forced.
`EventuallyStored` assumes more, and says so in its premise `Recovers`: a database call made again and
again succeeds at some time (strong fairness, since failures disable it in between), and backups end.
Without the first, a database that never comes back leaves the buffer as it is, which is what the
code intends; without the second, a host that waits at the gate for the end of its own backup would
wait for ever.

A call held off by a backup waits for as long as hosts take one backup after the other: `EveryCallEnds`
says of it that it goes on when they stop.

## 4. Integer timestamps

### Code and model

Since 0.15 SQLite files hold timestamps as integers, and `initialize()` rewrites the text of older
files. One process owns the file. `phase` is its next transaction:

| `phase` | code (`backends/sqlite.py`) |
|---|---|
| `probe` | flag and text rows are looked up, room for the index is checked |
| `drop` | the index is dropped, its statistics with it |
| `batch` | `_convert_table_to_integers()`: rowid ranges, each in its own transaction, first `telegrams`, then `last_ga_telegrams` |
| `flag` | `timestamps_integer` is set |
| `indexes` | the missing index and the missing statistics |
| `fits`, `vacuum`, `unflag` | `_vacuum_when_room()` and the flag `vacuum_pending` |
| `warm` | lookup cache, `_reconcile_last_ga_telegrams()` |
| `ready`, `down` | the store is in use; no process has the file open |

At every phase the process may be cut off (`CutOff`), and the next `Start` begins with `Probe`. Free
space on the volume changes at any time between less than half of the file, less than the file, and
enough for a copy, which are the two limits the code compares with. `NoRoom` is an `initialize()`
that raises. In use, the owner writes, evicts and vacuums.

A row is its group address, its instant and its format. `AtMost` is SQLite's order, in which every
integer comes before every text: comparisons across formats are what can go wrong, and no property is
written with it. The read-only store looks the flag up in one connection (`ReadProbe`) and reads rows
in another (`ReadRows`); what it finds is compared with what it should have found. `bloated` says that
pages the rewrite freed are still in the file.

`Init` is every file that 0.14 leaves: text rows, last values that are right if the repair has run,
and may be missing or stale if not. `VACUUM` keeps rowids as far as the code depends on it. The other
passes of `initialize()` (schema, UTC) come before and after and belong to later modules; a host does
not write before `initialize()` has returned, as the project's README asks of it (`src/README.md`
88-92).

### The runs

| Run | Question | Bounds |
|---|---|---|
| `timestamps_owner` | whatever is cut off: does the flag tell the truth, is a finished start complete, are last values right, is a start that `needs_migration()` called quick, quick, does a reader that is not overtaken find exactly its rows, does the conversion end, and does a skipped VACUUM run? | 2 group addresses, 2 rows in batches of 1, so that a table takes two ranges; 2 instants; 2 cut-offs, so that a resumed start is cut off again; a reader |
| `timestamps_reader_overtaken`, `timestamps_vacuum_lost` | the disagreements of section 10 | smallest that show them; the first has batches of 2 for 3 rows, so the last range is not full |

The number of cut-offs is bounded (`MaxCuts`), that of orderly closes and restarts is not.
`MaxRow` bounds the rowids a write may use; rowids keep growing after evictions, so ranges with gaps
occur.

`FairSpec` is weak fairness of `Initialize`: a start goes on until it is cut off, and the host starts
a store again that failed to start. The volume and the host's use are free; what the liveness
properties need of the volume stands in the property: half of the file stays free for
`ConversionCompletes`, a copy of it for `PendingVacuumRuns`.

## 5. UTC conversion

### Code and model

Versions before 0.14 wrote local wall-clock digits. The first start of a later one classifies the file
(`Classify`): an empty one is UTC; an old one gets a boundary instant and the last rowid of the old
rows, unless the host has named the zone that wrote it and the conversion follows at once. A later
start with the zone (`Convert`), or a call on a store in use (`MigrateCall`), shifts the rows in scope
with one UPDATE per table.

Time is counted in units, `Hour` of which make an hour. A row carries the instant it stands for, which
only properties read, and the digits in the file. A zone has one change of offset. `OffsetAt` is the
offset of local digits with `fold=0`, as Python resolves them; `Boundaries` is the hourly walk over the
rows' range with its bisection (`TransitionBetween`), and `OffsetIn` the branch of the UPDATE's CASE.
That this finds the offset of each row's own digits is not assumed: it is `LegacyShiftedOnce`, and the
lemma `OffsetFound` proves it for every zone, length of an hour and range of rows.

`TelegramScope` uses rowid and boundary together while the marked row is there, and the boundary alone
after retention took it; `LastScope`, over upserted rows, has only the boundary. `lost` is history: which
of the two evictions that the comment at `backends/sqlite.py:702-708` speaks of has happened.

### The run

`utc`: zones east and west of UTC, each with a repeated hour or a gap, whose change falls among the
rows of the file or right before the upgrade; up to 3 old rows at 4 instants, 1 group address, 4 more
units of time after the first start, telegrams that arrive a unit late, every eviction bound, and any
sequence of starts with and without the zone, cut-offs and restarts. Two units make an hour, so that a
change of offset need not fall on an hour. Shifts act on single rows, so more rows would only repeat;
three of them make oldest, middle and newest different. `UtcRowsKept`, `LegacyShiftedOnce`,
`FlagMeansConverted` and `QuickWhenPromised` are safety properties; no fairness is assumed. `lost`
and the second pass of a repeated hour delimit what they promise.

## 6. Schema upgrade

### Code and model

A database of an earlier version may lack the columns `value` and `value_numeric`, or have columns that
are dropped or renamed. `Layouts` and `Schemas` are the combinations that versions left. A value is the
number of `{"value": ...}` layers around a scalar: unwrapping takes one off, so it matters that it
happens once.

`phase[p]` is the next statement or transaction of `initialize()` of process `p`:

| `phase` | code |
|---|---|
| `tables`, `columns`, `rename`, `create`, `copy` | SQLite: `create_all()` and the statements of `_upgrade_schema()`, each committed on its own until the first INSERT, UPDATE or DELETE opens a transaction |
| `passes` | SQLite: the transaction with the recovery of missing values and the unwrapping; `Upgrade`, or `UpgradeFails`, whose failure is swallowed |
| `inspect`, `alter` | PostgreSQL: the transaction of the columns, which waits for every lock on `telegrams` |
| `backfill`, `lock`, `work` | PostgreSQL: advisory lock, `LOCK TABLE ... NOWAIT` after the flags told which, and the passes |
| `ready`, `down` | the store is in use; no start is under way |

`locks` holds the mode of each holder; two holders besides the processes stand for a client with an open
transaction and for a process of the version before, whose unwrapping reads rows and writes them later
(`BeforeReads`, `BeforeWrites`).

### The runs

| Run | Question | Bounds |
|---|---|---|
| `upgrade` | on both backends: is a value unwrapped once, is a row of this version left alone, do flags and `needs_migration()` tell the truth, does the backfill wait for nobody? | 2 processes on PostgreSQL (one owner on SQLite), 2 rows of every kind that versions wrote, all crashes |
| `upgrade_rows_stranded` | a disagreement of section 10 | smallest that shows it |

Two processes suffice because the advisory lock lets in one at a time and the third is turned away as
the second is. `FairSpec` is weak fairness of each start, which goes on until it is cut off; clients are
not fair, they may keep a transaction open for ever. `BackfillNeverWaits` holds in spite of that since
every step of the backfill is enabled whatever they do.

## 7. The SQL write path and the notifications

### Code and model

A step of `SqlStore` is a statement of a transaction, or its commit; other processes go on between two
of them. `pc[p]` is the next one:

| `pc` | code |
|---|---|
| `idle` | no transaction |
| `names` | `get_or_create_ids()`: one `INSERT ... ON CONFLICT DO NOTHING` after the other for names that are not cached (`InsertName`) |
| `insert` | ids are read back, rows are inserted (`InsertTelegrams`) |
| `upsert` | the newest telegram of each destination is upserted, destinations in the order in which the batch names them first, as a dict keeps its keys (`Upsert`, `FirstOf`) |
| `commit`, `publish` | the commit, and `LookupCache.publish()` after it |
| `clear telegrams`, `clear snapshot`, `clear last`, `clear commit` | `clear()` with its two deletes |
| `count`, `stale`, `fill`, `reconcile commit` | `_reconcile_last_ga_telegrams()` |
| `down` | no process; `Warm` starts one |

`tx[p]` is what the transaction has inserted and which keys it holds. What PostgreSQL does stands in a
few operators: `Apply` makes a transaction visible at its commit (READ COMMITTED), `Locked` and
`Deleting` are the rows another transaction has written or deleted, for which a statement waits, and an
id that was rolled back may be given again (`FreshId`), as SQLite does. Deadlocks between two batches are
resolved by a rollback (`Fail`), which may happen anywhere and also stands for cancelled statements and
for commits whose answer is lost.

Of the six names a telegram carries the destination stands for all. `due`, `written` and `torn` are
history; a telegram is stored once (the buffer's repetition of writes is section 3).

The trigger runs inside the transaction and its notifications are delivered at the commit, in any order
among the rows of one statement. `queue` is the `asyncio.Queue` of the listener, `got` what it yielded.

### The run

`sql_writers`: 2 processes, 3 telegrams, 2 of them of one group address in both orders of time, one
telegram too large to be announced, 5 batches with two that lock in opposite orders, one eviction bound,
an initial database with every set of rows and of missing or stale last values. With two processes each
statement of one meets each of the other; all six properties are proved for every number (section 9).
Symmetry of the processes is used; no liveness is claimed. Deadlock checking is on.

## 8. Queries and those who page through them

### Code and model

`Queries` has the two answers side by side: `SqlMatches` and `SqlPages`, which are the statement's WHERE,
EXISTS over the pivots, ORDER BY and LIMIT, and `MemoryMatches` and `MemoryOrder`, the loop with its
bisection, stable sort and slice, over positions of the deque: what a stable sort puts at a place is the
match that so many others come before (`Earlier`). Rows of one timestamp have no order in SQL: `SqlPages` is the set of
pages the database may return. Both stores are driven by the same calls (`StoreMany`, `EvictOlderThan`,
which only SQL has, `Clear`), so the contents compared are those a history of calls leaves. Windows of a
query reach to both sides of a pivot (`AskedAssumption`; `query.py:35` says "within ±delta"): the code
does not refuse a negative delta, for which the two stores need not agree.

`Paging` reads the SQL store while a host writes it. A query is a count (`CountStatement`) and a page
(`ClientPage`, `ToolPage`), and the host may act between them. The migration tool reads the timestamps
the destination has (`Load`), the size of the source (`Measure`), then page by page stores what it does
not know (`ToolStore`); it may be killed at any time (`Quit`) and started again on the destination it
left. The destination `dest` is a bag, since nothing but the tool's own bookkeeping keeps it from storing a
telegram a second time. `kept` and `disturbed` are history: which rows were there all along, and whether rows moved in
front of the reader, which offset paging cannot see.

### The run

`paging`: 5 telegrams, two of them with one timestamp, pages of 2, a deque of 3, `--limit-newest` 3,
every order of six batches, two eviction bounds. Whenever both stores hold the same telegrams, every
query of `MCQueries` is asked of both: each combination of filters with each time range and window, and
all slices for one of them. Five telegrams over pages of two give a first, a middle and a short last
page. No fairness is assumed: the properties speak of readers that have ended.

## 9. What is proved, what is only model-checked

The proofs hold for every number of hosts, telegrams, rows, batches and cut-offs, every buffer size
and every set of operations; they rest on the named assumptions on the constants alone
(`StoreAssumption`, `TimestampsAssumption`, `SqlAssumption`, `UpgradeAssumption`, `UtcAssumption`,
`QueriesAssumption`, `PagingAssumption`, `AskedAssumption`), which TLC evaluates in the runs of these modules.

**Write buffer** (`BufferedStoreProofs`). `MutualExclusion` is inductive together with the types of
the control variables (`ControlInv`): a task enters only when the lock is free, an eviction keeps its
caller inside, and the flush task is replaced or stopped only when it is outside or by the join of
`close()`. `NoSilentLoss` is not inductive as it stands: a flush that fails puts back its batch, so it
must be known that only the owner of the lock has one, that it consists of telegrams of the buffer and
is not empty, and that the buffer is within its bound when the surplus is cut. That is `DataInv`,
proved relative to `ControlInv`, with one lemma per group of actions and lemmas about the sequence
operators `Newest`, `Reading` and `Without`.

| Theorem | States |
|---|---|
| `Exclusion` | at most one task is inside, and it is the owner of the lock |
| `TypeCorrect` | the type invariant |
| `Bounded` | the buffer never exceeds `max_buffer_size` |
| `NothingLost` | every accepted telegram is held, or was lost in a documented way |

Its second part adds to `ControlInv` what a task knows of the gate. That it is open inside
(`GateOpenInside`) rests on the lock: only the owner can shut it, and whoever waits for the lock looks
at the gate again on the way in. `CloseFlushes` is proved for hosts that begin no backup; with
backups it is false, see section 10.

| Theorem | States |
|---|---|
| `GateStaysOpen` | inside the gate, the gate is open |
| `BackupsAreQuiet` | no row changes during a backup |
| `CloseLeavesNothing` | without backups, a completed `close()` leaves nothing to write |

`BufferedStoreDataProofs` looks at the telegrams alone. `StepEffect` shows that every step has one of a few
effects on the queue `Pending` (the batch being written and the buffer after it), on the rows, and on
the losses: telegrams are taken in, drained, inserted, rejected, put back, evicted, dropped, wiped, or
written by `store_many()`. The invariants are proved from these effects, without the locks and program
counters: the queue is in order of arrival (`QueueInv`); a telegram of `store_many()` belongs to one
caller (`SendInv`); what was lost is neither in the queue nor with a caller, and rows are known
telegrams (`KnownInv`). `ReadYourWrites` needs two more facts: while a query's own flush writes,
everything in the buffer is newer than the call, and while it reads, everything in the queue is
(`ReadInv`). `InOrderOnce` is inductive relative to these. The refinement maps each effect to a step
of `WriteBehind`, or to a stutter.

| Theorem | States |
|---|---|
| `LostStaysLost` | what was lost never becomes a row |
| `QueriesSeeWrites` | a query that flushes first sees what was stored before it was called |
| `RowsInOrder` | rows are in the order of arrival, each once up to writes of unknown outcome |
| `StoreIsWriteBehind` | the buffered store implements `WriteBehind` |

**Integer timestamps** (`IntegerTimestampsProofs`). The invariant adds to the types: how far the
rewrite is known to have come in each phase (`Progress`), that last values are the newest from the
first repair on, through a conversion that mixes formats (`Covered`), and what a query under way knows
of the file (`Calm`). That the flag tells the truth needs the first because the flag is set in a
transaction of its own, after the last batch. `QuickWhenPromised` is about one step, but the promise was
made earlier: `Promised` carries it, phase by phase, from the answer of `needs_migration()` to the step
(what it did not find does not come up until that start has ended), and `PromisedStep` reads the
property off it.

| Theorem | States |
|---|---|
| `TypeCorrect` | the type invariant |
| `FlagIsTrue` | once the flag is set, no text timestamp is left |
| `ReadyComplete` | a finished start leaves flag, index and repaired last values |
| `LastValues` | a last value is never older than a telegram of its group address |
| `CalmReadsExact` | a query that the conversion does not overtake finds exactly its rows |
| `PromiseKept` | a start that `needs_migration()` promised to be quick rewrites, indexes and repairs nothing |

**SQL write path** (`SqlStoreProofs`). `CacheCommitted` is not inductive: that publishing is harmless
needs what a transaction knows (`Resolves`: an id it holds is committed or its own creation), that no two
transactions create one name and none creates one that is committed (`Apart`, which the wait for another
process's uncommitted insert gives), and that after the inserts every name of the batch is known
(`Complete`), so that rows get their ids. One lemma per statement, with `QuietStep` for all that commit
nothing and `ApplyStep` for the three commits.

| Theorem | States |
|---|---|
| `CachesCommitted` | a process caches only what is committed under that name |
| `RowsAreNamed` | a row has the id of its own group address |

The second part of the module proves the rest of `SqlStore`, with three invariants. `Records` says what a
transaction has done at which statement (`Phase`), that the last values it writes are locked by it alone
(`Locks`), that the ids it took are its own (`OwnIds`), and that rows carry known names. The lemma
`FreshIdUnused` is a count over finite sets: an id that is neither committed nor held by another
transaction always remains. Types follow from it.

`LastValueNewest` does not hold between the statements of a transaction, so `LastInv` says what is still
pending. A batch that was inserted is covered by the telegrams it has not upserted yet (`Waiting`,
`Upserting`) and by the rows it has (`Upserted`), and these stay true while others commit because the
last value it covers is locked. A `clear()` that has deleted the telegrams but not the last values is
remembered by what it saw, with the telegrams committed in between (`torn`) as the exception
(`Clearing`); a repair that has filled and not committed covers what was committed when it looked
(`Filling`, `Filled`), and before the first repair nothing is claimed (`RepairFirst`). The three commits
carry the weight: each makes one transaction visible and must leave what is pending in all others true.
`LastValueSurvives` is an action property that follows from the same invariant at these commits.

`NotifyInv` compares what was sent and yielded with the commits, position by position (`Follows`,
`Announced`): delivery may permute the rows of one statement, never two statements. It needs `Records`
because the trigger joins a row with the names its ids stand for, and `Unwritten`, that a telegram is in
one transaction only.

| Theorem | States |
|---|---|
| `LastValuesNewest` | after the repair no telegram is newer than the last value of its group address |
| `LastValuesSurvive` | only `clear()` takes a last value away, and none gets older |
| `NotifiedExactlyOnce` | a listener hears what is committed while it listens, once and in order of the commits |
| `TypesHold` | the type invariant; a last value is locked by one transaction at most |

**UTC conversion** (`UtcTimestampsProofs`). The first half is arithmetic. `OffsetFound` says that the
branch of the CASE a row falls into has the offset of the row's own digits: the hourly walk meets the
one hour in which the offset changes (`HourAround`, and `BoundariesAre`), and the bisection finds the
moment in it (`TransitionIs`). The bisection is a recursive function, which the library's recursion
theorems cannot reach here; so `TransitionIs` first gives a function that satisfies its equation, and
then refutes the smallest interval on which any solution could be wrong (`LeastNatural`). That sets of
rows have an oldest and a newest follows from the well-founded order of subsets (`MinimalElement`); these
lemmas are in `OrderLemmas`.

The second half is the invariant. `Old`: an old row precedes the first start and has local digits until
the flag. `Unmarked`: before mark or flag the store has not been in use. `Apart`: as long as the marked
row or a later one is there, rowids up to the mark are exactly the old rows, although the largest rowid
is used again after a deletion. `Promised`: a start that was promised to be quick finds the file flagged
or empty. Together they tell which rows are in scope (`InvConvert`), in both directions: no row of this
version, and every old one. For the second, later instants must have later local digits (`LocalOrder`),
which fails in the second pass of a repeated hour alone; the exception in `FlagMeansConverted` is that
and no more.

| Theorem | States |
|---|---|
| `UtcRowsStay` | a row this version wrote keeps its UTC digits |
| `ShiftedOnce` | an old row has local digits, or has lost the offset of its own local time, once |
| `FlagIsConverted` | a flagged file has no unconverted row, but for the exceptions the property names |
| `PromiseKept` | a start that was promised to be quick shifts no row |

**Schema upgrade** (`SchemaUpgradeProofs`). No property is inductive, and the invariant has two
halves. `Control` says who may be where, whatever the rows hold: whoever is about to unwrap holds the lock
under which nobody else can, so what it knows of the flags is not stale (`Known`); no flag is set before
the columns are done (`ColumnsFirst`), which is why the rebuild of the table and the change of its columns
meet no row of this version. `Contents`, proved relative to it, says what a row holds meanwhile
(`RowFine`: exactly one layer too many until the unwrapping, and a value that can be recovered is a
scalar), and that the version before writes only ids it has read and no row has got since (`Numbered`,
`Snapped`). One lemma per action that touches rows, `ContentsQuiet` for the others, and lemmas about the
four passes as operators. `PromiseInv` comes on top for `QuickWhenPromised`: from the answer of
`needs_migration()` on, columns stay settled and no old row gets anything that a pass would rewrite
(`Promised`), although other processes, clients and the version before go on; on SQLite a rebuild that
was cut off may have left no table, and then no rows either (`Tabled`).

| Theorem | States |
|---|---|
| `UnwrapOnce` | no value is unwrapped twice |
| `FlagsAreTrue` | a flag that is set is the truth about the rows |
| `PromiseKept` | a start that was promised to be quick rewrites no old row |

**Paging** (`PagingProofs`). Rows of one timestamp have no order, so two pages of one walk may be cut from
two different orders. What makes paging work all the same is `PlaceIs`: a telegram that shares its
timestamp with no other stands in every order behind exactly those that come before it by timestamp.
Its place is the number of these (`Place`), a cardinality the host's steps change in known ways
(`PlaceGrows`, `PlaceBelow`). `OrderIs`, by the pigeonhole principle, makes an order a bijection of
places and rows; `PageLengthIs`, `SliceIs`, `PageRows` and `PageShows` say how long a page is and what is
on it.

The invariant says of every telegram that was there all along that it was read, or that the reader has
not passed its place (`ClientAhead`, `ToolAhead`, with the bound `--limit-newest` sets and the size the tool
measured). Between the count and the page it must also be known that the count reaches behind the
place, since `limit_reached` is computed from it; that is where `disturbed` enters, and `HostEffect`
says once what any call of the host does to places and to `disturbed`. `Knows` holds that
`existing_timestamps` is exactly the destination's while the tool pages: `ExistingIs` shows that the loop
over its pages misses none, for every batch size, and `CopiesIs` that a page adds one copy of each of
its new telegrams. `NothingTwice` is inductive with it.

`LastValuesAgree` has an invariant of its own (`LastInv`). The deque need not hold the last value, so it says
that every telegram of the deque is older than the last value of its group address, or as old and not in
front of it (`LastOf`); `WinnerIs`, `KeptLast` and `StoreLast` carry it through a batch. `BackendsAgree` compares two computations on
one state, of which `LastInv` gives the form. `PivotIs` says that looking at the first pivot not below the
window decides whether there is any in it; with it the loop and the EXISTS find the same telegrams
(`MatchesAgree`). `Ranked` (in `OrderLemmas`) says that a strict order of any two elements counts a finite
set off, so the sort puts every match at one place and leaves one of the orders SQL may choose
(`OrderAgrees`).

| Theorem | States |
|---|---|
| `CopiedOnce` | the destination holds no telegram twice, however often the tool is killed and run |
| `ClientSeesAll` | pages cover what was there all along, but for the exceptions the property names |
| `RunCopiesAll` | a run that ended has copied what was there all along, under the same exceptions |
| `SameLastValues` | both kinds of stores have the same last values, among equal timestamps too |
| `SameAnswers` | both kinds of stores answer every query alike |

Only model-checked: everything under fairness (`EventuallyStored`, `EveryCallEnds`,
`ConversionCompletes`, `PendingVacuumRuns`, `BackfillNeverWaits`), which is out of the prover's reach. Every safety property the runs check, the refinement included, is also a theorem.
`CloseFlushes` with backups is refuted, and checked and proved without.

## 10. Disagreements between the code and its documentation, and known limits

Each has a run whose counterexample shows it.

1. **`close()` during `begin_backup()` drops the buffer** (`close_during_begin`, `buffered.py:153`).
   `close()` finds the gate open and goes to wait for the lock, which `begin_backup()` holds over its
   `BEGIN IMMEDIATE`. Then the gate shuts, the lock goes to `close()`, its flush returns at
   `buffered.py:237` because a backup is in progress, and the backend is closed with telegrams in the
   buffer. `buffered.py:68` says that close() flushes the buffer.
2. **`close()` during `end_backup()` raises and leaves the store open** (`close_during_end`,
   `buffered.py:155`). The gate is still shut while the `COMMIT` is awaited, so `close()` ends the
   backup a second time; `SqliteStore` raises "No backup is in progress". The flush task ends, nothing
   is flushed, and nothing is closed unless the host calls again.
3. **A reader misses rows while the owner converts** (`timestamps_reader_overtaken`,
   `backends/sqlite.py:547`). Batches commit on their own and the flag is set at the end, so in
   between a reader binds text bounds and does not find the rows that are integers already.
   `src/README.md:184` promises the opposite, and the comment at `sqlite.py:476` still speaks of one
   transaction. `ReaderExact` is what does hold.
4. **A VACUUM can be forgotten** (`timestamps_vacuum_lost`, `backends/sqlite.py:345`). That a VACUUM
   is due is known to the start that converted, and is recorded only when there is no room. If that
   start is cut off after the flag was set, the pages the rewrite freed stay in the file
   (`src/README.md:169-178`).
5. **An interrupted rebuild leaves the old rows behind** (`upgrade_rows_stranded`,
   `backends/sqlite.py:885`). Python's sqlite3 opens a transaction at the first INSERT, UPDATE or DELETE;
   RENAME and CREATE before it are committed one by one. A start cut off before the copy is committed
   leaves all rows in `_telegrams_old`, the next one finds a `telegrams` with the current columns, and
   is ready without them. The design document promises idempotent schema upgrades
   (`src/docs/design_and_implementation.md:333`).

Limits that no document denies, met while modelling. They are exceptions in the properties named, or
listed as hazards without a property:

- A telegram committed between the two deletes of another process's `clear()` loses its last value until
  its group address is seen again (`backends/base_sql.py:755`; `LastValueNewest`), and rows deleted in the
  middle of another start's repair leave a last value with no telegram or an older one
  (`LastValueSurvives`).
- A client that pages misses a row if one is stored between the count and the page, or if retention
  deletes rows while it reads the oldest first (`PagesCover`); of telegrams with one timestamp the
  migration tool copies those of one page only (`tools/migrate_store.py:71`; `MigrationComplete`).
- An unwrapping that fails half way on SQLite is swallowed and what it did is committed without its flag,
  so the next start unwraps twice what has that shape itself (`backends/sqlite.py:984`;
  `UnwrappedOnce`). A telegram `{"value": ...}` written by a PostgreSQL store whose backfill was skipped
  is unwrapped by the start that makes up for it (the second part of
  `UnwrappedOnce` begins with the flag).
- `value_legacy_float` is moved after the recovery has run and been flagged (`backends/postgres.py:622`;
  `FlagsTell`).
- The transaction before the backfill does wait for every lock on `telegrams`, to recreate the trigger
  (`backends/postgres.py:388`).
- A boundary in the second pass of a repeated hour, an emptied table, and last values of telegrams that
  arrive later than the boundary though they are older (`UtcRowsKept`, `FlagMeansConverted`).
- A listener whose connection is lost waits for ever (`backends/postgres.py:420`).

## 11. What is not modelled, and the plan

Left out of the modules: `dry_run` evictions, `BufferedMemoryStore.evict_older_than()`, the
warning flags, `PRAGMA optimize` and the checkpoint of `close()`, `get_stats()`, the decoding of values.
Time itself is left out of `BufferedStore`: `flush_interval` only says that the flush task wakes up. In
`SchemaUpgrade` one value stands for the payload too, and the normalisation of text columns to lookup
ids is left out. Each conversion of a file is specified on its own; their order in `initialize()` is the
one reason they do not disturb each other: integers before UTC, both before the cache is warmed.

Not modelled as components: TimescaleDB (extension, hypertable, compression), whose statements run or
fail on their own; connection checks (`connection.py`), one SELECT and a classification; ETS import, a
parser; the sample database tool, a script nothing runs beside; the MCP tools beyond their paging, and
the interfaces and records. None of them keeps state that steps of others could meet.

Next:

1. The composition of the three passes of a SQLite start, if their order changes.
2. The normalisation to lookup ids in `SchemaUpgrade`.

Out of reach: the text of SQL statements and the planner's choices, parsing of ETS exports, and the
classification of connection errors.
