# Brickbang: TLA+ models and proofs

Brickbang is a construction-site manager: a FastAPI backend (`src/app`, started
by `src/main.py`) over one SQLite file, and a React frontend (`src/frontend`).
The repository carries the source tree of SQLite 3.50.4 with it, and everything
the backend promises about concurrency and crashes rests on three files of it.
So the project has two layers:

* the handlers that change orders and materials, as SQL statements of concurrent
  server processes;
* below them, how SQLite makes these statements atomic: the file locks
  (`os_unix.c`), the rollback journal (`pager.c`) and the write-ahead log
  (`wal.c`).

This directory holds TLA+ modules that model these parts as they are coded, TLC
configurations that check them on small instances, and TLAPS proofs of the
properties that matter most, for every number of processes, every request body
and every bound.

Run the checks with `tlc -workers 2 -config <run>.cfg <Module>.tla`, the proofs
with `tlapm <Module>.tla`.

## 1. Inventory

| Component | State it keeps | Operations that change it | Correct when |
|---|---|---|---|
| Purchase orders (`app/routers/purchase_orders.py`) | rows of `purchase_orders`, `purchase_order_items` | create, PUT, approve, receive, cancel | an order passes only the statuses its checks allow; it is received at most once; DELIVERED and the stock agree; an error leaves nothing behind |
| Materials (`app/routers/materials.py`) | rows of `materials` | create, PUT, delete, reorder | no committed change of the stock is lost; no item names a deleted material |
| Session and schema (`app/database.py`, `app/models/models.py`) | identity map of each session, SQLite's write lock | flush, commit, rollback, close | a session commits all its changes or none |
| Request schemas (`app/models/schemas.py`) | none | validate bodies and responses | the handlers see only bodies of the declared shape; what a handler has committed can be shown |
| Labour (`app/routers/labour.py`) | rows of `workers`, `tasks`, `time_logs` | create/PUT worker and task, create time log | a task's `actual_hours` is the sum of what was logged for it |
| Authentication (`app/auth.py`) | a fixed user table | issue and verify 30-minute tokens | a token is accepted until it expires and not after |
| Admin authentication (`app/admin/admin_auth.py`) | `admin_users` counters and locks, `admin_sessions` | login, record failure, lock | three failures lock for 30 minutes, and only that long |
| Knowledge workflow (`app/admin/knowledge_workflow.py`) | upload requests and reviews | submit, review | (cannot run: see section 8) |
| Delay predictor, recommendation engine (`app/ml`, `ai_predictions.py`) | rows of `delay_predictions` | predict | scores stay in range and move the right way |
| SQLite file locks (`os_unix.c`) | per process and inode: level, counters, descriptors put aside (`unixInodeInfo`); per handle `eFileLock`; POSIX locks in the kernel | open, lock, unlock, ask for RESERVED, close, end of a process | levels of all handles are compatible and backed by the kernel, although POSIX locks belong to processes; nothing is left behind; a writer is not starved |
| SQLite pager (`pager.c`) | database file, journal; per connection state, cache, `dbFileVers` | read, write, spill, commit, roll back, recover a hot journal | transactions are atomic, isolated and (as far as `synchronous` says) durable; no stale page is trusted |
| SQLite write-ahead log (`wal.c`) | log file; wal-index in shared memory: header twice, `nBackfill`, read marks, locks; per connection a `Wal` | begin and end read and write, append frames, undo, checkpoint, restart, recover | a transaction sees one committed image while others commit and checkpoint; a crash or power failure leaves a committed image |
| Reports (`app/routers/reports.py`) | none | read-only figures | the same figure agrees everywhere |
| AI agent (`app/agent/agent.py`) | none | reads counts, calls a language model | its counts are those of the dashboard |
| Agentic system, training (`agent/master_system.py`, `training/`) | document store | add documents | (cannot run: see section 8) |
| Seed data (`seed_data.py`) | all tables | clear and fill in four commits | the seeded rows satisfy the invariants of the other components |
| Frontend session (`AuthContext.js`, `apiService.js`, `ProtectedRoute.js`) | React state, two keys of `localStorage` | mount, login, logout, 401 | the state and the storage agree |
| Frontend pages (`frontend/src/pages`) | copies of rows, one edit form | load, edit, save | saving an edit does not undo what happened meanwhile |

How they interact. The pages call the API through `apiService`; every handler
opens a session with `get_db`, works on it and closes it. The handlers share
nothing but the database file: purchase orders and materials meet in
`receive_order`, which writes both tables, and in `delete_material`, which
detaches item rows. Reports, predictions and the agent only read what the others
write. A statement of a handler ends in calls of the pager, which asks the file
locks for SHARED, RESERVED, PENDING and EXCLUSIVE and keeps a journal, or, in WAL
mode, hands its pages to the log. The connections of different processes meet in
the files, in the kernel's locks and in the shared wal-index, nowhere else.

What is hard. All handlers are `async def` without an `await`, so inside one
process they run one after another; but `src/README.md` deploys four gunicorn
workers on the same file, and then their SQL statements interleave. Handlers read
a row, decide, and write values computed in Python; nothing re-reads, no column
is updated in SQL, and there are no version counters. `create_purchase_order`
holds SQLite's write lock across several statements. Processes die between
statements. Status columns accept, through PUT, strings they cannot load again.
In SQLite every call is a sequence of system calls, between which another process
may run, die, or lose power; locks are asked for again after they were refused;
caches and headers are used after the lock under which they were read is gone;
what a write leaves on the disk is undecided until a sync.
`PROJECT.json` lists these hazards line by line, with the properties that would
catch each, and a note where a run refutes them or none of them reaches it.

## 2. Plan

Order of work, most important behaviour first:

1. `Tables`, `Procurement`: orders, materials, sessions, write lock, crashes;
   abstract specification `ProcurementAPI`, one atomic step per request; proofs in
   `ProcurementProofs`, `ProcurementSingle`. Done.
2. `FileLock` (what os.h promises) and `UnixLocks` (what os_unix.c does), with the
   refinement, its proof and liveness. Done.
3. `AtomicDb` and `Pager` on top of `FileLock`; the refinement under crashes, I/O
   errors and power failures; proofs that the locks cover the accesses to the file
   (`PagerProofs`), that the journal keeps what it must keep, and of the refinement
   (`PagerSafety`). Done.
4. `SnapshotDb` and `Wal`, with the refinement; proofs that the log keeps within its
   bounds, protects its readers and restarts only when it is copied (`WalSafety`), that
   no cached page is stale (`WalImages`), and of the refinement as long as the power
   does not fail (`WalSnapshots`). Done.

Worth doing next: the refinement of `SnapshotDb` under power failures, with what
`LogRemains` may hold in the invariant; savepoints and super-journals in `Pager`, frames rewritten in place in
`Wal`; the lock table of `unixShmLock()` under `Wal`, as `UnixLocks` is under `Pager`.

## 3. Modules

* `Tables`: SQL tables as functions from keys to rows. SQLite gives a new row
  the largest key in use plus one (the models use `INTEGER PRIMARY KEY` without
  `AUTOINCREMENT`), so the key of a deleted last row returns.
* `Procurement`: the handlers of `purchase_orders.py` and `materials.py`. An
  action is one SQL statement with the Python code up to the next one.
* `ProcurementAPI`: what the two routers promise, each request one step.
* `MCProcurement`: request bodies for TLC, symmetry, the refinement mapping.
* `ProcurementProofs`, `ProcurementSingle`: theorems.
* `FileLock`: one lock level per handle, every change one step.
* `UnixLocks`: `unixLock`, `posixUnlock`, `unixClose` and
  `unixCheckReservedLock` over POSIX locks; an action is the code from one system
  call to the next. It implements `FileLock`. `MCUnixLocks`: processes and handles
  for TLC; `UnixLocksProofs`: theorems.
* `AtomicDb`: a database whose transactions commit in one step.
* `Pager`: the rollback journal. It uses the locks of `FileLock` as atomic
  operations, which is what `UnixLocks` is proved to provide, and implements
  `AtomicDb`. `MCPager`: settings for TLC; `PagerProofs`, `PagerSafety`: theorems.
* `SnapshotDb`: a database whose transactions each see the committed image they
  began with. Commits that a crash cut short stay undecided (`pending`) until one is
  found or they are overwritten.
* `Wal`: the write-ahead log. It implements `SnapshotDb`. `MCWal`: symmetry;
  `WalSafety`, `WalImages`, `WalSnapshots`: theorems.

### Procurement

State of `Procurement` and what it stands for:

| Variable | Code |
|---|---|
| `materials` | `materials.id` -> `current_stock`, the one column handlers compute with; NULL is `Null` |
| `purchase_orders` | `id` -> `status`, `total_amount`, and the rows of `purchase_order_items` that belong to it, in id order |
| `lock` | the connection with SQLite's write (RESERVED) lock |
| `pc`, `req`, `sess` | per process: the next statement, the request, the SQLAlchemy session with the local variables of the handler |
| `reply` | the answer sent by the last step |
| `ledger`, `receipts` | history: what the stock should be, and how often an order was received since a PUT last gave it a status other than DELIVERED; the code has neither |

A session reads committed rows, keeps each row it loaded (`read`) and the value
assigned to it (`new`), and at the commit writes the columns whose value changed,
as the value computed in Python. That is what SQLAlchemy does with
`autoflush=False` (`app/database.py:18`), and it is why an update can be lost.
`db.flush()` in `create_purchase_order` takes the write lock; the other handlers
take it only inside their commit, so there the lock is a guard of the commit step
and not a state of its own. A write while another connection has the lock may
wait (the step is not enabled yet) or fail (`database_locked`, SQLite's timeout);
an UPDATE of a row that is gone is `stale_row`. Sqlite3 in Python opens a
transaction only at the first write, so each SELECT before it sees the latest
committed rows. `Crash` ends a process at any statement and rolls back; the next
`Accept` is the restarted process.

Statements and actions, for the three handlers of several statements:

* create: `create_purchase_order` (flush), `create_item` or
  `create_item_unknown_material` per line, `create_commit`, `refresh`.
* receive: `receive_order` (load and check), `receive_load_items`,
  `receive_item` or `receive_item_no_stock` per item, `receive_commit`,
  `refresh`. Items of a deleted material are skipped, as the `if material:` at
  line 166 does. Two items of one material meet one session object and add up.
* delete: `delete_material`, `delete_load_items` (SQLAlchemy loads the children
  at the flush), `delete_commit`, which sets their `material_id` to NULL because
  the relationship has no cascade.

`refresh` stands for `db.refresh(...)` and for the attribute read after a commit
that reloads the expired row; it fails when the stored status is no name of
`OrderStatus`. In handlers with try/except that is a 400 after a commit, in the
others a 500. POST and PUT of a material or of an order return the row, which
FastAPI then passes through `response_model`, outside every try. A stock or a
status that is NULL is refused there, again after the commit: a 500
(`RowComplete`, schemas.py:28 and 95). An order is shown with its items and their
materials: `respond_items` loads the items and asks for their `material_id`
(line 59), `respond_item` loads the material of each, which may be gone (line 70)
but not without a stock, and `respond` answers. These are statements of their own
because another worker may commit between them.

### UnixLocks

| Variable | Code |
|---|---|
| `file` | `unixFile.eFileLock` of each handle, and whether it is open, or where its `unixClose()` stands |
| `inode` | `unixInodeInfo` of each process: `eFileLock`, `nShared`, `nLock`, and the number of descriptors in `pUnused` |
| `posix` | the kernel: the process's lock on the PENDING byte, the RESERVED byte and the SHARED range |
| `call` | the call that holds `pLockMutex`, and the system call it makes next |

A call that is refused without a change of state is no step. `F_UNLCK` and the
downgrade to `F_RDLCK` are assumed to succeed. `SerialClose` says that no thread
locks while another one of its process is inside `unixClose()`; `close_race` shows
what happens otherwise.

### Pager

| Variable | Code |
|---|---|
| `db`, `unsynced` | the database file as the system shows it, and, per page, what a power failure may bring back |
| `jrnl`, `unlinked` | the journal with its header, records and what of them is synced; a deleted or truncated journal whose removal is not on the disk |
| `lock` | the level on the database file, changed by steps of `FileLock` only |
| `eState`, `pc`, `job` | `Pager.eState`, the next step of the call in progress, and what it is for |
| `cache`, `dirty`, `dbFileVers`, `journalHdr`, `at` | the page cache, its dirty pages, `Pager.dbFileVers`, the journal header and the record in use |
| `nTxn`, `setting` | bound on transactions; the PRAGMAs, which never change |

The content of a page is named by the transaction that wrote it; page 1 also
carries the version the pager compares. A record whose checksum is wrong ends the
playback, so torn records need no content. `BUSY` and errors of reads change
nothing and are no step. `hasHotJournal()` is a step per file operation, because
that is where other processes come in. A journal that a power failure leaves has
its records up to some point; that the tail of an older journal fits the random
`cksumInit` of a newer one is excluded.

The journal is finalized in `finalize_journal`, or in `finalize_fails` when a system
call reports an error there: nothing has happened to the journal, or it is truncated
and the sync that follows has failed (`journal_mode` TRUNCATE, pager.c:2077-2084), or
it is deleted and the sync of its directory has failed (`synchronous` EXTRA, line 2108
and `unixDelete()`). In the last two cases (`FinalizeUnsynced`) the other
connections see the new image, and `unlinked` keeps what a power failure may bring
back: a deleted journal, or the old length of a truncated one, whole. The code then
goes on to release the lock with the cache not cleaned (lines 2126-2133), and
`pager_error()` makes the state ERROR. Errors of `osOpenDirectory()` and of the directory sync
inside `unixSync()`, which the code ignores, do not occur in the model.

### Wal

| Variable | Code |
|---|---|
| `db`, `dbOlder`, `wal`, `walOlder`, `walHdr`, `walHdrOlder`, `walTruncated` | the files, and what a power failure may bring back in their place |
| `aHdr` | the two copies of `WalIndexHdr`, written in the order 1, 0 |
| `nBackfill`, `aReadMark`, `aPgno` | `WalCkptInfo`, and the page number of each frame in the index |
| `shared`, `exclusive` | the locks on the wal-index, per connection |
| `pWal` | `Wal`: `hdr`, `readLock`, `minFrame`, `nCkpt`; with the next step of the call, and the image of the pages the pager has cached |
| `nTxn`, `nFault`, `fullSync` | bounds; whether `synchronous` is FULL |

A step ends where shared memory, a lock or a file is touched next. Two of them are
one step where nothing in between can matter: taking `READ_LOCK(0)` or the WRITE
lock together with the comparison of the header that follows it (a header can
change only before the lock or be refused after it), and the lock on a read mark
together with its assignment. A bad header is rebuilt in the step that takes the
WRITE lock. `walFrames()` is called with one page that the transaction has not
logged yet; the last call of a transaction carries the commit flag. A checksum is
the transaction of the frame before, a salt the transaction that began the log.
A connection waits for a lock, or treats it as busy, where the code does; the busy
handler adds nothing to that. RESTART is FULL plus waiting and not a mode of its
own.

The refinement mapping takes `CommittedImage`, what the log and the database hold for
the next reader, for the data of `SnapshotDb`, and `InDoubt`, what a recovery could
make of them instead, for its undecided commits. These are a set, because a commit
that was overlooked can come back: a process dies after its commit frame and before
it publishes the header, in a log of salt S; the next writer has just opened the
database, so its `nCkpt` is 0, it writes a header of the file with a new salt
(wal.c:4073) and dies before its first frame; a third one, whose `nCkpt` is not 0,
writes the header with salt S again, and now a recovery would find the first
commit. This is harmless, since nobody has been told that it was committed or lost,
but a single undecided image, cleared when it is passed over, would be too simple a
promise (`WrittenAgain`).

Operators marked "faulty variant" are used by no action. Each is a plausible
mistake in the definition that follows it, kept there to show that the properties
notice it.

## 4. Runs

| Run | Instance | Shows |
|---|---|---|
| `procurement_single` | 1 worker, 2 materials, 2 orders, 3 carts, stocks 0 and NULL, PUT of PENDING, DELIVERED and NULL | `ReceivedOnce`, `StockIsLedger`, `NoDanglingItem`; `OnlyTheResponseFailsLate`: only the response schema answers a kept change with an error; and that every step is a step of `ProcurementAPI` or changes nothing |
| `procurement_workers` | 2 workers, 1 material, 1 order, carts of 0 and 1 lines, stocks 5 and NULL, PUT of `delivered`, fair | `TypeOK`, `WriteLockHeld`, `VerifiedItemsExist`, `DeliveredWasReceived` under all interleavings and crashes, and `EveryRequestEnds` |
| `unix_locks` | 2 processes with 2 handles each, fair | `Compatible`, `LocksBacked`, `NothingLeftBehind`, `ReservedIsExact`, the refinement of `FileLock`, and `WriterNotStarved` |
| `pager` | 2 processes, 2 pages, 2 transactions, a database of 1 page, 4 settings, errors and power failures | `OriginalsAreSafe`, `CacheIsFresh`, `FileStandsStill` and the refinement of `AtomicDb`: commits are atomic and isolated; with EXTRA and TRUNCATE those answered with success last, and those answered with an error are kept or undone as a whole |
| `pager_recovery` | 1 process, an empty database, fair | `HotJournalIsRolledBack` |
| `wal` | 2 processes, 2 pages, 1 read mark, 2 transactions or truncations, 1 process dies, PASSIVE and TRUNCATE | `NBackfillInLog`, `SnapshotsProtected` (the mark of a reader, the frame it looks from, and what checkpointers copy stay within its snapshot), `OnlyCopiedLogsRestart`, `CacheIsFresh` and the refinement of `SnapshotDb` |
| `wal_power` | 1 process, 2 pages, 2 transactions, 2 failures of process or power, `synchronous` NORMAL and FULL | `OnlyCopiedLogsRestart`: what a restart drops is on the disk of the database file; and the refinement of `SnapshotDb`: what comes back was once committed, with FULL the newest |
| `lost_stock_update` | 2 workers, violation | two receipts of one material overlap, one quantity is lost |
| `put_unknown_status` | 1 worker, violation | PUT of the value `delivered` (the column stores names) is answered 400 and kept; the order cannot be loaded again |
| `close_race` | 2 processes, one with 2 threads, violation | a thread locks between the check of `nLock` and the `close()` of another: its POSIX lock is gone, its level stays |
| `stale_page_one` | 2 processes, an empty database, violation | a failed first transaction leaves a page 1 of zeros in the cache that the version check does not notice |
| `wal_reset` | 2 processes, violation | a checkpointer with an old header marks frames of a restarted log as copied |

Each violation run checks what the quoted line of the repository says and finds a
behaviour of the code that contradicts it (`findings` in `PROJECT.json`).
`stale_page_one` was also reproduced with the sqlite3 library of a Linux
distribution (3.40.1), by failing a write.

Bounds, procurement. `MaxMaterial` and `MaxOrder` are the largest keys that are
handed out; `MaxReceipts` stops receive requests for an order already received that
often, and `MaxStock` all of them while a stock, or what the history says it should be, is
above it: an order that a PUT opens again and again would be received for ever. An
order of two units can still be received, opened and received again. Two keys of each table are enough
for an order with two materials, for one order naming a material twice and for two
orders sharing one; two workers are enough for each race, since each handler reads
and writes once and the property relates one writer to one overwritten value. A PUT
may legally do anything to a status. In `procurement_single` it takes received orders
back to PENDING or NULL, after which `ReceivedOnce` counts anew, and makes orders
DELIVERED that nobody received. `procurement_workers` leaves PUT of DELIVERED out,
since `DeliveredWasReceived` is false after it, and PUTs a string that is no status
name instead: that is enough for the status to be overwritten under a handler that
has loaded it, and the order cannot be opened again, which keeps the instance small.

Bounds, locks. Two handles in each of two processes are the smallest instance in
which a process both shares its lock between handles and competes with another. The
theorems lift the bound.

Bounds, pager. Two transactions are enough for one to be abandoned and a second to
be mistaken for it; two pages for an image that mixes them. `pager` begins with a
database of one page. With `InitialSize = 0` and failures its properties do not
hold: `stale_page_one` is one way, and the first transaction rolled back by a
process that then dies before its sync is another (the next reader deletes the
journal as useless, pager.c:5164, and a power failure can bring half-written pages
back).

Bounds, log. `MaxTxn` bounds write transactions and truncations together,
`MaxFault` ends of processes and power failures. Two transactions of up to two
frames fill, copy and restart a log. Three bounds exclude behaviours the code has,
in which properties fail. Two of them concern `NBackfillInLog`: `StaleCheckpoints = FALSE` keeps a log from
restarting while a checkpointer stands between its read of the header and its read
of `nBackfill` (`wal_reset` is the run without that bound; there
`ImplementsSnapshotDb` fails, too), and `RestartCrash = FALSE` keeps a process from
dying between publishing the empty log and clearing `nBackfill` (wal.c:2154 and
2155). The third, `TruncateCrash = FALSE`, keeps a process from dying between the two
copies of the header when it truncates a log that had no frame anyway (line 2154).
`CacheIsFresh` fails with it, in three steps of `nTxn` (`wal.cfg` with
`TruncateCrash = TRUE`, `MaxTxn = 3`, one page and only TRUNCATE shows it): a recovery
that finds no log makes a header of zeros (line 1408); a connection caches pages under
it; another one commits, copies and truncates the log, truncates the empty log once
more and dies between the copies; the next recovery finds no log again and makes the
same header, so that `walIndexTryHdr()` of the first connection reports no change, and
the pages of before the commit are served. The comment of `sqlite3WalBeginReadTransaction()`
(line 3468) says that `*pChanged` is set then. A log that is truncated survives a power failure as it was before the
truncation, in any of its states, or truncated.

Fairness. `FairSpec` of `Procurement` asks weak fairness of `Step(w)` only, the next
statement of a request that has begun: a handler has no `await`, so the event loop
runs it to its end, and SQLite's timeout turns a wait for the lock into an error.
Nothing is asked of `Accept` (clients may stop) or of `Crash`. `EveryRequestEnds`
therefore says that a request ends by its own steps, or with its worker.

`FairSpec` of `UnixLocks` says that calls return, that a reader ends its
transaction, and that a writer with PENDING asks again for EXCLUSIVE, which is what
a busy handler does. `WriterNotStarved` excludes one behaviour: threads of a process
that reads already get SHARED without looking at the PENDING byte (os_unix.c:1804),
and if their transactions overlap for ever (`SharedAgain`), the process never gives
its SHARED up.

`FairSpec` of `Pager` says that a connection that is idle tries to read again, and
that a recovery or commit that has begun goes on. `HotJournalIsRolledBack` assumes
that failures stop. It is checked with one process: two that recover at the same
time keep each other from EXCLUSIVE and both give up (pager.c:5291); who then wins
is a matter of the busy handler's delays.

## 5. Proofs

All theorems are about `Spec` for arbitrary constants.

### Procurement

The two assumptions of `Procurement` are `NullAssumption` (NULL is no number, status or worker) and
`InputAssumption` (request bodies have the types of `schemas.py`).

| Theorem | Statement | Further assumption |
|---|---|---|
| `WriteLockIsHeld` | `Spec => []WriteLockHeld` | none |
| `TypeCorrect` | `Spec => []TypeOK` | none |
| `VerifiedItemsStay` | `Spec => []VerifiedItemsExist` | none |
| `DeliveredMeansReceived` | `Spec => []DeliveredWasReceived` | no PUT of DELIVERED |
| `StockIsExact` | `Spec => []StockIsLedger` | one worker |
| `ReceivedAtMostOnce` | `Spec => []ReceivedOnce` | one worker |
| `NoItemDangles` | `Spec => []NoDanglingItem` | one worker |
| `ErrorsComeEarly` | `Spec => OnlyTheResponseFailsLate` | one worker; a PUT writes a name of `OrderStatus` or NULL |

The assumptions are needed. With two workers `lost_stock_update` contradicts
`StockIsLedger`, two receive requests that pass the check of one order before either
commits contradict `ReceivedOnce`, and an order committed between the flush of
`delete_material` and its DELETE contradicts `NoDanglingItem` (the configuration of `lost_stock_update` shows both,
with the property replaced). A PUT
of DELIVERED contradicts `DeliveredWasReceived`, and `put_unknown_status` is the
counterexample to `OnlyTheResponseFailsLate` without its assumption about PUT. That no
error at all is answered to a kept change (`ErrorsChangeNothing`) is false even with
that assumption: with `PutStatus` empty and `Null` among `Stocks`, the configuration of
`put_unknown_status` shows a PUT of a NULL stock that is kept (materials.py:74) and
answered with 500, because `schemas.Material` wants a number.

Arguments, each by an inductive invariant preserved by every action:

* `LockInv` adds to `WriteLockHeld` only the ranges of `lock` and `pc`: a step
  either leaves the lock and stays in or out of `verify_item`, takes a free lock
  on entering, or gives it back on leaving.
* `TypeOK` is inductive because `ControlOK` ties each statement to the request
  that reaches it and to the session it needs (the order a session is about to
  write exists; orders are never deleted).
* `VerifiedInv` adds that a new order has no items before the flush. The only step
  that removes a material needs the lock, which `WriteLockHeld` puts in other hands
  whenever somebody is verifying items.
* `DeliveredInv` adds that a session about to commit a status by approve, cancel or
  PUT does not write DELIVERED; `receive_commit` counts the receipt and writes the
  status in one transaction.
* `LedgerInv` adds what the session of `receive_order` holds: for every material it
  touched, the loaded value is still the row's and the pending value exceeds it by
  the quantities added. This is the part that a second worker breaks.
* `OnceInv` adds that a received order is closed (DELIVERED or unloadable) until a PUT
  gives it another status and the count begins anew, and that a session that is going
  to approve, cancel or receive an order works on one whose count is 0.
* `KeyInv` adds to `VerifiedInv` that a `delete_material` about to commit has loaded
  every item that names its material. With a second worker an order may be committed
  between that load and the commit.
* `RefreshInv` adds to `TypeOK` what a session needs to get past its commit: what it
  has committed is there and can be loaded, what a PUT is going to commit can be
  loaded, the material a PUT is going to write exists, the lines of a response are
  items of the order it shows, and a stock that the session keeps is not NULL. An
  error after a commit then comes from a row that the schema refuses (`Presentable`).

### UnixLocks

`UnixLocks` assumes that `File` is finite and `ProcessOf` maps it to `Process`. All
theorems of `UnixLocksProofs` have the further assumption `SerialClose`.

| Theorem | Statement |
|---|---|
| `UnixLocksTyped` | `Spec => []TypeOK` |
| `LevelsAreCompatible` | `Spec => []Compatible` |
| `LevelsAreBacked` | `Spec => []LocksBacked` |
| `NothingIsLeftBehind` | `Spec => []NothingLeftBehind` |
| `ReservedLockExact` | `Spec => []ReservedIsExact` |
| `FileLockImplemented` | `Spec => ImplementsFileLock` |

The inductive invariant is `IInv`, the conjunction of `TypeOK`, `KernelInv` (write
locks of the kernel exclude all others) and `ProcInv(p)` for every process: its
counters count its handles (`Counted`), its level is that of its highest handle, and
its handles are compatible (`Highest`), the kernel holds what the level needs
(`Backed`), and the call in progress stands where its locks say (`InCall`). None of
the properties is inductive alone: that two handles of different processes are
compatible follows only from what the kernel holds for each, and that from the
counters, which decide when a process gives its locks up. A step of one process
leaves `ProcInv` of the others alone; so there is one lemma per action for its own
process, and `KernelInv` is about `fcntl()` only. `SerialClose` is needed:
`close_race` is the counterexample.

The refinement maps the level of a handle to `Level(f)`, which counts a lock as
given up from the first system call that gives it up. With `IInv`, each action is
shown to be a step of `FileLock` or to leave `Level` unchanged.

### Pager

`PagerAssumption` gives the constants their types. `ValueAssumption` says that the
special values differ from journals and contents and that no transaction writes one
of them. The theorems of `PagerSafety` assume that the database is not empty at the
beginning: `InitialSize > 0`.

| Theorem | Statement | Further assumption |
|---|---|---|
| `TheFileStandsStill` | `Spec => FileStandsStill` | none |
| `PagerTyped` | `Spec => []TypeOK` | `InitialSize > 0` |
| `OriginalsStaySafe` | `Spec => []OriginalsAreSafe` | `InitialSize > 0` |
| `CacheStaysFresh` | `Spec => []CacheIsFresh` | `InitialSize > 0` |
| `TheJournalIsAtomic` | `Spec => ImplementsAtomicDb` | `InitialSize > 0` |

The assumption is needed: `stale_page_one` is the counterexample to `CacheIsFresh`
without it. (The database never becomes empty again: page 1 is in every commit.)

`LockInv`, in `PagerProofs`, says that the levels are compatible, as `FileLock`
promises, and, with `Stands`, which level each state of `Pager.eState` and each
statement need: SHARED from the first look for a journal to the end of the
transaction, RESERVED for a writer, EXCLUSIVE wherever the file is written, by a
commit, a spill, a rollback or a playback. A step that writes the file therefore
excludes every connection that reads it or gathers changes for it. This is
inductive by itself, and enough for `TheFileStandsStill`.

`PInv`, in `PagerSafety`, adds to it `DbInv`: what is in the files, and what each
connection makes of them.

* `FilesOK`. The journal has one record per page, none behind its `orig`, and the
  disk has no more of it than the file (`JournalOK`). The committed image is one of
  written pages without a gap (`ImageOK`), and its change counter is one that `nTxn`
  transactions can reach. A page is settled on the disk or covered by a synced
  record (`OriginalsAreSafe`). A deleted or truncated journal that may come back undoes exactly
  one commit, or nothing, and stands beside no synced entry of another (`UnlinkedOK`).
  While the journal is hot, nobody reads, or is about to, but for a connection whose
  finalization has failed and that has yet to release its lock (`HotAlone`).
* `OpenOK`. A cache kept without a lock has page 1 and its version, that version is
  not newer than the committed one, and if it is the committed one the cache is
  fresh. This makes the comparison of 8 bytes in `check_version` sound: counters of
  commits only grow.
* `ReaderOK`, `WriterOK`: a reader's cache is fresh; a writer's journal has the
  committed content of each page it recorded (`WriterJournalOK`), its image has no
  gap, and a page that is not dirty is that of the file (`WriterImageOK`); in a
  rollback, the records behind `at` are undone in the file and in the cache
  (`RollbackOK`).
* `RecoverOK`: the same for the playback of a hot journal, which is synced first.

None of the properties is inductive alone. That an original is safe after a
playback has written over its page follows from what the journal says of the
committed content; that the committed image survives the write of a page follows
from its record being behind a synced header; that a cache is fresh after a commit
of somebody else follows from `HotAlone` and the growth of the counter. There is one lemma per action (`...Keeps`); those that
are not a commit point also keep `Committed`. For a power failure, `PowerLossFiles`
goes through the journals that `Survivors` leaves and shows that each leads to the
committed image, or, where the deletion of the last journal was lost, to `Previous`.

The refinement takes `Committed`, the image a reader who recovers first would find,
for the data of `AtomicDb`, and `Previous`, the image to which a deleted journal
would lead, for the one a power failure may go back to. `View(c)` is the image that a
transaction sees; it begins with `check_version` and ends with the lock, with an
error, or with the first step of a rollback. Given `PInv`, every action of `Pager` is
a step of `AtomicDb` or changes nothing there: the commit point is
`finalize_journal`, or `finalize_fails` if the journal is gone by then, and the EXCLUSIVE
lock excludes the views of others. The first is a `Commit`, whose image lasts where
`durable` says so. The second is a `CommitFails`: the new image is committed for
everybody else, and `previous` may be the old one, to which a power failure goes
back as a whole; nothing is promised of it in any setting, since the caller was told
of an error. If the journal is not gone the step is a `Leave`, and the next reader
rolls the transaction back.

### Wal

`WalAssumption` gives the constants their types, `NoneAssumption` says that `None` is
no page, frame or header. The theorems have two further assumptions,
`~StaleCheckpoints` and `~RestartCrash`; `CachesStayFresh` and
`SnapshotsAreImplemented` have a third, `~TruncateCrash`, and the latter a fourth,
`~PowerFailures`.

| Theorem | Statement |
|---|---|
| `WalTyped` | `Spec => []TypeOK` |
| `NBackfillStaysInLog` | `Spec => []NBackfillInLog` |
| `SnapshotsStayProtected` | `Spec => []SnapshotsProtected` |
| `RestartedLogsAreCopied` | `Spec => OnlyCopiedLogsRestart` |
| `CachesStayFresh` (in `WalImages`) | `Spec => []CacheIsFresh` |
| `SnapshotsAreImplemented` (in `WalSnapshots`) | `Spec => ImplementsSnapshotDb /\ SDB!Spec` |

The first assumption is needed: `wal_reset` is the counterexample to
`NBackfillInLog` without it. The second excludes a process that dies at line 2154
of `wal.c` with the header of the empty log published and `nBackfill` that of the
old one. The third is needed, as section 4 tells. The fourth is not a counterexample but a limit
of the proof: with it, `Survivors` is empty and a recovery finds the log that the
processes left. Everything else is arbitrary: processes die in any other step, power
fails (but in `SnapshotsAreImplemented`), checkpointers of all modes run beside writers
and recoveries.

The inductive invariant of the first three theorems is `WInv`:

* `FilesTyped`, `SharedTyped`. The types, and one bound that is not a type: a
  transaction logs each page at most once, so a frame at place `k` is of a
  transaction not below `k / |Page|` (`MayHold`), in the file and in whatever a power
  failure may bring back in its place. Only this keeps the log, whose length the code
  does not limit, within `MaxFrame`.
* `Exclusion`, `Holds`, `Control`. The locks exclude each other; each step of a call
  holds the locks it needs, and finds the fields set that it uses.
* `LogOK`, `WriterOK`, `RecoveryOK`. The frames up to the published end are a chain of
  valid ones that ends with a commit; those of a writer continue it, one per page
  spilled, and its commit frame is in its place before it is published. A recovery
  therefore never finds a log shorter than the published one. Without this, a
  recovery could leave `nBackfill` and the readers of the old header behind the end.
* `RestartOK`, `CheckpointOK`, `ReaderOK`. What the steps of a restart, of a
  checkpoint and of a reader know of the header and of `nBackfill`.
* `RestartAlone`. While a writer restarts the log, no checkpointer works with the old
  one: this is where `~StaleCheckpoints` is used.
* `ReadersRespected`. A checkpointer that has passed the slot of a reader copies no
  frame behind its snapshot. `SnapshotsProtected` follows from it with `READ_LOCK`
  and is not inductive: the loop over the slots finds each mark at another time,
  and a reader that comes to a slot already passed must be one that begins no
  earlier than `mxSafe`, because it looks at the header again after it has the lock.

There is one lemma per action (`...Keeps`), with the parts of its own connection;
`OthersKeep` covers all other connections at once, from what a step may do to the
shared state at all (`Effect`), and `StepKeeps` joins them.

`RestartedLogsAreCopied` rests on a second layer, `CopyInv`, inductive together with
`WInv`: if `nBackfill` says that the whole log is copied, the database file is synced
(`CopiedIsSynced`, the order of the sync and of the assignment in `walCheckpoint()`);
whoever is about to publish an empty log has found `nBackfill` at the end of it; and
a checkpointer that is going to truncate still has the published header. A step that
neither publishes nor copies keeps these (`Calm`). That nobody reads from the log
follows from the exclusive locks on all read marks.

`CachesStayFresh` rests on a third layer, `ImageInv` in `WalImages`, inductive together
with the other two. What `walIndexTryHdr()` compares is a header; what it concludes is
that an image is the same. `Stands(h, image)` is the bridge: whenever header `h` is
going to be the published one again, `image` is what it publishes. It has three parts,
for the three ways in which a header comes to be published:

* `OldSalt(h)`: nobody is about to begin a log with the salt of `h`. So the log that
  `h` belongs to is either the present one or never comes back.
* `FitsHead(h, image)`: if the published header has the salt of `h`, `h` is not ahead of
  it, and where they end at the same frame `image` is `HeadImage`. Commits extend the
  log and checkpoints copy what is in it, so images of ends already passed need not be
  remembered.
* `FitsFile(h, image)`: while the published log is empty, the file may still hold the
  old log, which a recovery would find: the same of `FoundEnd` and `FoundImage`.

A cache that may be used again stands for its header (`CacheOK`), from the end of a read
transaction over checkpoints, which may replace the header, to the next read. Around
this are the facts that images do not move: frames before `nBackfill` are in the file
(`Backfilled`, with `HeadOK`, `MarkOK` for the readers that look only behind `minFrame`,
and `PlanOK`, `StartOK` for a copy in progress), the index says what the frames are
(`Indexed`), and what salts a header, a file or a truncated file may have (`SaltOK`,
`FileSaltsOK`). `NotEmpty` says that between the two copies of a header there is a log
in the file, unless it is being truncated; this is where `~TruncateCrash` is used.

Most steps leave the log and the published header alone (`Still`), and then only the own
part of a connection is left to show (`OwnKeeps`). The steps of a writer before its
commit leave the published part of the log alone (`Appending`); those that publish a
header, by a commit or a recovery, have one lemma for what all other headers stand for
afterwards (`PublishingKeeps`).

`SnapshotsAreImplemented` rests on a fourth layer, `SnapInv` in `WalSnapshots`. The
lower layers already say that a reader sees the image of its header (`LogView`) and
that copies do not disturb it; what they lack is what an open transaction and a dead
one have left in the files:

* `OwnFrames`. No page of the database and no published frame is of an open
  transaction; its frames lie between the published end and its own, and none of them
  is a commit before the last. So a spilled page is in nobody's view and found by no
  recovery, and the commit frame makes exactly the writer's view found.
* `LogOrdered`, `PagesOld`. A frame is not older than its log or than the frame before
  it, so no frame that a dead writer left goes on behind a frame of a new transaction:
  a recovery ends exactly where that one does.
* `NoOldCopy`, `AllCopied`. A connection that reads the database alone may become a
  writer, give up its `READ_LOCK(0)` because it cannot restart the log
  (`restart_not_possible`), and still count on the database file until it has a read
  mark. Meanwhile no checkpointer copies up to an older end than the published one:
  the file would be of a past commit. One that copies up to the published end changes
  nothing, since what it copies is there already.
* `NewSalt`. A log that begins gets a salt that no frame in the file has, so that
  publishing the empty header leaves nothing in doubt that was not before.
* `FoundOK`. A recovery that has made its header has found what is still to be found
  when it publishes it.

`NothingOlder` says that without power failures nothing is unsynced. There is one lemma
per action (`...Implements`), which shows the invariant afterwards and the step of
`SnapshotDb`: `BeginsToRead`, `BeginsToWrite`, `Writes`, `Prepares`, `Commits`,
`RollsBack`, `Leaves`, `Recovered` or `Silent`, each a lemma that lists what the step of
the abstract specification asks. A transaction begins in `read_without_wal` or
`verify_slot`, a write in `sqlite3WalBeginWriteTransaction`; `walFrames` is the write of
a page, `commit_frame` makes the commit possible, `publish_commit`, or a
recovery or the first process to open the database, makes it.

## 6. What is only model-checked

`EveryRequestEnds`, `WriterNotStarved`, `HotJournalIsRolledBack` (liveness under
fairness), the refinement of `ProcurementAPI` (its amounts are sums over sequences,
which need induction over data), and `ImplementsSnapshotDb` of `Wal` when the power
fails: that a lost write leads back to a committed image is a statement about every
mixture of old and new frames that `LogRemains` may leave, and needs an invariant of
these mixtures; `wal_power` checks it for one process. With more than one worker
nothing is claimed of the properties whose theorems ask for one.

`ImplementsSnapshotDb` is `SDB!Init /\ [][UNCHANGED Mapped \/ SDB!Next]_vars` and
not `SDB!Spec`: `Mapped` is the part of the state that the refinement mapping is
made of, so that TLC compares images only in the steps that can change one. The
theorem proves both.

## 7. Abstractions of the handlers

Quantities and prices are integers, where the code has floats. Columns no check
reads (names, dates, notes, prices of materials) are left out, as are the read-only
endpoints. In the responses, `current_stock`, `status` and `material_id` stand for all
columns that the schemas require. `order_number` carries a random part and
is taken to be unique. A reader that delays another connection's COMMIT shows only
as waiting, or as `database_locked` before the write. A PUT body that leaves
`current_stock` or `status` out changes nothing the model sees.

## 8. What is not modelled

* Knowledge workflow: its router is commented out in `main.py`, and both operations
  use names that no module defines (`KnowledgeUploadRequest`,
  `KnowledgeUploadReview`), so each raises `NameError` before it does anything.
* Agentic system and training: canned answers and calls of external models;
  `add_documents` uses `self.vector_store`, whose assignments are commented out.
* Labour, admin login, predictor, recommendations, reports, agent context, seed data
  and the frontend: single-row handlers, read-only figures, formulas, and views. The
  races of the first two are those of `lost_stock_update`; no mounted router calls
  the admin login.
* In `os_unix.c`: lock styles other than POSIX, the read, write, sync and mapping
  methods, and the shared memory of the wal-index, whose locks `Wal` takes as atomic.
* In `pager.c`: savepoints, super-journals, PERSIST, MEMORY and OFF journals,
  exclusive locking mode, vacuum, backup, memory mapping, and sectors larger than a
  page.
* In `wal.c`: I/O errors, savepoints and frames rewritten in place, closing with a
  last checkpoint and deletion, snapshots, exclusive and heap-memory mode, padding to
  sectors, a database that changes its size.
* The rest of the SQLite tree (B-tree, virtual machine, parser, extensions, test
  harness, shell), which is most of the repository's lines: sequential code whose
  correctness is about data, not about the order of steps. It meets the models as
  the calls that the pager answers.
* Mock screens, layout and assets.
