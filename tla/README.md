# TLA+ models of radosfs FileIO

This directory holds TLA+ models of `src/src/FileIO.cc`/`FileIO.hh`, the
file-data layer of radosfs (a file system on Ceph RADOS), and the TLC
configurations that check them.

## The system

A file is an *inode object* plus *chunk objects* of `mChunkSize` bytes in a
RADOS pool; chunk 0 is the inode object itself. The size lives in the
`XATTR_FILE_SIZE` xattr of the inode; small files may also keep their first
bytes in an *inline buffer* of the parent directory. A `Filesystem` instance
is one librados client. It holds one `FileIO` per inode and shares it between
all its users.

Parts (and their source lines):

| Part | Source | State | Operations |
|---|---|---|---|
| Advisory inode lock | `FileIO.cc` 571-679, 1194-1237 | `mLocker`, `mLockStart`, `mLockUpdated`, `mLockMutex`; the store's cls_lock leases `FILE_CHUNK_LOCKER` with cookies `...COOKIE_WRITE` (shared) and `...COOKIE_OTHER` (exclusive) | `lockShared`, `lockExclusive`, `unlockShared`, `unlockExclusive`, `unlock`, `manageIdleLock`/`unlockIfTimeIsOut`, `syncAndResetLocker` |
| Ops registry | `FileIO.cc` 1316-1419 | `OpsManager::mOperations`, `opsMutex`; each `AsyncOp` has a ready flag and completions | `addOperation`, `sync()`, `sync(opId)`, `waitForLoneOps`, `hasRunningOps` |
| Write path | `FileIO.cc` 502-547, 681-863 | chunk objects, inline buffer, size xattr | `writeSync`, `write` (posts `realWrite` to the io_service pool), `verifyWriteParams`, `realWrite`, `setAlignedChunkWriteOp` |
| Truncate, remove | `FileIO.cc` 865-1104 | chunks, size xattr | `truncate`, `remove`, `getLastChunkIndex(AndSize)` |
| Read path | `FileIO.cc` 45-500 | read requests, per-chunk completions | `read` (vector, scalar), `vectorReadChunk`, `vectorReadInlineBuffer`, `onReadCompleted`, `assignInodeSize`, `assignRemainingReadData` |
| Size and backlink xattrs | `FileIO.cc` 1106-1192, 1247-1313 | `XATTR_FILE_SIZE`, `XATTR_INODE_HARD_LINK`, `mHasBackLink` | `getSize`, `setSize`, `setSizeIfBigger`, `updateBackLink`, `setInlineBuffer`, `setLazyRemoval` |
| Lifetime | `FileIO.cc` 86-133 | `mLazyRemoval` | constructors, destructor (sync, waitForLoneOps, lazy remove, idle unlock) |
| Benchmark | `src/benchmark/*` | none | a driver that times writes: not modelled |
| Tests | `src/test/tests.cc` | none | not modelled |

How they interact. Each write, truncate and remove takes the inode lock around
its chunk operations. The lock is held as a lease of `FILE_LOCK_DURATION`
seconds in the store. Each `FileIO` also keeps a local record of it: while
`now - mLockStart < FILE_LOCK_DURATION - 1`, a lock call returns at once
without calling the store (the *keep* branch). An operation clears `mLocker`
at its end, in `syncAndResetLocker`. The filesystem's own thread calls
`manageIdleLock` periodically. It releases a lock that has been idle for
`FILE_IDLE_LOCK_TIMEOUT`, but only while no operation holds `mLocker`. Writes
register an `AsyncOp` in the `OpsManager`. Truncate, remove, the read path and
the destructor first wait for all registered ops with `sync()`.

What makes this code hard: several clients contend for the store lock. Within
one `FileIO`, callers and io_service workers run ops concurrently. Several
pieces of state are read under a mutex and acted on after it is released.
Lease expiry races long operations. Ops are registered before they can fail.

## Modules

* `FileIO.tla` models the lock protocol, the ops registry and the control of
  `realWrite`, `truncate` and `remove` for a set of `Clients`, with
  `ThreadsPerClient` threads each.
  * A *thread* is a caller of `writeSync`/`truncate`/`remove`, or an
    io_service worker running the `realWrite` that `write` posted. That is why
    two threads of one client may run ops on one `FileIO` concurrently.
  * Byte contents are abstracted away: an operation is the number of chunk
    operations it submits (`todo`, `pending`).
  * Time is a discrete clock, kept as capped ages:
    * `lockAge = now - mLockStart`;
    * `updAge = now - mLockUpdated`;
    * `lease[c][k]` is the age of the store lease of client `c` under cookie
      `k`, and `LockDuration` means no lease.
  * Variables and the code they stand for:

    | Variable | Code |
    |---|---|
    | `locker` | `mLocker` |
    | `lockMutex` | `mLockMutex` while held across a wait |
    | `reg` | `mOperations` |
    | `rdy` | the ready flag of the thread's current `AsyncOp` |
    | `pc`, `cont` | the thread's control point, and where a lock call returns |
    | `cs` | the thread is between its first lock call and the end of its `syncAndResetLocker` |

  * The store's lock call is `StoreLockResult`:
    * a locker that already holds its cookie gets `EEXIST`, and the lease is
      not renewed;
    * an exclusive request, or any request while an exclusive lease is live,
      gets `EBUSY`;
    * otherwise the lease is granted.
  * Actions and the code they model:

    | Action | Code |
    |---|---|
    | `LockKeep` | the first `mLockMutex` block of `lockShared`/`lockExclusive` |
    | `LockStore` | the `while (... == -EBUSY)` loop |
    | `LockSet` | the second `mLockMutex` block |
    | `StartWrite` | `writeSync`/`write` with valid parameters and the inline part of `realWrite` (the invalid `writeSync` is in `OpsManager.tla`) |
    | `StartTruncateOrRemove`, `SyncAll`, `UnlockShared`, `LastChunkQuery` | the prologue of `truncate`/`remove` up to its chunk loop, with the early return on a failed size query |
    | `ChunkLoop`, `SubmitChunk` | the chunk loop, `setReady` |
    | `SyncAndResetLocker`, `ResetLocker` | `syncAndResetLocker` |
    | `Complete` | the store completing a chunk operation |
    | `ManageIdleLock` | `manageIdleLock` + `unlockIfTimeIsOut` |
    | `Tick` | one second passing |

  * `Tick` does not fall between a store lock call's return and the set block
    (pc `lockset`). The code's `FILE_LOCK_DURATION - 1` margin assumes that
    gap is under a second.
* `MC_FileIO.tla` gives two clients `c1`, `c2` as model values, and the
  operation budgets `MaxOps`.
  * c1 runs two operations, so its second one meets the lock state its first
    one left.
  * c2 runs one.
  * For the two-thread run, c1 has two threads with one operation each.

* `FileIOData.tla` models what the operations do to the *data*: the chunk
  objects, the size xattr and the bytes a read returns, with no inline
  buffer, on a pool with or without alignment (`Aligned`). The lock is left to `FileIO.tla`: here the
  clients' operations interleave as far as the store allows.
  * A byte written at file position `p` by a write of value `v` is `<<v, p>>`.
    A byte stored at the wrong place is therefore visible.
  * Variables and the code they stand for:

    | Variable | Code |
    |---|---|
    | `obj`, `exists` | the chunk objects (object 0 is the inode) |
    | `sizeX` | `XATTR_FILE_SIZE`, or `NoSize` when absent |
    | `jobs` | `realWrite`s posted to the io_service pool, with the ops they have not submitted yet |
    | `inflight` | submitted ops the store has not applied; one client's ops on one object apply in order, ops on different objects in any order |
    | `rd` | the scalar read in progress: its per-chunk requests, completions, buffer, `opRet`, error, and the cached `inodeSize` |
    | `ref` | the file the calls describe, in call order (a ghost) |

  * Actions and the code they model:

    | Action | Code |
    |---|---|
    | `Write`, `Submit` | `write` + `verifyWriteParams`; `realWrite` (`setSizeIfBigger`, then the chunk loop in `ChunkWrites`) submitting one op per step |
    | `PrepareAligned` | on an aligned pool, `setAlignedChunkWriteOp` in the worker: the synchronous read of the whole chunk and its xattrs, ordered after this client's ops on the chunk already submitted, turning the job's next op into a `put` |
    | `Apply` | the store applying an op: `setSizeIfBigger`'s compare-and-set, a chunk write, a truncate with `assert_exists`, a remove, or an aligned `put` (remove, create, the xattrs as read, append of the whole chunk) |
    | `Truncate` | `truncate`: sync, the size query, `truncateDown`/`totalChunks`/`newLastChunk` arithmetic, the synchronous `setSize`, and the chunk ops from the last down to the new last chunk |
    | `Remove` | `remove`: sync, the size query (fails: return), a remove of chunks 0..lastChunk |
    | `Done` | `syncAndResetLocker`/`sync(opId)` returning |
    | `ReadStart`, `ReadChunk`, `OnReadCompleted`, `ReadDone` | `read`: sync, `getReadDataPerChunk`, one aio read per chunk, `onReadCompleted` (`assignInodeSize`, the `-ENOENT` override, `assignRemainingReadData`), and the final `sync(opId)` |

  * When the size query fails (`-ENOENT` or `-ENODATA`), `truncate` reads
    `currentSize` uninitialized. `truncateDown` is then a free choice, which
    models that undefined behaviour. `totalChunks` is a `size_t` read back
    through a signed loop index, so a negative count runs no iteration.
  * A read's completion may run after other clients' ops have been applied.
    `assignInodeSize` reads the size at that moment.
  * On an aligned pool a chunk write is first an `rmw` op in the job: the
    read has not been made yet. `PrepareAligned` makes it, and the result
    is a `put` holding the whole new chunk and, on the inode, the size as
    read. `truncate` builds its zeroing `put` at once, since it reads
    after the synchronous `setSize`. In `Eventual`, a not yet prepared `rmw`
    reads and puts in one step.
* `MC_FileIOData.tla` gives clients `c1`, `c2`, values `v1`, `v2` and the
  budgets.

* `File.tla` is the abstract file that spec sections 4 and 8 promise one
  user. It is a sequence of bytes that `Write`, `Truncate` and `Remove`
  change in one step, and a `Read` that returns the bytes at an offset, or
  fails only when it runs past the end. `FileIOData` implements it
  (`FileRefined`). The refinement mapping is:
  * `file` is `Logical(Eventual(Owner))`. `Eventual` applies the client's
    submitted ops and the ops its posted `realWrite`s have yet to submit
    to the store, which is what `sync()` waits for. `Logical` reads the
    bytes below `getSize` off the chunks, with null where a chunk is short.
  * `reply` is the last scalar read: the offset and length it asked for,
    and its error or its `opRet` bytes. File's `Read` is judged against
    that interval: the bytes must be the file's bytes there, and an error
    is allowed only when the interval runs past the end.
  * An unawaited write is therefore already a File write when it is
    issued. The chunk and size ops that follow are stuttering steps of
    File, whatever per-object order the store applies them in.

* `OpsManager.tla` models one `FileIO`'s op registry and its teardown.
  * An *owner* thread makes the calls. An async `write` registers an op and
    posts a `realWrite` *job* that holds a copy of its `AsyncOpSP`.
    `writeSync` runs `realWrite` in the owner thread. A `writeSync` with
    invalid parameters registers an op and returns. `sync()`,
    `sync(opId)` and the destructor follow. `Spec` has valid calls only;
    `SpecInvalidCalls` adds the invalid `writeSync`.
  * Each job runs its body, which ends in `setReady`, or takes the inline
    early return. It then runs `syncAndResetLocker`: lock `mLockMutex`,
    wait for the completions, clear `mLocker`, unlock. Last, it drops its
    reference.
  * Variables and the code they stand for:

    | Variable | Code |
    |---|---|
    | `reg` | the keys of `mOperations`; op numbers stand for their key order |
    | `wk` | how far the op's job has got |
    | `aio` | the op's completions have resolved |
    | `lockMutex` | `mLockMutex` |
    | `owner` | where the owner thread is |
    | `todo` | the keys a loop over `mOperations` has left to visit |
    | `blinkCb` | an `inodeBackLinkCb` completion from `updateBackLink` is outstanding |

  * `UpdateBackLink` is `updateBackLink`: it starts `setInodeBacklinkAsync`
    with `this` as the callback argument and registers nothing in
    `mOperations`. `BackLinkCb` is `inodeBackLinkCb` on a store thread: on
    a return of 0 or `-ECANCELED` it calls `setHasBackLink(true)` on the
    `FileIO`, otherwise it leaves the `FileIO` alone. No property reads
    `mHasBackLink`, so only the callback's running is modelled. At most one
    such call is outstanding; a second one only repeats the first.

  * `~FileIO` is `Destroy`, `SyncStep`/`SyncEnd` (the `sync(false)` loop),
    `LoneStep`/`LoneEnd` (`waitForLoneOps`), then `DtorUnlock`, which needs
    `mLockMutex`. Both the idle unlock and lazy `remove()` take that mutex.
  * In `LoneStep`, `erase(it)` followed by `++it` is undefined behaviour.
    Its outcomes are chosen from `EraseOutcomes`: the next key, the end of
    the map, or a fault.
  * `opsMutex` is left out: the owner is the only thread that touches the
    registry here, and `hasRunningOps` only reads it under `try_lock`.

The `map` in `PROJECT.json` gives the source lines behind every definition.

## Runs

All runs use two clients. The lease is `LockDuration = 2` ticks
(`FILE_LOCK_DURATION`, 120 s in the code) and `IdleTimeout = 1`. A write spans
at most `NumChunks = 2` chunks, which is enough to choose an exclusive lock
and to refresh the lock between chunks.

| Run | cfg | Expect | What it shows |
|---|---|---|---|
| live | `FileIO_live.cfg` | pass | With one thread per client, all kinds of operations return: one- and two-chunk writes, inline writes, truncates and removes, including ones whose size query fails (`EveryOpReturns`). Deadlock is checked. The invalid `writeSync` is checked in `OpsManager` (`stuck_sync`). About 150k distinct states, 1 min. |
| mutex_truncate | `FileIO_mutex_truncate.cfg` | violation of `MutualExclusion` | A write on c1, then a truncate on c1. `unlockShared` drops the lease but not `mLockStart`, so `lockExclusive` keeps the "fresh" lock and the truncate runs with no exclusive lease, while c2 writes. |
| lease | `FileIO_lease.cfg` | violation of `FreshLockIsHeld` | Two-chunk writes, `LockDuration = 3`. A re-lock near the end of the lease gets `EEXIST`. The code takes that as success and restarts `mLockStart`, but the lease expires a tick later. |
| idle_threads | `FileIO_idle_threads.cfg` | violation of `IdleReleaseOnlyWhenIdle` | Two threads on c1. TLC's shortest trace (17 states): a thread's store lock call returns `EEXIST` with `mLocker` still empty; before the second `mLockMutex` block, `manageIdleLock` finds the lock idle and unlocks it; the thread then records a fresh `mLockStart` for a lease the store no longer holds. The same property is also broken in 18 states by one thread's `syncAndResetLocker` clearing `mLocker` under the other, after which `manageIdleLock` unlocks mid-operation (it is the trace when the window above is left out of the property). The window race needs only one thread per client, which is why `live` no longer checks this property. |

`mutex_truncate` sets `ClockRuns = FALSE`. With no time passing, leases
never expire, so a violation can only come from the keep branch and not from
a thread stalled past its lease. Because a client spinning on `EBUSY` then
never gets the lock, these runs do not check deadlock.

Each property of a passing run has a mutant in `FileIO.tla` that TLC finds
violating it under that run's cfg:

| Mutant | What it drops | Property it breaks |
|---|---|---|
| `SubmitChunkKeepsTodo` | the loop never advances | `TypeOK` |
| `ChunkLoopNoReady` | `setReady` is missing | `EveryOpReturns` |

### Data runs

| Run | cfg | Expect | What it shows |
|---|---|---|---|
| data_seq | `FileIOData_seq.cfg` | pass | One client, 2-byte chunks, 3 chunks, four calls. The client awaits each call: the spec orders two writes only when the first is awaited. Every sequence of writes (offsets 0, 1, 3; lengths 1-3), truncates (sizes 0, 1, 3, 5), removes and reads (offsets 0, 1, 3; lengths 1, 3) is covered. Bytes stay at their positions (`PositionsKept`), the size equals the length of the file the calls describe (`SizeMatchesImage`), every read returns those bytes, or errors only past the end (`ReadMatchesRef`), and the same behaviours implement `File` (`FileRefined`), each read against the interval it asked for. It also covers truncates after a remove, where `currentSize` is uninitialized. About 630k states: 8 s with the invariants alone, about 3 min with the refinement. |
| data_writers | `FileIOData_writers.cfg` | pass | Two clients, three unawaited writes. Their size and chunk ops are submitted by pool workers and applied in any per-object order. Once every op is applied the size xattr equals the largest end written, whatever order `setSizeIfBigger`s arrived in (`SizeMatchesImage`), and the chunks and size hold exactly the file the calls describe (`StoreMatchesRef`). About 264k states, 6 s. Raising the budget to 2+2 takes 4m50s, too close to the time limit. |
| data_aligned | `FileIOData_aligned.cfg` | pass | As `data_seq` on an aligned pool, with one value and no reads: every chunk write is a read-modify-write and truncate zero-fills the new last chunk. Chunks stay whole (`AlignedChunksWhole`), the store ends equal to the file the calls describe (`StoreMatchesRef`), and the behaviours implement `File` (`FileRefined`). About 13k states, 1 min. With two values it takes 18 min. |
| data_lost_update | `FileIOData_lost_update.cfg` | violation of `StoreMatchesRef` | One client on an aligned pool, one 2-byte chunk, two unawaited 1-byte writes at offsets 0 and 1. Both workers read the empty chunk before either `put` is submitted. The second `put` writes back null where the first write's byte was. |
| data_race | `FileIOData_race.cfg` | violation of `NoZeroFillUnderflow` | 3-byte chunks. Unawaited writes at offset 3, a truncate to 4 and a read of chunk 1, by either client. TLC's shortest trace (10 states) goes through the truncate: c1 writes 2 bytes at 3 and the store applies them (size 5); c1 reads 3 bytes at 3 and its chunk read returns the 2 bytes; c2's truncate to 4 applies `setSize(4)` before the chunk truncation; the completion then takes size 4 and computes `min(3, 4-3) - 2`. Without truncates (`TruncSizes = {}`) TLC finds the write route in 11 states: c1 writes 1, then 2 bytes at 3, the store applies the second write's chunk op and the first's size op, and c2's read sees 2 bytes under a size of 4. |

`data_seq` leaves out truncation to positive multiples of the chunk size,
which the code gets wrong (see the last section of Findings), so the pass run
checks everything else. `data_aligned` leaves out reads. On an aligned pool
a chunk is whole, so a read past the size within the last chunk returns null
bytes as data. With `Aligned = TRUE`, TLC finds `ReadMatchesRef` violated in
`data_seq` (a `truncate(0)` of a new file, then `read(0, 1)` returns one
byte).

`StoreMatchesRef` compares bytes only up to a single value: with one value
in `Vals`, two writes that overlap put the same bytes, so the order the
store applies them in cannot matter.

Mutants of `FileIOData.tla`:

| Mutant | What it changes | Property it breaks |
|---|---|---|
| `ChunkWritesNoClamp` | the slice length is not clamped to the room left in the chunk | `TypeOK` |
| `ChunkWritesKeepOffset` | `currentOffset` is not reset after the first chunk | `PositionsKept` |
| `ApplySizeGTPlain` | the size is set without `cmpxattr` | `SizeMatchesImage` |
| `OnReadCompletedFillAll` | the zero fill ignores the bytes already read | `ReadMatchesRef` |
| `ReadChunkNoOffset` | the chunk read ignores the offset within the chunk | `FileRefined` (a read returns bytes of another interval) |
| `ChunkWritesKeepOffset` | as above | `StoreMatchesRef` in `data_writers` |
| `ApplySizeGTPlain` | as above | `SizeMatchesImage` in `data_writers` |
| `TruncateOpsPlain` | truncate ignores the alignment and truncates the chunk | `AlignedChunksWhole` |
| `PrepareAlignedUnordered` | the chunk read is not ordered after the client's submitted ops, so it misses its own `setSizeIfBigger` | `StoreMatchesRef` in `data_aligned` |
| `TruncateOpsZeroFromStart` | the aligned zeroing starts at offset 0 | `FileRefined` in `data_aligned` |

### Teardown runs

`OpsManager` runs give the owner 3 ops. That is enough for an erased op,
a waited-for op and a job still running at once.

| Run | cfg | Expect | What it shows |
|---|---|---|---|
| teardown | `OpsManager_teardown.cfg` | pass | The owner makes any of async writes, `writeSync`, `sync()`, `sync(opId)` and `updateBackLink`, then destroys the `FileIO`. `++it` after an erase either moves on or ends the pass. The destructor always returns (`DestructorReturns`). About 24k states, 2 s. |
| uaf | `OpsManager_uaf.cfg` | violation of `NoUseAfterDestroy` | A `write`, then the `sync()` of a later read, truncate or remove. It waits for the op and erases it. The destructor sees an empty registry and frees the `FileIO`, while the job has still to lock `mLockMutex` in `syncAndResetLocker`. |
| stuck_sync | `OpsManager_stuck_sync.cfg` | violation of `DestructorReturns` | Under `SpecInvalidCalls`, where the owner may also call `writeSync` with invalid parameters (`BadWriteSync`), an invalid `writeSync` registers an op that is never ready. The next `sync()`, and the destructor's `sync(false)`, wait on it forever. Deadlock is not checked, because the owner does stop. |

Mutants of `OpsManager.tla`:

| Mutant | What it changes | Property it breaks |
|---|---|---|
| `SyncStepNoAdvance` | `sync()` erases the op but does not move on to the key saved before the erase (`it = oldIt`) | `TypeOK` (the loop visits an erased key) |
| `LoneEndNoRescan` | the next pass of `waitForLoneOps` does not restart at `begin()` | `DestructorReturns` |

The `fault` outcome of the erase is left out of the checked runs. A crash
ends the process, and no property decides it; the hazard list records it.

### Fairness

* Thread steps are weakly fair: a thread that can go on does.
* `LockStore` is strongly fair. The code busy-waits on the store, and it gets
  the lock whenever the store grants it infinitely often.
* `ManageIdleLock` is strongly fair. It is called periodically and uses
  `try_lock`, so it runs whenever it is enabled infinitely often.
* `Complete` is weakly fair: the store answers.
* `Tick` is weakly fair: time passes.
* In `OpsManager`, the owner thread, each job and `BackLinkCb` are weakly
  fair. The io_service runs posted jobs, the store answers every completion
  (the backlink one included), and the destructor's loops run while they can.

## Findings

See `findings` in `PROJECT.json`:

1. **Truncate and remove run without the exclusive lock** after a recent
   operation of the same `FileIO`.
2. **`EEXIST` from a re-lock is taken as a renewal.**
3. **One op's `syncAndResetLocker` clears another op's locker**, and the idle
   manager then unlocks under it.
4. **An invalid `writeSync` makes every later `sync()`, and the
   destructor, hang.**
5. **A read racing an unawaited write underflows the zero-fill length**
   (line 237). The chunk data lands before the size update.
   A read racing a truncate underflows it too (line 974): `setSize` is
   applied before the chunk truncation.
6. **The destructor can free a `FileIO` under a running `realWrite`**
   (line 857). `sync()` erases an op as soon as it completes, but its job
   still runs `syncAndResetLocker` on `this`. Nothing `~FileIO` waits for
   covers it. The same holds for `updateBackLink` (line 1306): its
   `inodeBackLinkCb` gets `this` but is not in `mOperations`. With `Calls =
   {"backlink"}` in `OpsManager_uaf.cfg`, TLC finds `NoUseAfterDestroy`
   violated in six states: the destructor returns with the completion still
   outstanding.
7. **Two writes into one chunk of an aligned pool can lose one of them**
   (line 719). `setAlignedChunkWriteOp` reads the chunk in the worker and
   submits the rewritten chunk later. Two unawaited writes of one `FileIO`
   both hold only the shared lock. Both read the old chunk, and the later
   `put` erases the other's bytes.
8. **`manageIdleLock` can release a lock that `lockShared` or
   `lockExclusive` has just taken or found held** (lines 597-603 and
   639-644). The store call runs outside `mLockMutex`, and `mLocker` stays
   empty until the second `mLockMutex` block. If the lock has been idle
   for `idleTimeout`, `manageIdleLock` unlocks it in between, and the
   operation then runs believing it holds a fresh lock.

Three more defects turn up when a cfg is widened. They are not kept as
runs, to keep the runs to one per question:

* **Multi-chunk writes keep a shared lock** (line 622). With `WriteSpans =
  {1, 2}` and `OpKinds = {"write"}` in `FileIO_mutex_truncate.cfg`, TLC
  finds `MutualExclusion` violated. After a one-chunk write on c1, its
  two-chunk write keeps the shared lock while c2 writes.
* **Truncating to a positive multiple of the chunk size empties the new
  last chunk** (line 965). With `TruncSizes = {2, 4}` in
  `FileIOData_seq.cfg`, TLC finds `ReadMatchesRef` violated.
* **On an aligned pool a read past the size returns null bytes** (line
  398). See Data runs.

## Plan

Later work, in this order:

1. **`ChunkLayout.tla`**: the pure splitting of an interval into chunks
   (`getReadDataPerChunk`, the slicing in `realWrite`, `newLastChunk` in
   `truncate`) as operators, checked against a reference definition over all
   small offsets and lengths.
2. **`InodeLock.tla`**: an abstract inode lock (readers/writer with leases),
   with `FileIO` shown to implement it for the operations the code gets
   right (the fixed-mode runs), via `INSTANCE ... WITH`.
3. **Backlink path and inline buffer**: the path `setSize` and
   `setSizeIfBigger` write as backlink, `setPath`, and a property that
   `mHasBackLink` is true only when the stored backlink is the current path
   (a late `inodeBackLinkCb` for an old path breaks it, line 1129); the
   inline-buffer truncate that precedes the size query.

## Not modelled

* Inline-buffer reads and vector reads of several intervals. `FileIOData` models the scalar read.
* In `FileIOData`, the lock: its effect on the data is left to the
  interleavings the store allows. Reads take no lock, so the read races are
  real. `data_writers` allows more interleavings than a working exclusive
  lock would, and its properties hold even so.
* Debug messages and mtime updates (`updateTimeAsyncInXAttr`), which change
  no state any property reads.
* The `EFBIG` early return of `truncate`, which happens before any state
  change.
* `FileInlineBuffer` and `AsyncOp`, which are not in this repository. Only
  their observable effect is modelled: an inline write completes or fails at
  once, and an op's `waitForCompletion` returns once it is ready and its
  completions are in.
* `hasRunningOps`: it only reads the registry under `try_lock`. The spec
  allows it to answer false when the lock is busy.
* The first constructor leaves `mLockStart` and `mLockUpdated`
  default-constructed. A `boost::chrono` time point is then the epoch,
  which is an expired lock, so `FileIO`'s `Init` holds for both
  constructors.
* The backlink's value and `setPath`. `OpsManager` models when
  `inodeBackLinkCb` runs and what it sets, not which path it wrote.
  `setPath`'s callers (rename) are not in this repository.
* The growth of `mOperations` under writes with no `sync()` (line 1396).
  Every bounded model caps it at `NumOps`, so it cannot be checked.
* The benchmark driver and the tests.
