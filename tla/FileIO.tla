------------------------------- MODULE FileIO -------------------------------
(***************************************************************************)
(* The control of FileIO (src/src/FileIO.cc) against the object store: the *)
(* per-FileIO lock manager (mLocker, mLockStart, mLockUpdated, mLockMutex), *)
(* the OpsManager registry of AsyncOps, and the write, truncate and remove *)
(* operations of several clients on one inode, each client with its own    *)
(* FileIO and one or more threads running operations on it.                *)
(*                                                                         *)
(* The store's advisory lock "file-chunk-locker" on the inode follows the  *)
(* cls_lock semantics librados gives the calls FileIO makes: a locker is   *)
(* the pair (client, cookie); a lock call by a locker that already holds a *)
(* live lease returns EEXIST and does NOT renew it (FileIO passes no renew *)
(* flag); an exclusive request, or a request of the other type, is EBUSY   *)
(* while any other live locker exists; a lease expires LOCK_DURATION after *)
(* it was granted.                                                         *)
(*                                                                         *)
(* Time is a discrete clock kept as ages: lockAge = now - mLockStart,      *)
(* updAge = now - mLockUpdated, lease = age of a store lease; ages stop at *)
(* the first value where no comparison of the code changes any more.       *)
(* Byte contents, sizes and chunk names are abstracted away: an operation  *)
(* is the number of chunk operations it submits, and the store query that  *)
(* gives the last chunk index may fail (ENOENT once the inode is removed). *)
(***************************************************************************)
EXTENDS Naturals, Sequences, FiniteSets

CONSTANTS
    Clients,          \* one Filesystem instance (librados client) each
    ThreadsPerClient, \* threads running operations on a client's FileIO
    MaxOps,           \* [Threads -> Nat]: operations each thread starts (bounds the model)
    LockDuration,     \* FILE_LOCK_DURATION, in clock ticks
    IdleTimeout,      \* FILE_IDLE_LOCK_TIMEOUT, in clock ticks
    NumChunks,        \* most chunk objects an operation touches
    OpKinds,          \* operations the threads may start
    WriteSpans,       \* numbers of chunks a write may span
    HasInline,        \* whether an inline buffer is configured
    StoreErrors,      \* whether the store may fail the size query of truncate/remove
    ClockRuns,        \* whether time passes (FALSE: every step within one lease)
    NoLocker,         \* mLocker == ""
    NoThread          \* mLockMutex not held

ASSUME /\ ThreadsPerClient \in Nat \ {0}
       /\ IdleTimeout \in Nat \ {0}
       /\ LockDuration \in Nat /\ LockDuration > IdleTimeout
       /\ NumChunks \in Nat \ {0}
       /\ OpKinds \subseteq {"write", "truncate", "remove"}
       /\ WriteSpans \subseteq 1..NumChunks /\ WriteSpans # {}
       /\ HasInline \in BOOLEAN
       /\ StoreErrors \in BOOLEAN /\ ClockRuns \in BOOLEAN

Threads == Clients \X (1..ThreadsPerClient)
OpIds   == UNION {{t} \X (1..MaxOps[t]) : t \in Threads}
Cookies == {"write", "other"}  \* FILE_CHUNK_LOCKER_COOKIE_WRITE / _OTHER
Expired == LockDuration + 1    \* updAge after expiredLockDuration()
TooOld  == LockDuration - 1    \* lockAge from which the lock is not kept

ClientOf(t) == t[1]

ASSUME MaxOps \in [Threads -> Nat]

VARIABLES
    lockAge,    \* [Clients -> 0..TooOld]: now - mLockStart
    updAge,     \* [Clients -> 0..Expired]: now - mLockUpdated
    locker,     \* [Clients -> OpIds \cup {NoLocker}]: mLocker
    lockMutex,  \* [Clients -> Threads \cup {NoThread}]: mLockMutex held across a wait
    lease,      \* [Clients -> [Cookies -> 0..LockDuration]]: store lease age; LockDuration = none
    reg,        \* [Clients -> SUBSET OpIds]: OpsManager::mOperations
    rdy,        \* [Threads -> BOOLEAN]: ready flag of the thread's current AsyncOp
    pending,    \* [Threads -> 0..NumChunks]: submitted, not completed chunk operations
    pc,         \* [Threads -> control point]
    excl,       \* [Threads -> BOOLEAN]: the operation locks exclusively
    nops,       \* [Threads -> Nat]: operations started
    todo,       \* [Threads -> 0..NumChunks]: chunk operations left to submit
    cont,       \* [Threads -> control point]: where the lock call returns
    cs          \* [Threads -> BOOLEAN]: between the first lock and the locker reset

lockVars   == <<lockAge, updAge, locker, lockMutex, lease>>
opVars     == <<reg, rdy, pending>>
threadVars == <<pc, excl, nops, todo, cont, cs>>
vars       == <<lockVars, opVars, threadVars>>

OpId(t) == <<t, nops[t]>>

-----------------------------------------------------------------------------
(* The store's advisory lock (the calls FileIO makes on ioctx).           *)

Live(c, k) == lease[c][k] < LockDuration

\* Result of ioctx.lock_shared / lock_exclusive by locker (c, k).
StoreLockResult(c, k) ==
    LET others == {<<c2, k2>> \in Clients \X Cookies : Live(c2, k2) /\ <<c2, k2>> # <<c, k>>}
    IN  IF Live(c, k) THEN "EEXIST"
        ELSE IF others = {} THEN "OK"
        ELSE IF k = "other" \/ \E o \in others : o[2] = "other" THEN "EBUSY"
        ELSE "OK"

\* ioctx.unlock(inode, FILE_CHUNK_LOCKER, cookie), returning 0 or -ENOENT.
StoreUnlock(c, k) == lease' = [lease EXCEPT ![c][k] = LockDuration]

\* An AsyncOp whose waitForCompletion returns: ready, no completion pending.
\* A thread runs one operation at a time, so an earlier op of a thread is
\* ready. (A writeSync with invalid parameters, whose op is never marked
\* ready, is in OpsManager.)
Finished(o) == o = OpId(o[1]) => rdy[o[1]] /\ pending[o[1]] = 0

-----------------------------------------------------------------------------
Init ==
    /\ lockAge   = [c \in Clients |-> TooOld]
    /\ updAge    = [c \in Clients |-> Expired]
    /\ locker    = [c \in Clients |-> NoLocker]
    /\ lockMutex = [c \in Clients |-> NoThread]
    /\ lease     = [c \in Clients |-> [k \in Cookies |-> LockDuration]]
    /\ reg       = [c \in Clients |-> {}]
    /\ rdy       = [t \in Threads |-> FALSE]
    /\ pending   = [t \in Threads |-> 0]
    /\ pc        = [t \in Threads |-> "idle"]
    /\ excl      = [t \in Threads |-> FALSE]
    /\ nops      = [t \in Threads |-> 0]
    /\ todo      = [t \in Threads |-> 0]
    /\ cont      = [t \in Threads |-> "idle"]
    /\ cs        = [t \in Threads |-> FALSE]

-----------------------------------------------------------------------------
(* lockShared / lockExclusive, entered at "lock" and returning to cont[t]. *)

\* The first mLockMutex block: keep the lock if it is younger than
\* FILE_LOCK_DURATION - 1, taking ownership when nobody holds mLocker.
LockKeep(t) ==
    LET c == ClientOf(t)
        o == OpId(t)
        newLocker == IF locker[c] = NoLocker THEN o ELSE locker[c]
    IN
    /\ pc[t] = "lock"
    /\ lockMutex[c] = NoThread
    /\ IF lockAge[c] < TooOld
         THEN /\ updAge' = [updAge EXCEPT ![c] = 0]
              /\ locker' = [locker EXCEPT ![c] = newLocker]
              /\ IF newLocker = o
                   THEN pc' = [pc EXCEPT ![t] = cont[t]] /\ cs' = [cs EXCEPT ![t] = TRUE]
                   ELSE pc' = [pc EXCEPT ![t] = "spin"] /\ UNCHANGED cs
         ELSE /\ pc' = [pc EXCEPT ![t] = "spin"]
              /\ UNCHANGED <<updAge, locker, cs>>
    /\ UNCHANGED <<lockAge, lockMutex, lease, opVars, excl, nops, todo, cont>>

\* The while loop on the store lock call: it leaves on any result but
\* EBUSY, so a lock already held by this locker (EEXIST) counts as taken.
LockStore(t) ==
    LET c == ClientOf(t)
        k == IF excl[t] THEN "other" ELSE "write"
        r == StoreLockResult(c, k)
    IN
    /\ pc[t] = "spin"
    /\ r # "EBUSY"
    /\ lease' = IF r = "OK" THEN [lease EXCEPT ![c][k] = 0] ELSE lease
    /\ pc' = [pc EXCEPT ![t] = "lockset"]
    /\ UNCHANGED <<lockAge, updAge, locker, lockMutex, opVars, excl, nops, todo, cont, cs>>

\* The second mLockMutex block: record the new lock start and the locker.
LockSet(t) ==
    LET c == ClientOf(t) IN
    /\ pc[t] = "lockset"
    /\ lockMutex[c] = NoThread
    /\ locker'  = [locker EXCEPT ![c] = OpId(t)]
    /\ lockAge' = [lockAge EXCEPT ![c] = 0]
    /\ updAge'  = [updAge EXCEPT ![c] = 0]
    /\ pc' = [pc EXCEPT ![t] = cont[t]]
    /\ cs' = [cs EXCEPT ![t] = TRUE]
    /\ UNCHANGED <<lockMutex, lease, opVars, excl, nops, todo, cont>>

-----------------------------------------------------------------------------
(* The operations.                                                         *)

\* writeSync and write with valid parameters: a fresh AsyncOp is
\* registered and realWrite runs: the
\* inline buffer may absorb the whole write (or fail), which marks the op
\* ready and returns; otherwise the span chunks of the rest are written
\* under an exclusive lock when there are several of them, else shared.
StartWrite(t) ==
    LET c == ClientOf(t)
        o == <<t, nops[t] + 1>>
    IN
    /\ pc[t] = "idle" /\ nops[t] < MaxOps[t] /\ "write" \in OpKinds
    /\ nops' = [nops EXCEPT ![t] = @ + 1]
    /\ reg'  = [reg EXCEPT ![c] = @ \cup {o}]
    /\ \/ /\ HasInline
          /\ rdy' = [rdy EXCEPT ![t] = TRUE]
          /\ UNCHANGED <<pc, excl, todo, cont>>
       \/ \E span \in WriteSpans :
            /\ excl' = [excl EXCEPT ![t] = span > 1]
            /\ todo' = [todo EXCEPT ![t] = span]
            /\ pc'   = [pc EXCEPT ![t] = "lock"]
            /\ cont' = [cont EXCEPT ![t] = "loop"]
            /\ rdy'  = [rdy EXCEPT ![t] = FALSE]
    /\ UNCHANGED <<lockVars, pending, cs>>

\* truncate and remove start alike: mOpManager.sync(), then unlockShared
\* under mLockMutex, then lockExclusive under a fresh op id.
StartTruncateOrRemove(t) ==
    /\ pc[t] = "idle" /\ nops[t] < MaxOps[t]
    /\ \E kind \in OpKinds \ {"write"} :
         cont' = [cont EXCEPT ![t] = IF kind = "truncate" THEN "truncsize" ELSE "rmlast"]
    /\ nops' = [nops EXCEPT ![t] = @ + 1]
    /\ excl' = [excl EXCEPT ![t] = TRUE]
    /\ rdy'  = [rdy EXCEPT ![t] = FALSE]
    /\ pc'   = [pc EXCEPT ![t] = "sync"]
    /\ UNCHANGED <<lockVars, reg, pending, todo, cs>>

\* OpsManager::sync(): wait for every registered op, then erase them.
SyncAll(t) ==
    LET c == ClientOf(t) IN
    /\ pc[t] = "sync"
    /\ \A o \in reg[c] : Finished(o)
    /\ reg' = [reg EXCEPT ![c] = {}]
    /\ pc'  = [pc EXCEPT ![t] = "unlock"]
    /\ UNCHANGED <<lockVars, rdy, pending, excl, nops, todo, cont, cs>>

\* unlockShared(): release the shared cookie (if held) and clear mLocker.
UnlockShared(t) ==
    LET c == ClientOf(t) IN
    /\ pc[t] = "unlock"
    /\ lockMutex[c] = NoThread
    /\ IF Live(c, "write") THEN StoreUnlock(c, "write") ELSE UNCHANGED lease
    /\ locker' = [locker EXCEPT ![c] = NoLocker]
    /\ pc' = [pc EXCEPT ![t] = "lock"]
    /\ UNCHANGED <<lockAge, updAge, lockMutex, opVars, excl, nops, todo, cont, cs>>

\* After lockExclusive, truncate queries the last chunk index and remove
\* the same; a failing query (truncate: other than ENOENT/ENODATA) makes
\* the operation return at once, leaving mLocker set. Otherwise truncate
\* calls setSize, and both register the op and go on to schedule one
\* chunk operation per chunk (truncate: the chunks from the last one down
\* to the new last; remove: the chunks 0..lastChunk).
LastChunkQuery(t) ==
    LET c == ClientOf(t) IN
    /\ pc[t] \in {"truncsize", "rmlast"}
    /\ \/ /\ StoreErrors
          /\ pc' = [pc EXCEPT ![t] = "idle"]
          /\ cs' = [cs EXCEPT ![t] = FALSE]
          /\ UNCHANGED <<reg, todo>>
       \/ /\ \E n \in 1..NumChunks : todo' = [todo EXCEPT ![t] = n]
          /\ reg' = [reg EXCEPT ![c] = @ \cup {OpId(t)}]
          /\ pc'  = [pc EXCEPT ![t] = "loop"]
          /\ UNCHANGED cs
    /\ UNCHANGED <<lockVars, rdy, pending, excl, nops, cont>>

\* Mutant: the loop ends without asyncOp->setReady().
ChunkLoopNoReady(t) ==
    /\ pc[t] = "loop"
    /\ IF todo[t] > 0
         THEN /\ pc'   = [pc EXCEPT ![t] = "lock"]
              /\ cont' = [cont EXCEPT ![t] = "submit"]
         ELSE /\ pc'  = [pc EXCEPT ![t] = "reset"]
              /\ UNCHANGED cont
    /\ UNCHANGED <<lockVars, opVars, excl, nops, todo, cs>>

\* The chunk loop shared by realWrite, truncate and remove: refresh the
\* lock before every chunk, then mark the op ready when all are scheduled.
ChunkLoop(t) ==
    /\ pc[t] = "loop"
    /\ IF todo[t] > 0
         THEN /\ pc'   = [pc EXCEPT ![t] = "lock"]
              /\ cont' = [cont EXCEPT ![t] = "submit"]
              /\ UNCHANGED rdy
         ELSE /\ rdy' = [rdy EXCEPT ![t] = TRUE]
              /\ pc'  = [pc EXCEPT ![t] = "reset"]
              /\ UNCHANGED cont
    /\ UNCHANGED <<lockVars, reg, pending, excl, nops, todo, cs>>

\* Mutant: the chunk loop does not advance to the next chunk.
SubmitChunkKeepsTodo(t) ==
    /\ pc[t] = "submit"
    /\ pending' = [pending EXCEPT ![t] = @ + 1]
    /\ pc'      = [pc EXCEPT ![t] = "loop"]
    /\ UNCHANGED <<lockVars, reg, rdy, excl, nops, todo, cont, cs>>

\* aio_operate of one chunk operation, attached to the op.
SubmitChunk(t) ==
    /\ pc[t] = "submit"
    /\ pending' = [pending EXCEPT ![t] = @ + 1]
    /\ todo'    = [todo EXCEPT ![t] = @ - 1]
    /\ pc'      = [pc EXCEPT ![t] = "loop"]
    /\ UNCHANGED <<lockVars, reg, rdy, excl, nops, cont, cs>>

\* syncAndResetLocker: take mLockMutex, wait for the op, clear mLocker.
SyncAndResetLocker(t) ==
    LET c == ClientOf(t) IN
    /\ pc[t] = "reset"
    /\ lockMutex[c] = NoThread
    /\ lockMutex' = [lockMutex EXCEPT ![c] = t]
    /\ pc' = [pc EXCEPT ![t] = "wait"]
    /\ UNCHANGED <<lockAge, updAge, locker, lease, opVars, excl, nops, todo, cont, cs>>

ResetLocker(t) ==
    LET c == ClientOf(t) IN
    /\ pc[t] = "wait"
    /\ Finished(OpId(t))
    /\ locker'    = [locker EXCEPT ![c] = NoLocker]
    /\ lockMutex' = [lockMutex EXCEPT ![c] = NoThread]
    /\ pc' = [pc EXCEPT ![t] = "idle"]
    /\ cs' = [cs EXCEPT ![t] = FALSE]
    /\ UNCHANGED <<lockAge, updAge, lease, opVars, excl, nops, todo, cont>>

-----------------------------------------------------------------------------
(* The environment: the store completing operations, the filesystem's     *)
(* periodic manageIdleLock call, and time.                                 *)

\* The store completes one chunk operation of thread t's op.
Complete(t) ==
    /\ pending[t] > 0
    /\ pending' = [pending EXCEPT ![t] = @ - 1]
    /\ UNCHANGED <<lockVars, reg, rdy, threadVars>>

\* manageIdleLock: with mLockMutex free (try_lock) and no locker, unlock a
\* lock idle for IdleTimeout but not older than FILE_LOCK_DURATION
\* (unlockShared, else unlockExclusive) and mark it expired.
ManageIdleLock(c) ==
    /\ lockMutex[c] = NoThread
    /\ locker[c] = NoLocker
    /\ updAge[c] >= IdleTimeout
    /\ ~(updAge[c] > LockDuration)
    /\ IF Live(c, "write") THEN StoreUnlock(c, "write")
       ELSE IF Live(c, "other") THEN StoreUnlock(c, "other")
       ELSE UNCHANGED lease
    /\ lockAge' = [lockAge EXCEPT ![c] = TooOld]
    /\ updAge'  = [updAge EXCEPT ![c] = Expired]
    /\ UNCHANGED <<locker, lockMutex, opVars, threadVars>>

Older(a, cap) == IF a < cap THEN a + 1 ELSE cap

\* A tick is one second or more. The lock procedures set mLockStart right
\* after the store call returns and keep the lock only until
\* FILE_LOCK_DURATION - 1: they assume less than a second between the two,
\* so no tick falls between a store call's return and the lock set.
Tick ==
    /\ ClockRuns
    /\ \A t \in Threads : pc[t] # "lockset"
    /\ \E c \in Clients : \/ lockAge[c] < TooOld \/ updAge[c] < Expired
                          \/ \E k \in Cookies : Live(c, k)
    /\ lockAge' = [c \in Clients |-> Older(lockAge[c], TooOld)]
    /\ updAge'  = [c \in Clients |-> Older(updAge[c], Expired)]
    /\ lease'   = [c \in Clients |-> [k \in Cookies |-> Older(lease[c][k], LockDuration)]]
    /\ UNCHANGED <<locker, lockMutex, opVars, threadVars>>

\* Every thread has run its operations and returned.
Terminated ==
    /\ \A t \in Threads : pc[t] = "idle" /\ nops[t] = MaxOps[t]
    /\ UNCHANGED vars

ThreadStep(t) ==
    \/ StartWrite(t) \/ StartTruncateOrRemove(t) \/ SyncAll(t)
    \/ UnlockShared(t) \/ LockKeep(t) \/ LockStore(t) \/ LockSet(t)
    \/ LastChunkQuery(t) \/ ChunkLoop(t)
    \/ SubmitChunk(t) \/ SyncAndResetLocker(t) \/ ResetLocker(t)

Next ==
    \/ \E t \in Threads : ThreadStep(t)
    \/ \E t \in Threads : Complete(t)
    \/ \E c \in Clients : ManageIdleLock(c)
    \/ Tick
    \/ Terminated

\* Threads run whenever they can; the lock loop retries the store without
\* pause, so it gets the lock when it is granted infinitely often; the store
\* completes every operation; the manager thread calls manageIdleLock
\* periodically, and try_lock succeeds when the mutex is free infinitely
\* often; time advances.
Fairness ==
    /\ \A t \in Threads :
         /\ WF_vars(SyncAll(t) \/ UnlockShared(t) \/ LockKeep(t) \/ LockSet(t)
                    \/ LastChunkQuery(t) \/ ChunkLoop(t)
                    \/ SubmitChunk(t) \/ SyncAndResetLocker(t) \/ ResetLocker(t))
         /\ SF_vars(LockStore(t))
    /\ \A c \in Clients : SF_vars(ManageIdleLock(c))
    /\ \A t \in Threads : WF_vars(Complete(t))
    /\ WF_vars(Tick)

Spec == Init /\ [][Next]_vars /\ Fairness

-----------------------------------------------------------------------------
(* Properties.                                                             *)

TypeOK ==
    /\ lockAge \in [Clients -> 0..TooOld]
    /\ updAge \in [Clients -> 0..Expired]
    /\ locker \in [Clients -> OpIds \cup {NoLocker}]
    /\ lockMutex \in [Clients -> Threads \cup {NoThread}]
    /\ lease \in [Clients -> [Cookies -> 0..LockDuration]]
    /\ reg \in [Clients -> SUBSET OpIds]
    /\ rdy \in [Threads -> BOOLEAN]
    /\ pending \in [Threads -> 0..NumChunks]
    /\ pc \in [Threads -> {"idle", "sync", "unlock", "lock", "spin", "lockset",
                           "truncsize", "rmlast", "loop", "submit", "reset", "wait"}]
    /\ excl \in [Threads -> BOOLEAN]
    /\ nops \in [Threads -> Nat]
    /\ todo \in [Threads -> 0..NumChunks]
    /\ cs \in [Threads -> BOOLEAN]

\* Spec 4.5 and 8.4: an operation spanning several chunks, a truncate and a
\* remove run under the exclusive inode lock, so no other operation, of
\* this or another client, is between its lock and its syncAndResetLocker
\* at the same time; operations on a single chunk may overlap each other.
MutualExclusion ==
    \A t1, t2 \in Threads :
        (t1 # t2 /\ cs[t1] /\ cs[t2]) => (~excl[t1] /\ ~excl[t2])

\* lockShared/lockExclusive keep the lock without calling the store while
\* mLockStart is younger than FILE_LOCK_DURATION - 1 (the one second is the
\* margin for the lock call's own delay), so while it is, the store must
\* still hold a lease of this client. It is about the EEXIST result of a
\* re-lock (the loop exits on it and sets mLockStart = now, but the store
\* did not renew the lease) and about unlockShared in truncate and remove,
\* which releases the lease and leaves mLockStart as it was.
FreshLockIsHeld ==
    \A c \in Clients : lockAge[c] < TooOld => \E k \in Cookies : Live(c, k)

\* manageIdleLock releases the store lock of a client only while no thread
\* of that client holds it for an operation: none is between the return of
\* its store lock call in lockShared/lockExclusive (the lock it is about to
\* record in mLockStart and mLocker) and the end of its
\* syncAndResetLocker.
IdleReleaseOnlyWhenIdle ==
    [][\A c \in Clients :
         ManageIdleLock(c) =>
             \A t \in Threads : ClientOf(t) = c => ~cs[t] /\ pc[t] # "lockset"]_vars

\* Every operation a thread starts (a write, truncate or remove, with the
\* lock loops, the OpsManager sync and the wait for completions) returns.
EveryOpReturns ==
    \A t \in Threads : (pc[t] # "idle") ~> (pc[t] = "idle")

=============================================================================
