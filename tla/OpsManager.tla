----------------------------- MODULE OpsManager -----------------------------
(***************************************************************************)
(* The op registry of one FileIO (OpsManager), the realWrite jobs that an  *)
(* asynchronous write posts to the io_service, and the FileIO destructor.  *)
(*                                                                         *)
(* The FileIO's owner thread calls write (addOperation, then post), the    *)
(* synchronous writeSync, sync() (the first step of read, truncate and     *)
(* remove), sync(opId), and finally runs ~FileIO: sync(false), then        *)
(* waitForLoneOps, then unlockIfTimeIsOut under mLockMutex (remove() under *)
(* mLazyRemoval takes the same mutex in lockExclusive). A posted realWrite *)
(* holds a copy of the AsyncOpSP: it runs the write body (setReady), then  *)
(* syncAndResetLocker (lock mLockMutex, waitForCompletion, mLocker = ""),  *)
(* and drops its copy when the job returns. The store resolves an op's     *)
(* completions once the body has submitted them. Registry keys are uuids;  *)
(* the op numbers stand for their order in the std::map. updateBackLink   *)
(* starts a setInodeBacklinkAsync whose completion, inodeBackLinkCb, calls *)
(* setHasBackLink on the FileIO; that completion is not an AsyncOp and is  *)
(* not registered in mOperations.                                          *)
(***************************************************************************)
EXTENDS Naturals, FiniteSetsExt

CONSTANTS
    NumOps,         \* ops the owner may create
    Calls,          \* calls the owner makes before the destructor (valid ones)
    EraseOutcomes   \* what ++it yields after mOperations.erase(it)

Ops == 1..NumOps

\* Stages of the realWrite job of an op: no job, posted and not yet run,
\* setReady done, inside syncAndResetLocker holding mLockMutex, returned
\* but still holding its AsyncOpSP, and gone (the registry holds the last
\* reference); "unready" is the op of a writeSync that failed
\* verifyWriteParams: registered, never marked ready, held by no job.
Stages == {"none", "queued", "ready", "locked", "returned", "gone", "unready"}

\* Stages in which the job still reads or writes the FileIO object.
UsesFileIO == {"queued", "ready", "locked"}

VARIABLES
    reg,        \* the keys of OpsManager::mOperations
    wk,         \* [Ops -> Stages]: the realWrite job holding the op
    aio,        \* [Ops -> BOOLEAN]: the op's store completions resolved
    lockMutex,  \* holder of mLockMutex: 0 none, or the op whose job has it
    owner,      \* where the owner thread is
    todo,       \* keys the current loop over mOperations has still to visit
    nops,       \* ops created so far
    blinkCb     \* an inodeBackLinkCb completion is outstanding (at most one)

vars == <<reg, wk, aio, lockMutex, owner, todo, nops, blinkCb>>

Init ==
    /\ reg = {}
    /\ wk = [o \in Ops |-> "none"]
    /\ aio = [o \in Ops |-> FALSE]
    /\ lockMutex = 0
    /\ owner = "idle"
    /\ todo = {}
    /\ nops = 0
    /\ blinkCb = FALSE

\* AsyncOp::waitForCompletion returns: setReady was called and every
\* completion resolved.
Completed(o) == wk[o] \notin {"none", "queued", "unready"} /\ aio[o]

\* use_count() == 1: the registry holds the only reference.
Lone(o) == wk[o] \in {"gone", "unready"}

-----------------------------------------------------------------------------
(* The owner thread. *)

\* write(): addOperation(asyncOp), then post realWrite with a copy of it.
Write ==
    /\ owner = "idle" /\ "write" \in Calls /\ nops < NumOps
    /\ nops' = nops + 1
    /\ reg' = reg \cup {nops + 1}
    /\ wk' = [wk EXCEPT ![nops + 1] = "queued"]
    /\ UNCHANGED <<aio, lockMutex, owner, todo, blinkCb>>

\* writeSync(): addOperation, then realWrite in this thread: setReady and
\* syncAndResetLocker, which locks mLockMutex and waits for the op's
\* completions. The op stays registered with no other holder.
WriteSync ==
    /\ owner = "idle" /\ "writeSync" \in Calls /\ nops < NumOps
    /\ lockMutex = 0
    /\ nops' = nops + 1
    /\ reg' = reg \cup {nops + 1}
    /\ wk' = [wk EXCEPT ![nops + 1] = "gone"]
    /\ aio' = [aio EXCEPT ![nops + 1] = TRUE]
    /\ UNCHANGED <<lockMutex, owner, todo, blinkCb>>

\* writeSync() with a zero length or past the pool size: addOperation,
\* then verifyWriteParams fails and it returns, the op never set ready.
BadWriteSync ==
    /\ owner = "idle" /\ nops < NumOps
    /\ nops' = nops + 1
    /\ reg' = reg \cup {nops + 1}
    /\ wk' = [wk EXCEPT ![nops + 1] = "unready"]
    /\ UNCHANGED <<aio, lockMutex, owner, todo, blinkCb>>

\* sync() and sync(false) begin a loop over the keys of mOperations.
StartSync ==
    /\ owner = "idle" /\ "sync" \in Calls
    /\ owner' = "sync"
    /\ todo' = reg
    /\ UNCHANGED <<reg, wk, aio, lockMutex, nops, blinkCb>>

\* (Mutant: the loop erases the op but does not move on to oldIt, the key
\* saved before the erase.)
SyncStepNoAdvance ==
    /\ owner \in {"sync", "dtorSync"}
    /\ todo # {}
    /\ LET o == Min(todo) IN
          /\ Completed(o)
          /\ reg' = IF owner = "sync" THEN reg \ {o} ELSE reg
          /\ todo' = IF owner = "sync" THEN todo ELSE todo \ {o}
    /\ UNCHANGED <<wk, aio, lockMutex, owner, nops, blinkCb>>

\* One turn of that loop: wait for the op, then, when removeOps, erase it;
\* the next key was saved (oldIt) before the erase.
SyncStep ==
    /\ owner \in {"sync", "dtorSync"}
    /\ todo # {}
    /\ LET o == Min(todo) IN
          /\ Completed(o)
          /\ reg' = IF owner = "sync" THEN reg \ {o} ELSE reg
          /\ todo' = todo \ {o}
    /\ UNCHANGED <<wk, aio, lockMutex, owner, nops, blinkCb>>

\* The loop ends: sync() returns; in the destructor waitForLoneOps starts.
SyncEnd ==
    /\ owner \in {"sync", "dtorSync"}
    /\ todo = {}
    /\ owner' = IF owner = "sync" THEN "idle" ELSE "lone"
    /\ todo' = IF owner = "sync" THEN {} ELSE reg
    /\ UNCHANGED <<reg, wk, aio, lockMutex, nops, blinkCb>>

\* sync(opId): wait for that op and erase it.
SyncOp ==
    /\ owner = "idle" /\ "syncOp" \in Calls
    /\ \E o \in reg :
          /\ Completed(o)
          /\ reg' = reg \ {o}
    /\ UNCHANGED <<wk, aio, lockMutex, owner, todo, nops, blinkCb>>

\* The last FileIOSP is dropped: ~FileIO calls mOpManager.sync(false).
Destroy ==
    /\ owner = "idle"
    /\ owner' = "dtorSync"
    /\ todo' = reg
    /\ UNCHANGED <<reg, wk, aio, lockMutex, nops, blinkCb>>

\* One turn of waitForLoneOps' for loop. A lone op is erased and the
\* erased iterator advanced: undefined behaviour whose outcomes are the
\* next key, the end of the map, or a fault.
LoneStep ==
    /\ owner = "lone"
    /\ todo # {}
    /\ LET o == Min(todo) IN
          IF Lone(o)
          THEN /\ reg' = reg \ {o}
               /\ \E r \in EraseOutcomes :
                     /\ todo' = IF r = "next" THEN todo \ {o} ELSE {}
                     /\ owner' = IF r = "fault" THEN "fault" ELSE owner
          ELSE /\ todo' = todo \ {o}
               /\ UNCHANGED <<reg, owner>>
    /\ UNCHANGED <<wk, aio, lockMutex, nops, blinkCb>>

\* (Mutant: the next pass does not restart from mOperations.begin().)
LoneEndNoRescan ==
    /\ owner = "lone"
    /\ todo = {}
    /\ owner' = IF reg = {} THEN "unlock" ELSE "lone"
    /\ todo' = {}
    /\ UNCHANGED <<reg, wk, aio, lockMutex, nops, blinkCb>>

\* The for loop ends: numOps = mOperations.size(); sleep and loop again
\* while it is not zero.
LoneEnd ==
    /\ owner = "lone"
    /\ todo = {}
    /\ owner' = IF reg = {} THEN "unlock" ELSE "lone"
    /\ todo' = reg
    /\ UNCHANGED <<reg, wk, aio, lockMutex, nops, blinkCb>>

\* Last, under mLockMutex, unlockIfTimeIsOut (or lazy remove()); then the
\* object is freed.
DtorUnlock ==
    /\ owner = "unlock"
    /\ lockMutex = 0
    /\ owner' = "destroyed"
    /\ UNCHANGED <<reg, wk, aio, lockMutex, todo, nops, blinkCb>>

\* updateBackLink: setInodeBacklinkAsync with inodeBackLinkCb and this as
\* its argument; nothing is added to mOperations. One outstanding call at
\* a time bounds the model (a second one only repeats the first).
UpdateBackLink ==
    /\ owner = "idle" /\ "backlink" \in Calls
    /\ ~blinkCb
    /\ blinkCb' = TRUE
    /\ UNCHANGED <<reg, wk, aio, lockMutex, owner, todo, nops>>

-----------------------------------------------------------------------------
(* A realWrite job on the io_service, and the store. *)

\* The write body: chunk ops submitted, then setReady; or, when the inline
\* buffer takes the whole write or fails, setReady and return at once,
\* with no completion and no syncAndResetLocker.
RealWrite(o) ==
    /\ wk[o] = "queued"
    /\ \/ /\ wk' = [wk EXCEPT ![o] = "ready"]
          /\ UNCHANGED aio
       \/ /\ wk' = [wk EXCEPT ![o] = "returned"]
          /\ aio' = [aio EXCEPT ![o] = TRUE]
    /\ UNCHANGED <<reg, lockMutex, owner, todo, nops, blinkCb>>

\* syncAndResetLocker takes mLockMutex ...
LockTail(o) ==
    /\ wk[o] = "ready" /\ lockMutex = 0
    /\ lockMutex' = o
    /\ wk' = [wk EXCEPT ![o] = "locked"]
    /\ UNCHANGED <<reg, aio, owner, todo, nops, blinkCb>>

\* ... waits for the op's completions, clears mLocker and unlocks.
UnlockTail(o) ==
    /\ wk[o] = "locked" /\ aio[o]
    /\ lockMutex' = 0
    /\ wk' = [wk EXCEPT ![o] = "returned"]
    /\ UNCHANGED <<reg, aio, owner, todo, nops, blinkCb>>

\* The job returns and its copy of the AsyncOpSP is destroyed.
Release(o) ==
    /\ wk[o] = "returned"
    /\ wk' = [wk EXCEPT ![o] = "gone"]
    /\ UNCHANGED <<reg, aio, lockMutex, owner, todo, nops, blinkCb>>

\* The store resolves the op's chunk and size completions.
Resolve(o) ==
    /\ wk[o] \notin {"none", "queued", "unready"} /\ ~aio[o]
    /\ aio' = [aio EXCEPT ![o] = TRUE]
    /\ UNCHANGED <<reg, wk, lockMutex, owner, todo, nops, blinkCb>>

\* inodeBackLinkCb on a store thread: when the setxattr succeeded (0) or
\* was cancelled because the backlink was already set (-ECANCELED), it
\* calls io->setHasBackLink(true), which locks mHasBackLinkMutex of the
\* FileIO; then the completion is released. (No property reads the flag,
\* so only the callback's running is kept.)
BackLinkCb ==
    /\ blinkCb
    /\ blinkCb' = FALSE
    /\ UNCHANGED <<reg, wk, aio, lockMutex, owner, todo, nops>>

OwnerStep ==
    Write \/ WriteSync \/ StartSync \/ SyncStep \/ SyncEnd \/ SyncOp
      \/ Destroy \/ LoneStep \/ LoneEnd \/ DtorUnlock \/ UpdateBackLink

JobStep(o) ==
    RealWrite(o) \/ LockTail(o) \/ UnlockTail(o) \/ Release(o) \/ Resolve(o)

\* Everything has stopped: the object is freed and no job is left.
Quiescent ==
    /\ owner \in {"destroyed", "fault"}
    /\ \A o \in Ops : wk[o] \in {"none", "gone", "unready"}
    /\ ~blinkCb
    /\ UNCHANGED vars

Next == OwnerStep \/ (\E o \in Ops : JobStep(o)) \/ BackLinkCb \/ Quiescent

\* The io_service threads, the store (which answers every completion) and
\* the owner thread all keep running while they can.
Fairness == WF_vars(OwnerStep) /\ \A o \in Ops : WF_vars(JobStep(o))
              /\ WF_vars(BackLinkCb)

Spec == Init /\ [][Next]_vars /\ Fairness

\* An owner that may also call writeSync with invalid parameters.
SpecInvalidCalls == Init /\ [][Next \/ BadWriteSync]_vars /\ Fairness

-----------------------------------------------------------------------------
(* Properties. *)

TypeOK ==
    /\ reg \subseteq Ops
    /\ wk \in [Ops -> Stages]
    /\ aio \in [Ops -> BOOLEAN]
    /\ lockMutex \in Ops \cup {0}
    /\ owner \in {"idle", "sync", "dtorSync", "lone", "unlock", "destroyed", "fault"}
    /\ todo \subseteq reg
    /\ nops \in 0..NumOps
    /\ blinkCb \in BOOLEAN

\* Spec 8 (no dangling completions): once ~FileIO has returned, no realWrite
\* job still runs code of the freed FileIO (the write body, or
\* syncAndResetLocker's lock of mLockMutex and reset of mLocker) and no op
\* has completions left to fire, nor is an inodeBackLinkCb still to call
\* setHasBackLink on it. sync(false) and waitForLoneOps are what the
\* destructor relies on for this; they see only the ops in mOperations.
NoUseAfterDestroy ==
    owner = "destroyed" =>
        /\ \A o \in Ops : wk[o] \notin UsesFileIO /\ (wk[o] # "none" => aio[o])
        /\ ~blinkCb

\* Once the destructor has begun, it returns: sync(false) gets every
\* registered op completed and waitForLoneOps, however its erase-and-advance
\* ends a pass, empties the registry as the jobs drop their references.
DestructorReturns == owner = "dtorSync" ~> owner = "destroyed"

====
