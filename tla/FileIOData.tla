----------------------------- MODULE FileIOData -----------------------------
(***************************************************************************)
(* The data path of radosfs FileIO (src/src/FileIO.cc): what realWrite,    *)
(* truncate, remove and read do to the chunk objects and to the size      *)
(* xattr of the inode, with the store applying each client's asynchronous *)
(* operations in any order across objects and in submission order on one  *)
(* object. Chunk k of the file is object k; object 0 is the inode and     *)
(* holds the size xattr. The advisory lock is modelled in FileIO.tla;     *)
(* here the clients' data operations interleave as the store allows.      *)
(*                                                                         *)
(* A byte written at file position p by a write of value v is <<v, p>>, so *)
(* a byte put at the wrong place is told apart from the right one.        *)
(***************************************************************************)
EXTENDS Integers, Sequences, FiniteSets

CONSTANTS
    Clients,     \* Filesystem instances, one FileIO each on the inode
    MaxOps,      \* [Clients -> Nat]: operations each client starts
    ChunkSize,   \* mChunkSize
    NumChunks,   \* chunk objects the pool size allows (mPool->size = ChunkSize * NumChunks)
    Vals,        \* values a write may carry
    WriteOffs,   \* offsets a write may start at
    WriteLens,   \* lengths a write may have (all > 0: verifyWriteParams)
    TruncSizes,  \* sizes truncate may be given
    ReadOffs,    \* offsets a read may start at
    ReadLens,    \* lengths a read may have (all > 0: read rejects 0)
    OpKinds,     \* subset of {"write", "truncate", "remove", "read"}
    AwaitWrites, \* TRUE: a client waits for each write before its next call
    Aligned,     \* mPool->hasAlignment(): chunks are rewritten whole
    Zero,        \* the null byte
    NoSize,      \* the size xattr is absent
    Unset        \* a byte of a read buffer nothing was copied to

ASSUME /\ ChunkSize \in Nat \ {0} /\ NumChunks \in Nat \ {0}
       /\ MaxOps \in [Clients -> Nat]
       /\ WriteLens \subseteq Nat \ {0} /\ ReadLens \subseteq Nat \ {0}
       /\ OpKinds \subseteq {"write", "truncate", "remove", "read"}
       /\ Aligned \in BOOLEAN

PoolSize == ChunkSize * NumChunks
Chunks   == 0..(NumChunks - 1)
Bytes    == (Vals \X (0..(PoolSize - 1))) \cup {Zero}

SE == INSTANCE SequencesExt

MinOf(a, b) == IF a < b THEN a ELSE b
MaxOf(a, b) == IF a > b THEN a ELSE b

\* The caller's buffer of a write of value v at offset off.
Buffer(v, off, len) == [j \in 1..len |-> <<v, off + j - 1>>]

-----------------------------------------------------------------------------
(* Object data as the store keeps it.                                     *)

\* ObjectWriteOperation::write: the bytes at offset o, a gap zero-filled.
WriteAt(d, o, b) ==
    [i \in 1..MaxOf(Len(d), o + Len(b)) |->
        IF o < i /\ i <= o + Len(b) THEN b[i - o]
        ELSE IF i <= Len(d) THEN d[i] ELSE Zero]

\* ObjectWriteOperation::truncate: cut, or extend with zeros, to n bytes.
TruncTo(d, n) == [i \in 1..n |-> IF i <= Len(d) THEN d[i] ELSE Zero]

\* ObjectReadOperation::read(o, l): at most l bytes from o, fewer at the end.
ReadAt(d, o, l) == [i \in 1..MinOf(l, MaxOf(Len(d) - o, 0)) |-> d[o + i]]

Zeros(n) == [i \in 1..n |-> Zero]

\* std::string::replace(pos, n, str), pos within the string.
Replace(d, pos, n, str) == SubSeq(d, 1, pos) \o str \o SubSeq(d, pos + n + 1, Len(d))

VARIABLES
    obj,       \* [Chunks -> Seq(Bytes)]: contents of each chunk object
    exists,    \* SUBSET Chunks: the chunk objects that exist
    sizeX,     \* XATTR_FILE_SIZE on the inode object, or NoSize
    inflight,  \* [Clients -> Seq(op)]: submitted, not yet applied store ops
    pc,        \* [Clients -> {"idle", "wait", "read", "fault"}]
    nops,      \* [Clients -> Nat]: operations started
    rd,        \* [Clients -> read state]: the scalar read in progress
    jobs,      \* [Clients -> Seq(Seq(op))]: posted realWrites, ops not yet submitted
    ref        \* Seq(Bytes): the file the operations, in call order, describe

vars == <<obj, exists, sizeX, inflight, pc, nops, rd, jobs, ref>>

Op(o, k, off, data, n) == [obj |-> o, kind |-> k, off |-> off, data |-> data, n |-> n]

\* getSize on a store s: the size xattr, 0 when it or the inode is missing.
GetSizeOf(s) == IF 0 \in s.exists /\ s.sizeX # NoSize THEN s.sizeX ELSE 0
GetSize == GetSizeOf([exists |-> exists, sizeX |-> sizeX])

\* getLastChunkIndexAndSize succeeds only if the inode and the xattr exist
\* (else -ENOENT / -ENODATA) and gives (size > 0) ? (size - 1) / CS : 0.
SizeQueryOK == 0 \in exists /\ sizeX # NoSize
LastChunkIndex(s) == IF s > 0 THEN (s - 1) \div ChunkSize ELSE 0

-----------------------------------------------------------------------------
(* The store applies one op.                                              *)

\* The store as one record, and each op as a function of it.
Store == [obj |-> obj, exists |-> exists, sizeX |-> sizeX]

\* Mutant: setxattr without the cmpxattr guard.
ApplySizeGTPlain(s, n) == [s EXCEPT !.sizeX = n, !.exists = @ \cup {0}]

\* setSizeIfBigger's op: setxattr guarded by cmpxattr GT, aborted whole
\* unless the new size is greater; setxattr creates the inode object.
ApplySizeGT(s, n) ==
    [s EXCEPT !.sizeX = IF @ = NoSize \/ 0 \notin s.exists \/ n > @ THEN n ELSE @,
              !.exists = @ \cup {0}]

ApplyWrite(s, o, off, data) ==
    [s EXCEPT !.obj[o] = WriteAt(IF o \in s.exists THEN @ ELSE <<>>, off, data),
              !.exists = @ \cup {o}]

\* truncate with assert_exists: fails, changing nothing, if o is absent.
ApplyTrunc(s, o, n) ==
    IF o \in s.exists THEN [s EXCEPT !.obj[o] = TruncTo(@, n)] ELSE s

\* remove: the object with its xattrs (the size, for the inode object).
ApplyRemove(s, o) ==
    [s EXCEPT !.obj[o] = <<>>, !.exists = @ \ {o},
              !.sizeX = IF o = 0 THEN NoSize ELSE @]

\* setAlignedChunkWriteOp's buffer: the chunk as read (0..mChunkSize), or,
\* when the read returned nothing and newContents is not a whole chunk,
\* mChunkSize null chars; newContents then replaces its bytes at offset.
\* (replace throws if offset is past the buffer: SubSeq fails likewise.)
AlignedContents(s, o, offset, newContents) ==
    LET contentsBl == IF o \in s.exists THEN ReadAt(s.obj[o], 0, ChunkSize) ELSE <<>>
        contents   == IF Len(contentsBl) > 0 THEN contentsBl
                      ELSE IF Len(newContents) # ChunkSize THEN Zeros(ChunkSize)
                      ELSE <<>>
    IN Replace(contents, offset, Len(newContents), newContents)

\* The op setAlignedChunkWriteOp builds from what it read in store s:
\* remove (OP_FAILOK), create, setxattr of every xattr read (of the
\* inode: the size as read), append of the buffer.
PutOp(s, o, offset, newContents) ==
    Op(o, "put", 0, AlignedContents(s, o, offset, newContents), s.sizeX)

ApplyPut(s, o, data, x) ==
    [s EXCEPT !.obj[o] = data, !.exists = @ \cup {o},
              !.sizeX = IF o = 0 THEN x ELSE @]

\* An "rmw" op is a chunk write on an aligned pool whose read has not yet
\* been made: applied at once, it reads and puts in one step.
ApplyOp(s, op) ==
    CASE op.kind = "sizegt" -> ApplySizeGT(s, op.n)
      [] op.kind = "write"  -> ApplyWrite(s, op.obj, op.off, op.data)
      [] op.kind = "trunc"  -> ApplyTrunc(s, op.obj, op.n)
      [] op.kind = "remove" -> ApplyRemove(s, op.obj)
      [] op.kind = "put"    -> ApplyPut(s, op.obj, op.data, op.n)
      [] op.kind = "rmw"    -> LET p == PutOp(s, op.obj, op.off, op.data)
                               IN ApplyPut(s, op.obj, p.data, p.n)

\* The store completes op i of client c: no earlier op of c is on the
\* same object (librados keeps one client's ops on an object in order).
Apply(c) ==
    \E i \in 1..Len(inflight[c]) :
        LET s == ApplyOp(Store, inflight[c][i]) IN
        /\ \A j \in 1..(i - 1) : inflight[c][j].obj # inflight[c][i].obj
        /\ obj' = s.obj /\ exists' = s.exists /\ sizeX' = s.sizeX
        /\ inflight' = [inflight EXCEPT ![c] =
                          SubSeq(@, 1, i - 1) \o SubSeq(@, i + 1, Len(@))]
        /\ UNCHANGED <<pc, nops, rd, jobs, ref>>

-----------------------------------------------------------------------------
(* The client calls. Each starts with the operation budget left.          *)

Init ==
    /\ obj = [i \in Chunks |-> <<>>]
    /\ exists = {}
    /\ sizeX = NoSize
    /\ inflight = [c \in Clients |-> <<>>]
    /\ pc = [c \in Clients |-> "idle"]
    /\ nops = [c \in Clients |-> 0]
    /\ rd = [c \in Clients |-> [off |-> 0, len |-> 0, pend |-> {}, arrived |-> {},
                                buf |-> <<>>, ret |-> 0, err |-> FALSE, isize |-> -1]]
    /\ jobs = [c \in Clients |-> <<>>]
    /\ ref = <<>>

Start(c, k) == /\ k \in OpKinds
               /\ pc[c] = "idle" /\ nops[c] < MaxOps[c]
               /\ nops' = [nops EXCEPT ![c] = @ + 1]

\* OpsManager::sync at the head of read, truncate and remove: every op of
\* the client, posted or submitted, has completed.
Synced(c) == jobs[c] = <<>> /\ inflight[c] = <<>>

\* The op of one chunk in realWrite's loop: a read-modify-write of the
\* whole chunk on an aligned pool, else a plain write at currentOffset.
ChunkOp(chunk, currentOffset, contents) ==
    Op(chunk, IF Aligned THEN "rmw" ELSE "write", currentOffset, contents, 0)

\* Mutant: length not clamped to the room left in the chunk.
RECURSIVE ChunkWritesNoClamp(_, _, _, _, _)
ChunkWritesNoClamp(buff, chunk, n, currentOffset, bytesToWrite) ==
    IF n = 0 THEN <<>>
    ELSE LET from == Len(buff) - bytesToWrite
         IN << ChunkOp(chunk, currentOffset,
                       SubSeq(buff, from + 1, from + bytesToWrite)) >>
            \o ChunkWritesNoClamp(buff, chunk + 1, n - 1, 0, 0)

\* Mutant: currentOffset not reset to 0 after the first chunk.
RECURSIVE ChunkWritesKeepOffset(_, _, _, _, _)
ChunkWritesKeepOffset(buff, chunk, n, currentOffset, bytesToWrite) ==
    IF n = 0 THEN <<>>
    ELSE LET length == MinOf(ChunkSize - currentOffset, bytesToWrite)
             from   == Len(buff) - bytesToWrite
         IN << ChunkOp(chunk, currentOffset,
                       SubSeq(buff, from + 1, from + length)) >>
            \o ChunkWritesKeepOffset(buff, chunk + 1, n - 1, currentOffset,
                                     bytesToWrite - length)

\* realWrite's chunk loop: chunk `chunk`, currentOffset, bytesToWrite left.
RECURSIVE ChunkWrites(_, _, _, _, _)
ChunkWrites(buff, chunk, n, currentOffset, bytesToWrite) ==
    IF n = 0 THEN <<>>
    ELSE LET length == MinOf(ChunkSize - currentOffset, bytesToWrite)
             from   == Len(buff) - bytesToWrite
         IN << ChunkOp(chunk, currentOffset,
                       SubSeq(buff, from + 1, from + length)) >>
            \o ChunkWrites(buff, chunk + 1, n - 1, 0, bytesToWrite - length)

\* realWrite with no inline buffer: setSizeIfBigger on the inode, then
\* one op per chunk from the first to the last.
RealWriteOps(buff, offset) ==
    LET blen       == Len(buff)
        firstChunk == offset \div ChunkSize
        lastChunk  == (offset + blen - 1) \div ChunkSize
    IN << Op(0, "sizegt", 0, <<>>, offset + blen) >>
       \o ChunkWrites(buff, firstChunk, lastChunk - firstChunk + 1,
                      offset % ChunkSize, blen)

\* write: verifyWriteParams, then realWrite posted to the worker pool.
\* With AwaitWrites the caller then waits on the op (sync(opId)).
Write(c) ==
    /\ Start(c, "write")
    /\ \E v \in Vals, off \in WriteOffs, len \in WriteLens :
          /\ off + len <= PoolSize
          /\ jobs' = [jobs EXCEPT ![c] = Append(@, RealWriteOps(Buffer(v, off, len), off))]
          /\ ref' = WriteAt(ref, off, Buffer(v, off, len))
    /\ pc' = [pc EXCEPT ![c] = IF AwaitWrites THEN "wait" ELSE "idle"]
    /\ UNCHANGED <<obj, exists, sizeX, inflight, rd>>

\* Mutant: the chunk read not ordered after the client's pending ops.
PrepareAlignedUnordered(c) ==
    \E j \in 1..Len(jobs[c]) :
        LET op == Head(jobs[c][j]) IN
        /\ op.kind = "rmw"
        /\ jobs' = [jobs EXCEPT ![c][j][1] = PutOp(Store, op.obj, op.off, op.data)]
        /\ UNCHANGED <<obj, exists, sizeX, inflight, pc, nops, rd, ref>>

\* A pool worker running realWrite on an aligned pool builds the op of
\* the next chunk of job j: setAlignedChunkWriteOp's synchronous read
\* (operate) comes after the client's ops on that chunk already submitted
\* (librados keeps them in order), and yields the put it submits next.
PrepareAligned(c) ==
    \E j \in 1..Len(jobs[c]) :
        LET op == Head(jobs[c][j]) IN
        /\ op.kind = "rmw"
        /\ \A i \in 1..Len(inflight[c]) : inflight[c][i].obj # op.obj
        /\ jobs' = [jobs EXCEPT ![c][j][1] = PutOp(Store, op.obj, op.off, op.data)]
        /\ UNCHANGED <<obj, exists, sizeX, inflight, pc, nops, rd, ref>>

\* A pool worker running realWrite submits the next op of job j.
Submit(c) ==
    \E j \in 1..Len(jobs[c]) :
        /\ Head(jobs[c][j]).kind # "rmw"
        /\ inflight' = [inflight EXCEPT ![c] = Append(@, Head(jobs[c][j]))]
        /\ jobs' = [jobs EXCEPT ![c] =
                      IF Len(@[j]) = 1 THEN SubSeq(@, 1, j - 1) \o SubSeq(@, j + 1, Len(@))
                      ELSE [@ EXCEPT ![j] = Tail(@)]]
        /\ UNCHANGED <<obj, exists, sizeX, pc, nops, rd, ref>>

\* Mutant: the new last chunk truncated whatever the pool.
TruncateOpsPlain(newLastChunk, totalChunks, newLastChunkSize, s) ==
    [k \in 1..totalChunks |->
        LET i == totalChunks - k
        IN IF i > 0 THEN Op(newLastChunk + i, "remove", 0, <<>>, 0)
           ELSE Op(newLastChunk, "trunc", 0, <<>>, newLastChunkSize)]

TruncateOps(newLastChunk, totalChunks, newLastChunkSize, s) ==
    [k \in 1..totalChunks |->
        LET i == totalChunks - k
        IN IF i > 0 THEN Op(newLastChunk + i, "remove", 0, <<>>, 0)
           ELSE IF Aligned
                THEN PutOp(s, newLastChunk, newLastChunkSize,
                           Zeros(ChunkSize - newLastChunkSize))
                ELSE Op(newLastChunk, "trunc", 0, <<>>, newLastChunkSize)]

\* truncate. The size query fails with -ENOENT or -ENODATA
\* when the inode or its xattr is missing: lastChunk is then 0 and
\* currentSize is read uninitialized, so truncateDown may be either. The
\* size_t totalChunks, read back as the ssize_t i, runs no iteration when
\* lastChunk - newLastChunk + 1 <= 0. setSize is synchronous.
Truncate(c) ==
    /\ Start(c, "truncate")
    /\ Synced(c)
    /\ \E newSize \in TruncSizes, garbage \in BOOLEAN :
        LET lastChunk    == IF SizeQueryOK THEN LastChunkIndex(sizeX) ELSE 0
            truncateDown == IF SizeQueryOK THEN sizeX > newSize ELSE garbage
            nlc0         == IF newSize = 0 THEN 0 ELSE (newSize - 1) \div ChunkSize
            newLastChunk == IF nlc0 = 0 /\ newSize > ChunkSize THEN ChunkSize ELSE nlc0
            totalChunks  == IF truncateDown THEN MaxOf(lastChunk - newLastChunk + 1, 0) ELSE 1
        IN /\ newSize <= PoolSize
           /\ garbage => ~SizeQueryOK
           /\ exists' = exists \cup {0}
           /\ sizeX' = newSize
           /\ inflight' = [inflight EXCEPT ![c] =
                 TruncateOps(newLastChunk, totalChunks, newSize % ChunkSize,
                             [obj |-> obj, exists |-> exists \cup {0}, sizeX |-> newSize])]
           /\ ref' = TruncTo(ref, newSize)
    /\ pc' = [pc EXCEPT ![c] = "wait"]
    /\ UNCHANGED <<obj, rd, jobs>>

\* remove: fails if the size query does; else removes chunks 0..lastChunk.
Remove(c) ==
    /\ Start(c, "remove")
    /\ Synced(c)
    /\ IF SizeQueryOK
       THEN /\ inflight' = [inflight EXCEPT ![c] =
                 [k \in 1..(LastChunkIndex(sizeX) + 1) |-> Op(k - 1, "remove", 0, <<>>, 0)]]
            /\ pc' = [pc EXCEPT ![c] = "wait"]
            /\ ref' = <<>>
       ELSE UNCHANGED <<inflight, pc, ref>>
    /\ UNCHANGED <<obj, exists, sizeX, rd, jobs>>

\* syncAndResetLocker / sync(opId): the call returns once its ops are done.
Done(c) ==
    /\ pc[c] = "wait"
    /\ Synced(c)
    /\ pc' = [pc EXCEPT ![c] = "idle"]
    /\ UNCHANGED <<obj, exists, sizeX, inflight, nops, rd, jobs, ref>>

-----------------------------------------------------------------------------
(* The scalar read: read(buff, offset, blen) -> read(intervals) -> sync.  *)

\* getReadDataPerChunk: the interval split into one request per chunk;
\* `at` is where in the caller's buffer the request's bytes go.
RECURSIVE PerChunk(_, _, _, _)
PerChunk(chunkIndex, localOffset, originalLength, remainingLength) ==
    IF remainingLength = 0 THEN {}
    ELSE LET length == MinOf(ChunkSize - localOffset, remainingLength)
         IN {[chunk |-> chunkIndex, off |-> localOffset, len |-> length,
              at |-> originalLength - remainingLength]}
            \cup PerChunk(chunkIndex + 1, 0, originalLength, remainingLength - length)

\* read: sync, reject blen = 0, then one aio read per chunk (vectorReadChunk).
ReadStart(c) ==
    /\ Start(c, "read")
    /\ Synced(c)
    /\ \E off \in ReadOffs, len \in ReadLens :
          rd' = [rd EXCEPT ![c] = [off |-> off, len |-> len,
                    pend |-> PerChunk(off \div ChunkSize, off % ChunkSize, len, len),
                    arrived |-> {}, buf |-> [j \in 1..len |-> Unset],
                    ret |-> 0, err |-> FALSE, isize |-> -1]]
    /\ pc' = [pc EXCEPT ![c] = "read"]
    /\ UNCHANGED <<obj, exists, sizeX, inflight, jobs, ref>>

\* (Mutant: the chunk read ignores the offset within the chunk.)
ReadChunkNoOffset(c) ==
    /\ pc[c] = "read"
    /\ \E q \in rd[c].pend :
          rd' = [rd EXCEPT ![c].pend = @ \ {q},
                           ![c].arrived = @ \cup
                              {[q |-> q, found |-> q.chunk \in exists,
                                got |-> IF q.chunk \in exists
                                        THEN ReadAt(obj[q.chunk], 0, q.len)
                                        ELSE <<>>]}]
    /\ UNCHANGED <<obj, exists, sizeX, inflight, pc, nops, jobs, ref>>

\* The store serves one chunk read: -ENOENT if the chunk object is absent.
ReadChunk(c) ==
    /\ pc[c] = "read"
    /\ \E q \in rd[c].pend :
          rd' = [rd EXCEPT ![c].pend = @ \ {q},
                           ![c].arrived = @ \cup
                              {[q |-> q, found |-> q.chunk \in exists,
                                got |-> IF q.chunk \in exists
                                        THEN ReadAt(obj[q.chunk], q.off, q.len)
                                        ELSE <<>>]}]
    /\ UNCHANGED <<obj, exists, sizeX, inflight, pc, nops, jobs, ref>>

\* The caller's buffer after a completion: the bytes read at `at`, then
\* `fill` null chars (assignRemainingReadData).
Copied(buf, at, got, fill) ==
    [j \in DOMAIN buf |->
        IF at < j /\ j <= at + Len(got) THEN got[j - at]
        ELSE IF at + Len(got) < j /\ j <= at + Len(got) + fill THEN Zero
        ELSE buf[j]]

\* Mutant: the zero-fill length not reduced by the bytes already read.
OnReadCompletedFillAll(c) ==
    /\ pc[c] = "read"
    /\ \E a \in rd[c].arrived :
        LET q          == a.q
            short      == Len(a.got) < q.len
            inodeSize  == IF rd[c].isize = -1 THEN GetSize ELSE rd[c].isize
            byteOffset == q.chunk * ChunkSize + q.off
            fills      == short /\ inodeSize > 0 /\ byteOffset < inodeSize
            fill       == IF fills THEN MinOf(q.len, inodeSize - byteOffset) ELSE 0
        IN /\ rd' = [rd EXCEPT ![c].arrived = @ \ {a},
                        ![c].isize = IF short THEN inodeSize ELSE @,
                        ![c].err = @ \/ (~a.found /\ inodeSize < byteOffset + q.len),
                        ![c].buf = Copied(@, q.at, a.got, fill),
                        ![c].ret = @ + Len(a.got) + fill]
           /\ UNCHANGED pc
    /\ UNCHANGED <<obj, exists, sizeX, inflight, nops, jobs, ref>>

\* onReadCompleted. A short read takes the inode size (assignInodeSize:
\* getSize now, once per read), overrides -ENOENT when the size covers the
\* request, and zero-fills min(length, size - byteOffset) - bytes read,
\* a size_t: when negative, memset runs off the buffer (pc "fault").
OnReadCompleted(c) ==
    /\ pc[c] = "read"
    /\ \E a \in rd[c].arrived :
        LET q          == a.q
            short      == Len(a.got) < q.len
            inodeSize  == IF rd[c].isize = -1 THEN GetSize ELSE rd[c].isize
            byteOffset == q.chunk * ChunkSize + q.off
            fills      == short /\ inodeSize > 0 /\ byteOffset < inodeSize
            fill       == IF fills THEN MinOf(q.len, inodeSize - byteOffset) - Len(a.got)
                          ELSE 0
        IN /\ rd' = [rd EXCEPT ![c].arrived = @ \ {a},
                        ![c].isize = IF short THEN inodeSize ELSE @,
                        ![c].err = @ \/ (~a.found /\ inodeSize < byteOffset + q.len),
                        ![c].buf = Copied(@, q.at, a.got, MaxOf(fill, 0)),
                        ![c].ret = @ + Len(a.got) + MaxOf(fill, 0)]
           /\ pc' = [pc EXCEPT ![c] = IF fill < 0 THEN "fault" ELSE "read"]
    /\ UNCHANGED <<obj, exists, sizeX, inflight, nops, jobs, ref>>

\* sync(opId) returns: the error of a failed chunk read, else opRet.
ReadDone(c) ==
    /\ pc[c] = "read"
    /\ rd[c].pend = {} /\ rd[c].arrived = {}
    /\ pc' = [pc EXCEPT ![c] = "idle"]
    /\ UNCHANGED <<obj, exists, sizeX, inflight, nops, rd, jobs, ref>>

\* Every client has made its calls and the store has applied every op.
Finished ==
    /\ \A c \in Clients : pc[c] = "idle" /\ nops[c] = MaxOps[c] /\ Synced(c)
    /\ UNCHANGED vars

Next ==
    \/ \E c \in Clients :
          \/ Write(c) \/ PrepareAligned(c) \/ Submit(c) \/ Apply(c) \/ Truncate(c) \/ Remove(c)
          \/ Done(c) \/ ReadStart(c) \/ ReadChunk(c) \/ OnReadCompleted(c)
          \/ ReadDone(c)
    \/ Finished

Spec == Init /\ [][Next]_vars

-----------------------------------------------------------------------------
(* Properties.                                                            *)

OpRec == [obj: Chunks, kind: {"sizegt", "write", "trunc", "remove", "put", "rmw"},
          off: 0..ChunkSize, data: Seq(Bytes), n: 0..PoolSize \cup {NoSize}]

\* Each chunk object holds at most mChunkSize bytes, an absent one none;
\* the rest of the state has its type.
TypeOK ==
    /\ \A i \in Chunks : obj[i] \in Seq(Bytes) /\ Len(obj[i]) <= ChunkSize
    /\ \A i \in Chunks \ exists : obj[i] = <<>>
    /\ exists \subseteq Chunks
    /\ sizeX \in 0..PoolSize \cup {NoSize}
    /\ inflight \in [Clients -> Seq(OpRec)]
    /\ jobs \in [Clients -> Seq(Seq(OpRec))]
    /\ pc \in [Clients -> {"idle", "wait", "read", "fault"}]
    /\ \A c \in Clients : nops[c] \in 0..MaxOps[c]

\* realWrite's slicing of the caller's buffer: whatever order the store
\* applies the chunk writes of any number of writers in, every stored byte
\* that is not a null char sits at the file position it was written for.
PositionsKept ==
    \A i \in exists : \A j \in 1..Len(obj[i]) :
        obj[i][j] = Zero \/ obj[i][j][2] = i * ChunkSize + j - 1

\* Once every op has been applied, the size xattr getSize reports is the
\* length of the file the calls describe: setSizeIfBigger's compare-and-set
\* never lets a late smaller size win, and truncate and remove set it.
SizeMatchesImage ==
    (\A c \in Clients : Synced(c)) => GetSize = Len(ref)

\* A scalar read that is done returns what the calls so far describe: no
\* error for bytes within the file, and, when no error, ret is the number
\* of bytes before the end and the buffer holds them (spec 8: round-trip,
\* zero-hole, truncate keeping the base chunk).
ReadMatchesRef ==
    \A c \in Clients :
        (pc[c] = "read" /\ rd[c].pend = {} /\ rd[c].arrived = {}) =>
            LET r   == rd[c]
                exp == ReadAt(ref, r.off, r.len)
            IN /\ r.off + r.len <= Len(ref) => ~r.err
               /\ ~r.err => /\ r.ret = Len(exp)
                            /\ \A j \in 1..Len(exp) : r.buf[j] = exp[j]

\* On an aligned pool every chunk object realWrite and truncate leave is a
\* whole chunk (the PoolAlignment test; makeChunkReadOp relies on it), the
\* inode excepted while setSizeIfBigger or setSize alone created it: the
\* read-modify-write zero-fills a chunk it finds empty, so std::string
\* replace never starts past the buffer.
AlignedChunksWhole ==
    Aligned => \A i \in exists : Len(obj[i]) = ChunkSize \/ (i = 0 /\ obj[i] = <<>>)

\* onReadCompleted never computes a negative zero-fill length: the inode
\* size it reads is never smaller than the data the chunk read returned.
NoZeroFillUnderflow == \A c \in Clients : pc[c] # "fault"

-----------------------------------------------------------------------------
(* Refinement: with one client that awaits each call, every call is one  *)
(* atomic step of File. The file is the one the store will hold once the *)
(* client's submitted and posted ops are applied: the size getSize gives *)
(* and, below it, the chunks' bytes, null where a chunk is short.        *)

Owner == CHOOSE c \in Clients : TRUE

\* s with the ops applied in order.
ApplyAll(s, ops) ==
    LET after[i \in 0..Len(ops)] == IF i = 0 THEN s ELSE ApplyOp(after[i - 1], ops[i])
    IN after[Len(ops)]

Eventual(c) == ApplyAll(Store, inflight[c] \o SE!FlattenSeq(jobs[c]))

\* (Image ranges over {s} so that s, the fold of every pending op, is
\* evaluated once rather than at each position.)
Logical(s) ==
    LET Image[st \in {s}] ==
            [p \in 1..GetSizeOf(st) |->
                LET i == (p - 1) \div ChunkSize
                    j == ((p - 1) % ChunkSize) + 1
                IN IF i \in st.exists /\ j <= Len(st.obj[i]) THEN st.obj[i][j] ELSE Zero]
    IN Image[s]

\* Once every op of every client has been applied, the chunk objects and
\* the size xattr hold the file the calls describe: no write's bytes are
\* lost to another's, whatever the order the workers submitted the ops in
\* and the store applied them (with one value, overlapping writes agree).
StoreMatchesRef == (\A c \in Clients : Synced(c)) => Logical(Store) = ref

\* What the last scalar read asked for and returned: its error or its
\* opRet bytes.
Reply(c) ==
    LET r == rd[c] IN
    IF pc[c] = "read" \/ r.len = 0
      THEN [kind |-> "none", off |-> 0, len |-> 0, data |-> <<>>]
    ELSE [kind |-> IF r.err THEN "error" ELSE "data", off |-> r.off, len |-> r.len,
          data |-> IF r.err THEN <<>> ELSE SubSeq(r.buf, 1, r.ret)]

AbsFile == INSTANCE File WITH file <- Logical(Eventual(Owner)),
                              reply <- Reply(Owner)

\* FileIO implements File for one client awaiting its calls: realWrite's
\* size and chunk ops, truncate's setSize and chunk ops and remove's chunk
\* removals, applied by the store in any per-object order, change the file
\* as one write, truncate or remove would, and a read returns the bytes of
\* the interval it asked for, or fails only when that runs past the end.
FileRefined == AbsFile!Spec

====
