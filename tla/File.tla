-------------------------------- MODULE File --------------------------------
(***************************************************************************)
(* What a radosfs file promises its one user (spec 4 and 8): a sequence of *)
(* bytes that write, truncate and remove change at once, and a read that   *)
(* returns the bytes the file holds. A read that runs past the end may     *)
(* return the bytes before the end or fail; one within the file succeeds. *)
(* A byte written at position p by a write of value v is <<v, p>>.        *)
(***************************************************************************)
EXTENDS Integers, Sequences

CONSTANTS
    Vals,      \* values a write may carry
    PoolSize,  \* largest size a file may have
    Zero       \* the null byte

VARIABLES
    file,      \* Seq(bytes): the file's contents (<<>> once removed)
    reply      \* the last read: [kind, off, len, data]

vars == <<file, reply>>

Hi(a, b) == IF a > b THEN a ELSE b
Lo(a, b) == IF a < b THEN a ELSE b

\* file with the n bytes from off replaced, a gap zero-filled.
Overwrite(f, off, bytes) ==
    [i \in 1..Hi(Len(f), off + Len(bytes)) |->
        IF off < i /\ i <= off + Len(bytes) THEN bytes[i - off]
        ELSE IF i <= Len(f) THEN f[i] ELSE Zero]

\* The bytes of f in [off, off + len), fewer at the end.
Slice(f, off, len) == [i \in 1..Lo(len, Hi(Len(f) - off, 0)) |-> f[off + i]]

\* Results of a read of len bytes at off: none since the last one began,
\* an error, or bytes. The request is part of the result, so a read is
\* judged against the interval it asked for.
NoReply           == [kind |-> "none", off |-> 0, len |-> 0, data |-> <<>>]
Failed(off, len)  == [kind |-> "error", off |-> off, len |-> len, data |-> <<>>]
Bytes(off, len, d) == [kind |-> "data", off |-> off, len |-> len, data |-> d]

Init == file = <<>> /\ reply = NoReply

\* A step that changes nothing is a stutter step of Spec, so each action
\* below is stated for steps that change its variable.
Write ==
    /\ file' # file
    /\ UNCHANGED reply
    /\ \E v \in Vals, off \in 0..(PoolSize - 1), len \in 1..PoolSize :
          /\ off + len <= PoolSize
          /\ file' = Overwrite(file, off, [j \in 1..len |-> <<v, off + j - 1>>])

Truncate ==
    /\ file' # file
    /\ UNCHANGED reply
    /\ \E n \in 0..PoolSize :
          file' = [i \in 1..n |-> IF i <= Len(file) THEN file[i] ELSE Zero]

Remove == file' = <<>> /\ UNCHANGED reply

BeginRead == reply' = NoReply /\ UNCHANGED file

Read ==
    /\ reply = NoReply /\ reply' # NoReply
    /\ \E off \in 0..PoolSize, len \in 1..PoolSize :
          \/ reply' = Bytes(off, len, Slice(file, off, len))
          \/ off + len > Len(file) /\ reply' = Failed(off, len)
    /\ UNCHANGED file

Next == Write \/ Truncate \/ Remove \/ BeginRead \/ Read

Spec == Init /\ [][Next]_vars

====
