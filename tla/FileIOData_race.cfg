\* Unawaited writes at offset 3, a truncate down to 4 and a read of chunk
\* 1, by either client: a write's chunk data can land before its size
\* update, and a truncate's size update lands before its chunk truncation.
CONSTANTS
    c1 = c1  c2 = c2  v1 = v1  v2 = v2
    Clients <- TwoClients
    MaxOps <- BudgetTwoOne
    ChunkSize = 3
    NumChunks = 2
    Vals <- OneVal
    WriteOffs = {3}
    WriteLens = {1, 2}
    TruncSizes = {4}
    ReadOffs = {3}
    ReadLens = {3}
    OpKinds = {"write", "truncate", "read"}
    AwaitWrites = FALSE
    Zero = Zero
    NoSize = NoSize
    Unset = Unset
    Aligned = FALSE
SPECIFICATION Spec
INVARIANT NoZeroFillUnderflow
