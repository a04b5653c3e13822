\* One client on an aligned pool writing twice into one chunk without
\* waiting: the pool workers run both realWrites.
CONSTANTS
    c1 = c1  c2 = c2  v1 = v1  v2 = v2
    Clients <- OneClient
    MaxOps <- BudgetTwo
    ChunkSize = 2
    NumChunks = 1
    Vals <- OneVal
    WriteOffs = {0, 1}
    WriteLens = {1}
    TruncSizes = {}
    ReadOffs = {}
    ReadLens = {}
    OpKinds = {"write"}
    AwaitWrites = FALSE
    Zero = Zero
    NoSize = NoSize
    Unset = Unset
    Aligned = TRUE
SPECIFICATION Spec
INVARIANT StoreMatchesRef
