\* Two clients writing without waiting, their realWrites' ops submitted by
\* pool workers and applied in any order the store allows.
CONSTANTS
    c1 = c1  c2 = c2  v1 = v1  v2 = v2
    Clients <- TwoClients
    MaxOps <- BudgetTwoOne
    ChunkSize = 2
    NumChunks = 2
    Vals <- OneVal
    WriteOffs = {0, 1, 2}
    WriteLens = {1, 2, 3}
    TruncSizes = {}
    ReadOffs = {}
    ReadLens = {}
    OpKinds = {"write"}
    AwaitWrites = FALSE
    Zero = Zero
    NoSize = NoSize
    Unset = Unset
    Aligned = FALSE
SPECIFICATION Spec
 
INVARIANT StoreMatchesRef
