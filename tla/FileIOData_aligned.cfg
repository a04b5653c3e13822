\* One client on an aligned pool awaiting each call: writes, truncates and
\* removes, every chunk write a read-modify-write of the whole chunk.
CONSTANTS
    c1 = c1  c2 = c2  v1 = v1  v2 = v2
    Clients <- OneClient
    MaxOps <- BudgetFour
    ChunkSize = 2
    NumChunks = 3
    Vals <- OneVal
    WriteOffs = {0, 1, 3}
    WriteLens = {1, 2, 3}
    TruncSizes = {0, 1, 3, 5}
    ReadOffs = {}
    ReadLens = {}
    OpKinds = {"write", "truncate", "remove"}
    AwaitWrites = TRUE
    Zero = Zero
    NoSize = NoSize
    Unset = Unset
    Aligned = TRUE
SPECIFICATION Spec
INVARIANT AlignedChunksWhole
INVARIANT StoreMatchesRef
 
