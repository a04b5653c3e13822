\* One client that awaits each call: writes, truncates to sizes that are
\* not positive multiples of the chunk size, removes and reads, checked
\* against the file the calls describe.
CONSTANTS
    c1 = c1  c2 = c2  v1 = v1  v2 = v2
    Clients <- OneClient
    MaxOps <- BudgetFour
    ChunkSize = 2
    NumChunks = 3
    Vals <- TwoVals
    WriteOffs = {0, 1, 3}
    WriteLens = {1, 2, 3}
    TruncSizes = {0, 1, 3, 5}
    ReadOffs = {0, 1, 3}
    ReadLens = {1, 3}
    OpKinds = {"write", "truncate", "remove", "read"}
    AwaitWrites = TRUE
    Zero = Zero
    NoSize = NoSize
    Unset = Unset
    Aligned = FALSE
SPECIFICATION Spec
INVARIANT TypeOK
INVARIANT PositionsKept
INVARIANT SizeMatchesImage
INVARIANT ReadMatchesRef
PROPERTY FileRefined
