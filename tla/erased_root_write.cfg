\* Two requests on their own threads; a batch evicts the root a miss found.
CONSTANTS
    Readers = {r1, r2}
    Contexts = {c1, c2, c3}
    ReaderCtx <- MCCtxSeparate
    SubscriberCtx = c3
    Accounts = {a1, a2}
    Locations = {}
    CodeBytes = {code1}
    Keccak <- MCKeccak
    Vals = {x1}
    Empty = Empty
    NotCached = NotCached
    NoValue = NoValue
    MaxViews = 2
    MaxStateKeys = 1
    MaxCodeKeys = 1
    WithStorage = FALSE
    FirstView = 1
    MaxView = 3
    MaxBatchChanges = 1
    InitialDb <- MCInitialDb
    LossyStream = TRUE
    EmptyBatches = FALSE
    WarmStart = TRUE
    r1 = r1
    r2 = r2
    c1 = c1
    c2 = c2
    c3 = c3
    a1 = a1
    a2 = a2
    l1 = l1
    x1 = x1
    x2 = x2
    code1 = code1
    h1 = h1
SPECIFICATION Spec
INVARIANT NoWriteToErasedRoot
