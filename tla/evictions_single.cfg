\* One request at a time on its own thread, cold start, lossy stream with
\* empty batches, storage cached, one change per batch, one view kept.
CONSTANTS
    Readers = {r1}
    Contexts = {c1, c2}
    ReaderCtx <- MCCtxOne
    SubscriberCtx = c2
    Accounts = {a1}
    Locations = {l1}
    CodeBytes = {code1}
    Keccak <- MCKeccak
    Vals = {x1}
    Empty = Empty
    NotCached = NotCached
    NoValue = NoValue
    MaxViews = 1
    MaxStateKeys = 1
    MaxCodeKeys = 1
    WithStorage = TRUE
    FirstView = 1
    MaxView = 4
    MaxBatchChanges = 1
    InitialDb <- MCInitialDb
    LossyStream = TRUE
    EmptyBatches = TRUE
    WarmStart = FALSE
    r1 = r1
    r2 = r2
    c1 = c1
    c2 = c2
    c3 = c3
    a1 = a1
    a2 = a2
    l1 = l1
    x1 = x1
    x2 = x2
    code1 = code1
    h1 = h1
SPECIFICATION Spec
INVARIANT EvictionsMatchLatest
