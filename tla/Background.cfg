\* Two endpoint calls over imports that are claimed, moved and removed; two
\* versions of each of the verifier's documents, two restarts, a TTL longer than
\* the backoff.
SPECIFICATION BackgroundSpec
CONSTANTS
    Ids = {i1, i2}
    Fresh = Fresh
    Gone = Gone
    NoId = NoId
    w1 = w1
    w2 = w2
    k1 = k1
    k2 = k2
    sA = sA
    sB = sB
    Wallets = {w1, w2}
    Placeholder = Placeholder
    PublicKeys = {}
    NonEvm = {"solana"}
    Sources = {sA, sB}
    NoSource = NoSource
    Urls <- MCUrls
    Keys = {k1, k2}
    Normalize <- MCNormalize
    HeartbeatInterval = 1
    TestTTL = 1
    PurgeBatchSize = 1
    MaxTime = 0
    PurgeInterval = 1
    Requests = {r1}
    Ops = {"patch", "claim", "remove"}
    Payloads = {}
    Patches <- SyncPatches
    EndpointCalls = {e1, e2}
    Scripts = {}
    Batches <- SyncBatches
    t1 = t1
    t2 = t2
    Threads = {t1, t2}
    TTL = 2
    Backoff = 1
    MaxVersion = 2
    MaxBoots = 2
INVARIANTS
    OneRefresher
    LiveIsConfirmed
PROPERTIES
    PlannedRemovalsAreHonored
    MarksAreJustified
    ImportLockReleased
    LastKnownIsKept
    StoredIsKeptIfLoaded
    RefreshEnds
