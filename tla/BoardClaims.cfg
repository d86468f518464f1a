\* Two handlers and a script re-syncing the one listing they act on.
SPECIFICATION Spec
CONSTANTS
    Ids = {i1}
    Fresh = Fresh
    Gone = Gone
    NoId = NoId
    w1 = w1
    w2 = w2
    k1 = k1
    k2 = k2
    sA = sA
    sB = sB
    Wallets = {w1, w2}
    Placeholder = Placeholder
    PublicKeys = {}
    NonEvm = {"solana"}
    Sources = {sA, sB}
    NoSource = NoSource
    Urls <- MCUrls
    Keys = {k1, k2}
    Normalize <- MCNormalize
    HeartbeatInterval = 1
    TestTTL = 1
    PurgeBatchSize = 1
    MaxTime = 0
    PurgeInterval = 1
    Requests = {r1, r2}
    Ops = {"patch", "delete", "claim", "remove", "heartbeat"}
    Payloads = {}
    Patches <- ClaimPatches
    EndpointCalls = {}
    Scripts = {s1}
    Batches <- ClaimBatches
SYMMETRY SlotSymmetry
INVARIANTS
    TypeOK
    UnclaimedUntouched
PROPERTIES
    ClaimedWritesAreAuthorized
    RemovalsAreRecorded
    LifecycleSpec
