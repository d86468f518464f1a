\* Two handlers posting, patching and reactivating over time, beside the purge.
SPECIFICATION Spec
CONSTANTS
    Ids = {i1, i2}
    Fresh = Fresh
    Gone = Gone
    NoId = NoId
    w1 = w1
    w2 = w2
    k1 = k1
    k2 = k2
    sA = sA
    sB = sB
    Wallets = {w1, w2}
    Placeholder = Placeholder
    PublicKeys = {}
    NonEvm = {"solana"}
    Sources = {sA, sB}
    NoSource = NoSource
    Urls <- MCUrls
    Keys = {k1, k2}
    Normalize <- MCNormalize
    HeartbeatInterval = 1
    TestTTL = 0
    PurgeBatchSize = 1
    MaxTime = 1
    PurgeInterval = 1
    Requests = {r1, r2}
    Ops = {"create", "patch"}
    Payloads <- PostPayloads
    Patches <- PostPatches
    EndpointCalls = {}
    Scripts = {}
    Batches = {}
SYMMETRY SlotSymmetry
INVARIANTS
    OneActiveOffering
