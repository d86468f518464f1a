\* An operator at the script's prompt beside owners, heartbeats and the purge.
SPECIFICATION OperatedSpec
CONSTANTS
    Ids = {i1}
    Fresh = Fresh
    Gone = Gone
    NoId = NoId
    w1 = w1
    w2 = w2
    k1 = k1
    k2 = k2
    Wallets = {w1, w2}
    Placeholder = Placeholder
    PublicKeys = {}
    NonEvm = {"solana"}
    Sources = {}
    NoSource = NoSource
    Urls <- MCUrls
    Keys = {k1, k2}
    Normalize <- MCNormalize
    HeartbeatInterval = 1
    TestTTL = 0
    PurgeBatchSize = 1
    MaxTime = 1
    PurgeInterval = 1
    Requests = {r1, r2}
    Ops = {"create", "patch", "heartbeat", "browse"}
    Payloads <- OwnerPosts
    Patches <- OwnerPatches
    EndpointCalls = {}
    Scripts = {}
    Batches = {}
    Operators = {o1}
    Edits <- OperatorEdits
    Deletes <- OperatorDeletes
    PurgeAges = {0}
SYMMETRY SlotSymmetry
INVARIANTS
    KeysFollowUrls
    TestNamesKept
PROPERTIES
    HeartbeatsAreSpaced
    RemovalsAreWarranted
