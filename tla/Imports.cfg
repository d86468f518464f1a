\* Two calls at a time, bodies of two chunks, two imports and one wrong key a
\* window; batches of two sources and two endpoints, run twice; two listings
\* and a repair that is run again and again.
SPECIFICATION ImportsSpec
CONSTANTS
    c1 = c1
    c2 = c2
    Calls = {c1, c2}
    MaxBody = 2
    MaxImports = 2
    MaxFailures = 1
    s1 = s1
    s2 = s2
    k1 = k1
    k2 = k2
    NoSource = NoSource
    NoWallet = NoWallet
    Missing = Missing
    Sources = {s1, s2}
    Keys = {k1, k2}
    Batches <- Sent
    Tables <- AllTables
    Lists <- AllLists
    MaxAttempts = 2
    i1 = i1
    i2 = i2
    r1 = r1
    github = github
    Listings = {i1, i2}
    Repairs = {r1}
    Offboard = {github}
    None = None
    Board = Board
    NotShown = NotShown
SYMMETRY ImportsSymmetry
INVARIANTS
    AuditIsTrue
    WritesWereAsked
    OneBoundedBody
    CompletedSyncOwesNothing
    CompletedAsForetold
    BoardLinksAnswer
PROPERTIES
    ClaimedLinksAreTheOwners
    OffboardLinksAreOld
