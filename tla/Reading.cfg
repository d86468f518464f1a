\* Two listings searched in every way asked; two listings in pages of one; two
\* lookups of one agent's badge at a time, over two lifetimes.
SPECIFICATION ReadingSpec
CONSTANTS
    l1 = l1
    l2 = l2
    base = base
    solana = solana
    usdc = usdc
    USDC = USDC
    eth = eth
    offering = offering
    notice = notice
    extraction = extraction
    other = other
    posted = posted
    directory = directory
    exact = exact
    typo = typo
    Any = Any
    Absent = Absent
    ListingIds = {l1, l2}
    Shapes <- Listings
    Questions <- Asked
    TaskCategories = {extraction, other}
    Stablecoins <- PricedCoins
    Lower <- Lowered
    WordHits = {exact}
    LetterHits = {exact, typo}
    TrigramsWork = TRUE
    StaleAfter = 1
    MaxWrites = 1
    MaxSearchTime = 2
    w1 = w1
    q1 = q1
    none = none
    alpha = alpha
    beta = beta
    Ids = {1, 2}
    Texts = {alpha, beta}
    Queries = {q1}
    NoQuery = none
    Rank <- MCRank
    Similarity <- MCSimilarity
    TrigramAvailable = TRUE
    Limit = 1
    MinInterval = 1
    Walks = {w1}
    Missing = none
    MaxTime = 1
    Lookups = {lookup1, lookup2}
    Agents = {"agent"}
    TTL = 2
    MaxClock = 4
INVARIANTS
    QuietAnswersAgree
    StaleAnswersAreShownStale
    OnlyLoweredAreRepeated
    ShownIsRecent
    SpendingBounded
PROPERTIES
    NothingSteadyIsSkipped
    LookupsEnd
