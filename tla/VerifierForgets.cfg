\* Two versions of each document, two restarts, a TTL longer than the backoff.
SPECIFICATION VerifierSpec
CONSTANTS
    t1 = t1
    t2 = t2
    Threads = {t1, t2}
    TTL = 2
    Backoff = 1
    MaxVersion = 2
    MaxBoots = 2
PROPERTIES
    StoredIsKept
