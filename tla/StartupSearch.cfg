\* A server, and an import script that migrates while it serves.
SPECIFICATION StartupSpec
CONSTANTS
    p1 = p1
    p2 = p2
    t1 = t1
    t2 = t2
    u1 = u1
    Processes = {p1, p2}
    Threads = {t1, u1}
    ProcessOf <- OneThreadEach
    NoThread = none
    Pools = {x1}
    x1 = x1
    x2 = x2
    NoPool = NoPool
    Ids = {i1}
    Missing = none
    MaxVersion = 1
INVARIANTS
    SearchIsCurrent
