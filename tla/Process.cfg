\* A server with two threads and an import script, on an old database or a new
\* one; headers with past and future timestamps, two ticks to a second, one
\* restart; two threads at the limiter with two clients, a midnight inside a window.
SPECIFICATION ProcessSpec
CONSTANTS
    p1 = p1
    p2 = p2
    t1 = t1
    t2 = t2
    u1 = u1
    Processes = {p1, p2}
    Threads = {t1, t2, u1}
    ProcessOf <- ServerAndScript
    NoThread = none
    Pools = {x1, x2}
    x1 = x1
    x2 = x2
    NoPool = NoPool
    Ids = {i1}
    Missing = none
    MaxVersion = 1
    w1 = w1
    w2 = w2
    patching = patching
    deleting = deleting
    n1 = n1
    Wallets = {w1, w2}
    Purposes = {patching, deleting}
    Nonces = {n1}
    Sent <- MCSent
    MaxAge = 1
    TicksPerSecond = 2
    MaxTick = 8
    MaxBoots = 1
    Workers = {worker1, worker2}
    Ips = {ip1, ip2}
    MaxRequests = 1
    Window = 2
    Cap = 2
    MaxTracked = 1
    DayLength = 3
    MaxInstant = 4
SYMMETRY StartupSymmetry
INVARIANTS
    ServesMigrated
    PoolsAreAccounted
    ReusesAreFarApart
    StraddledWindowsBound
    CapUpToRollbacks
PROPERTIES
    CapRefusalsJustified
