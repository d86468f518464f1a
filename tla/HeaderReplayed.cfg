\* A header dated the allowed skew ahead, and others, two ticks to a second, on a
\* server that does not restart.
SPECIFICATION AuthSpec
CONSTANTS
    w1 = w1
    w2 = w2
    patching = patching
    deleting = deleting
    n1 = n1
    Wallets = {w1, w2}
    Purposes = {patching, deleting}
    Nonces = {n1}
    Sent <- MCSent
    MaxAge = 1
    TicksPerSecond = 2
    MaxTick = 8
    MaxBoots = 0
CHECK_DEADLOCK FALSE
INVARIANTS
    NeverReplayed
