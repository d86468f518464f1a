----------------------------- MODULE MCProcess -----------------------------
(***************************************************************************)
(* What a process of the board keeps for itself, for TLC: its pool and     *)
(* schema flag, its memory of used nonces, its limiter's counters.  The    *)
(* three share no state, so one of them moves and the others stay as they  *)
(* began: every behaviour of each is there, and none of their products.    *)
(***************************************************************************)
EXTENDS MCStartup, MCWalletAuth, RateLimiter

VARIABLE part
memoryVars == <<part, startupVars, authVars, limiterVars>>

ProcessInit ==
    /\ part \in {"startup", "signatures", "limiter"}
    /\ StartupInit
    /\ part # "startup" => \A i \in Ids : rows[i] = Missing
    /\ AuthInit
    /\ LimiterInit

ProcessNext ==
    \/ part = "startup" /\ StartupNext /\ UNCHANGED <<part, authVars, limiterVars>>
    \/ part = "signatures" /\ AuthNext /\ UNCHANGED <<part, startupVars, limiterVars>>
    \/ part = "limiter" /\ LimiterNext /\ UNCHANGED <<part, startupVars, authVars>>

ProcessSpec == ProcessInit /\ [][ProcessNext]_memoryVars
=============================================================================
