------------------------------ MODULE BadgeCache ------------------------------
(***************************************************************************)
(* The trust-score badges (app/core/score_client.py): each lookup costs    *)
(* money, so its answer is kept for a while, failures included.            *)
(*                                                                         *)
(* Lookups are coroutines of one event loop: what one does between two     *)
(* awaits is a single step, and the request to the verification service is *)
(* the await.  A page of listings starts one lookup for each of its rows   *)
(* and waits for all of them; two rows of one agent are two lookups.  A    *)
(* test listing starts none.  A hit answers from the cache and changes     *)
(* nothing.                                                                *)
(***************************************************************************)
EXTENDS Integers, FiniteSetsExt

CONSTANTS
    Lookups,       \* lookups that may be under way at one time
    Agents,
    TTL,           \* BADGE_CACHE_TTL_SECONDS, in ticks
    MaxClock       \* bound on the clock

ASSUME BadgeAssumption == IsFiniteSet(Lookups) /\ TTL \in Nat /\ MaxClock \in Nat

VARIABLES
    monotonic,     \* time.monotonic()
    cache,         \* _cache: [Agents -> entry], NoEntry when absent
    lookup,        \* the lookups that wait for the service or for their turn
    begun          \* lookups begun, by agent and clock reading (history)

badgeVars == <<monotonic, cache, lookup, begun>>

Times == 0 .. MaxClock
NoEntry == [at |-> -1, read |-> -1, ok |-> FALSE]
Idle == [pc |-> "idle", agent |-> "none", now |-> 0, read |-> 0, ok |-> FALSE]

(* Whether a lookup made now is answered from the cache. *)
Fresh(a) == cache[a] # NoEntry /\ monotonic - cache[a].at < TTL

(* A miss: the clock is read before the request is sent. *)
Ask(l, a) ==
    /\ lookup[l].pc = "idle" /\ ~Fresh(a)
    /\ lookup' = [lookup EXCEPT ![l] = [pc |-> "asked", agent |-> a, now |-> monotonic, read |-> 0, ok |-> FALSE]]
    /\ begun' = [begun EXCEPT ![a][monotonic] = @ + 1]
    /\ UNCHANGED <<monotonic, cache>>

(* The service answers with the score of this moment, or the request fails *)
(* in any way, its timeout included: the badge is None.                    *)
Answer(l, ok) ==
    /\ lookup[l].pc = "asked"
    /\ lookup' = [lookup EXCEPT ![l].pc = "answered", ![l].read = monotonic, ![l].ok = ok]
    /\ UNCHANGED <<monotonic, cache, begun>>

EntryOf(c) == [at |-> c.now, read |-> c.read, ok |-> c.ok]

(* Mutant: the entry is dated when it is stored.                           *)
StoreDatedLate(l) ==
    LET c == lookup[l] IN
    /\ c.pc = "answered"
    /\ cache' = [cache EXCEPT ![c.agent] = [EntryOf(c) EXCEPT !.at = monotonic]]
    /\ lookup' = [lookup EXCEPT ![l] = Idle]
    /\ UNCHANGED <<monotonic, begun>>

(* Mutant: only a badge is worth keeping.                                  *)
StoreBadgesOnly(l) ==
    LET c == lookup[l] IN
    /\ c.pc = "answered"
    /\ cache' = IF c.ok THEN [cache EXCEPT ![c.agent] = EntryOf(c)] ELSE cache
    /\ lookup' = [lookup EXCEPT ![l] = Idle]
    /\ UNCHANGED <<monotonic, begun>>

(* Mutant: a failed lookup is tried again.                                 *)
StoreRetrying(l) ==
    LET c == lookup[l] IN
    /\ c.pc = "answered"
    /\ cache' = [cache EXCEPT ![c.agent] = EntryOf(c)]
    /\ lookup' = [lookup EXCEPT ![l] = IF c.ok THEN Idle ELSE [c EXCEPT !.pc = "asked"]]
    /\ UNCHANGED <<monotonic, begun>>

(* The coroutine goes on: whatever it got replaces what is there. *)
Store(l) ==
    LET c == lookup[l] IN
    /\ c.pc = "answered"
    /\ cache' = [cache EXCEPT ![c.agent] = EntryOf(c)]
    /\ lookup' = [lookup EXCEPT ![l] = Idle]
    /\ UNCHANGED <<monotonic, begun>>

BadgeTick ==
    /\ monotonic < MaxClock /\ monotonic' = monotonic + 1
    /\ UNCHANGED <<cache, lookup, begun>>

BadgeInit ==
    /\ monotonic = 0
    /\ cache = [a \in Agents |-> NoEntry]
    /\ lookup = [l \in Lookups |-> Idle]
    /\ begun = [a \in Agents |-> [t \in Times |-> 0]]

Finishes(l) == Store(l) \/ \E ok \in BOOLEAN : Answer(l, ok)

BadgeNext ==
    \/ \E l \in Lookups : Finishes(l) \/ \E a \in Agents : Ask(l, a)
    \/ BadgeTick

BadgeSpec == BadgeInit /\ [][BadgeNext]_badgeVars

(* The HTTP client has a timeout, and the loop runs what is ready. *)
BadgeFairSpec == BadgeSpec /\ \A l \in Lookups : WF_badgeVars(Finishes(l))

-----------------------------------------------------------------------------
Entries == [at : Times, read : Times, ok : BOOLEAN] \cup {NoEntry}

BadgeTypeOK ==
    /\ monotonic \in Times
    /\ cache \in [Agents -> Entries]
    /\ lookup \in [Lookups -> [pc : {"idle", "asked", "answered"}, agent : Agents \cup {"none"},
                               now : Times, read : Times, ok : BOOLEAN]]
    /\ \A l \in Lookups : lookup[l].pc # "idle" => lookup[l].agent \in Agents
    /\ begun \in [Agents -> [Times -> Nat]]

(* A badge shown from the cache is what the service said less than a TTL   *)
(* ago, however long the request took, however late its coroutine ran and  *)
(* in whatever order the answers of several lookups were stored.           *)
ShownIsRecent == \A a \in Agents : Fresh(a) => monotonic - cache[a].read < TTL

(* The lookups of an agent begun in the window of one TTL that starts at t *)
BegunWithin(a, t) == MapThenSumSet(LAMBDA s : begun[a][s], {s \in Times : t <= s /\ s < t + TTL})

(* What one agent costs in any span of one TTL is bounded by how many      *)
(* lookups run at a time, whatever the service answers: lookups that miss  *)
(* together each pay, and a slow one that ends after newer ones sets the   *)
(* entry's time back, once, so that the next ones miss again.  With c      *)
(* lookups at a time that is c + (c - 1) + ... + 1.                        *)
SpendingBounded ==
    LET c == Cardinality(Lookups)
    IN  \A a \in Agents, t \in Times : BegunWithin(a, t) <= (c * (c + 1)) \div 2

(* A badge never keeps a response waiting for ever: every lookup ends,     *)
(* with or without a badge ("Fails soft, always").                         *)
LookupsEnd == \A l \in Lookups : lookup[l].pc # "idle" ~> lookup[l].pc = "idle"

(* What ShownIsRecent rests on: an entry is dated no later than the moment *)
(* the service was read.                                                   *)
DatedBeforeRead ==
    /\ BadgeTypeOK
    /\ \A a \in Agents : cache[a].at <= cache[a].read /\ cache[a].read <= monotonic
    /\ \A l \in Lookups :
         /\ lookup[l].pc # "idle" => lookup[l].now <= monotonic
         /\ lookup[l].pc = "answered" => lookup[l].now <= lookup[l].read /\ lookup[l].read <= monotonic
=============================================================================
