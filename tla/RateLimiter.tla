---------------------------- MODULE RateLimiter ----------------------------
(***************************************************************************)
(* RateLimiter.check_ip (app/core/rate_limit.py): a fixed window for each  *)
(* client and a daily cap over all of them.  The listing routes call it    *)
(* from a synchronous dependency, which the framework runs in a thread     *)
(* pool: several threads are between their clock readings and the lock,    *)
(* and they enter it in any order.                                         *)
(***************************************************************************)
EXTENDS Integers, FiniteSetsExt

CONSTANTS
    Workers, Ips,     \* the thread pool and the clients
    MaxRequests,      \* max_requests of one client in one window
    Window,           \* window_seconds, in ticks
    Cap,              \* global_daily_cap; 0 disables it
    MaxTracked,       \* _MAX_TRACKED_IPS
    DayLength,        \* ticks in a UTC day
    MaxInstant        \* bound on the clock

ASSUME LimiterAssumption ==
    /\ MaxRequests \in Nat \ {0}
    /\ Window \in Nat \ {0}
    /\ Cap \in Nat
    /\ MaxTracked \in Nat
    /\ DayLength \in Nat \ {0}
    /\ MaxInstant \in Nat
    /\ IsFiniteSet(Workers) /\ Workers # {}

VARIABLES
    instant,          \* the time both clocks show
    counters,         \* _counters: [Ips -> [start, count]], NoWindow when absent
    day,              \* _day
    servedToday,      \* _served_today
    request,          \* the calls between their first clock reading and return
    hits,             \* served requests by client and clock reading (history)
    servedOn,         \* served requests by UTC day (history)
    rollbacks         \* how often _day went backwards (history)

limiterVars == <<instant, counters, day, servedToday, request, hits, servedOn, rollbacks>>
history == <<hits, servedOn, rollbacks>>

Instants == 0 .. MaxInstant
DayOf(t) == t \div DayLength
Days == 0 .. DayOf(MaxInstant)
NoWindow == [start |-> 0, count |-> 0]
Tracked == {ip \in Ips : counters[ip] # NoWindow}

IdleCall == [pc |-> "idle", ip |-> "none", now |-> 0, today |-> 0]
CallStates ==
    [pc : {"idle", "utc", "lock"}, ip : Ips \cup {"none"}, now : Instants, today : Days]

(* now = time.monotonic() *)
ReadMonotonic(t, ip) ==
    /\ request[t].pc = "idle"
    /\ request' = [request EXCEPT ![t] = [pc |-> "utc", ip |-> ip, now |-> instant, today |-> 0]]
    /\ UNCHANGED <<instant, counters, day, servedToday, history>>

(* utc = _utc_now() *)
ReadUtc(t) ==
    /\ request[t].pc = "utc"
    /\ request' = [request EXCEPT ![t].pc = "lock", ![t].today = DayOf(instant)]
    /\ UNCHANGED <<instant, counters, day, servedToday, history>>

(* Under the lock: the count of the thread's own day, which may be a day   *)
(* the limiter has already left.                                           *)
CountOn(today) == IF today # day THEN 0 ELSE servedToday

(* Mutant: the cap lets one request too many through. *)
CappedLate(count) == Cap > 0 /\ Cap < count
Capped(count) == Cap > 0 /\ Cap <= count

(* Mutant: a running window's count is not carried over.                   *)
CountedAnew(c) ==
    LET w == IF counters[c.ip] = NoWindow THEN [start |-> c.now, count |-> 0] ELSE counters[c.ip]
    IN  [start |-> IF c.now - w.start >= Window THEN c.now ELSE w.start, count |-> 1]

(* The client's window after this request is counted in it.  The count is  *)
(* only ever compared with max_requests, so it stops one above it.         *)
Counted(c) ==
    LET w == IF counters[c.ip] = NoWindow THEN [start |-> c.now, count |-> 0] ELSE counters[c.ip]
    IN  IF c.now - w.start >= Window
        THEN [start |-> c.now, count |-> 1]
        ELSE [start |-> w.start, count |-> IF w.count > MaxRequests THEN w.count ELSE w.count + 1]

(* The windows a full table keeps: the ones that still run at `now`. *)
Evicted(table, now) ==
    IF Cardinality({ip \in Ips : table[ip] # NoWindow}) > MaxTracked
    THEN [ip \in Ips |-> IF now - table[ip].start >= Window THEN NoWindow ELSE table[ip]]
    ELSE table

RollOver(today) ==
    /\ day' = today
    /\ rollbacks' = rollbacks + (IF today < day THEN 1 ELSE 0)

Return(t) == request' = [request EXCEPT ![t] = IdleCall]

(* 429: the cap is used up. *)
RefuseCapped(t) ==
    LET c == request[t] IN
    /\ c.pc = "lock" /\ Capped(CountOn(c.today))
    /\ RollOver(c.today) /\ servedToday' = CountOn(c.today)
    /\ Return(t)
    /\ UNCHANGED <<instant, counters, hits, servedOn>>

(* Mutant: a request its own window refuses uses up the cap all the same.  *)
RefuseWindowCounting(t) ==
    LET c == request[t] IN
    /\ c.pc = "lock" /\ ~Capped(CountOn(c.today)) /\ Counted(c).count > MaxRequests
    /\ RollOver(c.today) /\ servedToday' = CountOn(c.today) + 1
    /\ counters' = [counters EXCEPT ![c.ip] = Counted(c)]
    /\ Return(t)
    /\ UNCHANGED <<instant, hits, servedOn>>

(* 429: the client's window is used up. *)
RefuseWindow(t) ==
    LET c == request[t] IN
    /\ c.pc = "lock" /\ ~Capped(CountOn(c.today)) /\ Counted(c).count > MaxRequests
    /\ RollOver(c.today) /\ servedToday' = CountOn(c.today)
    /\ counters' = [counters EXCEPT ![c.ip] = Counted(c)]
    /\ Return(t)
    /\ UNCHANGED <<instant, hits, servedOn>>

Serve(t) ==
    LET c == request[t] IN
    /\ c.pc = "lock" /\ ~Capped(CountOn(c.today)) /\ Counted(c).count <= MaxRequests
    /\ RollOver(c.today) /\ servedToday' = CountOn(c.today) + 1
    /\ counters' = Evicted([counters EXCEPT ![c.ip] = Counted(c)], c.now)
    /\ hits' = [hits EXCEPT ![c.ip][c.now] = @ + 1]
    /\ servedOn' = [servedOn EXCEPT ![c.today] = @ + 1]
    /\ Return(t)
    /\ UNCHANGED instant

LimiterTick ==
    /\ instant < MaxInstant /\ instant' = instant + 1
    /\ UNCHANGED <<counters, day, servedToday, request, history>>

LimiterInit ==
    /\ instant = 0 /\ day = 0 /\ servedToday = 0
    /\ counters = [ip \in Ips |-> NoWindow]
    /\ request = [t \in Workers |-> IdleCall]
    /\ hits = [ip \in Ips |-> [t \in Instants |-> 0]]
    /\ servedOn = [d \in Days |-> 0]
    /\ rollbacks = 0

LimiterNext ==
    \/ \E t \in Workers :
         \/ \E ip \in Ips : ReadMonotonic(t, ip)
         \/ ReadUtc(t)
         \/ RefuseCapped(t) \/ RefuseWindow(t) \/ Serve(t)
    \/ LimiterTick

LimiterSpec == LimiterInit /\ [][LimiterNext]_limiterVars

-----------------------------------------------------------------------------
LimiterTypeOK ==
    /\ instant \in Instants /\ day \in Days /\ servedToday \in Nat
    /\ counters \in [Ips -> [start : Instants, count : 0 .. MaxRequests + 1]]
    /\ request \in [Workers -> CallStates]
    /\ \A t \in Workers : request[t].pc # "idle" => request[t].ip \in Ips
    /\ hits \in [Ips -> [Instants -> Nat]]
    /\ servedOn \in [Days -> Nat]
    /\ rollbacks \in Nat

Span(t) == {s \in Instants : t <= s /\ s < t + Window}
ServedIn(ip, t) == MapThenSumSet(LAMBDA s : hits[ip][s], Span(t))

(* A fixed window may be straddled, so a client may be served more than    *)
(* its allowance in a span of one window's length.  How much more is a     *)
(* matter of the threads: each may hold a reading of the clock that is     *)
(* older than the span, and, once a full table has dropped the client's    *)
(* window, open one with it that starts in the past and soon runs out; and *)
(* all but one may be served late, in the window after the last one.  With *)
(* one thread it is 2 * MaxRequests - 1, and one allowance more for each   *)
(* further thread, never anything beyond that.                             *)
StraddledWindowsBound ==
    \A ip \in Ips, t \in Instants :
        ServedIn(ip, t) <= (Cardinality(Workers) + 1) * MaxRequests - 1

(* The cap holds for each UTC day, once more for every time a thread that  *)
(* read the clock before midnight entered the lock after one that read it  *)
(* later: the limiter forgets its count when it changes days, also back.   *)
CapUpToRollbacks ==
    Cap > 0 => \A d \in Days : servedOn[d] <= Cap * (1 + rollbacks)

(* A request is refused for the daily cap only on a day on which Cap       *)
(* requests were really served: refusals do not use the cap up.            *)
CapRefusalJustified ==
    \A t \in Workers :
        RefuseCapped(t) => servedOn[request[t].today] >= Cap
CapRefusalsJustified == [][CapRefusalJustified]_limiterVars

(* The inductive invariant of the cap: every past stay in a day served at  *)
(* most Cap requests, and a day ahead of _day can only have been left by a *)
(* rollback.                                                               *)
CapLedger ==
    /\ LimiterTypeOK
    /\ servedToday <= servedOn[day]
    /\ Cap > 0 =>
         /\ servedToday <= Cap
         /\ \A d \in Days :
              /\ d > day => servedOn[d] <= Cap * rollbacks
              /\ d = day => servedOn[d] <= Cap * rollbacks + servedToday
              /\ d < day => servedOn[d] <= Cap * rollbacks + Cap

(* The inductive invariant of the windows.  While the clock is in a span   *)
(* or later, and nobody has entered the lock with a reading past it, what  *)
(* a client was served there and what its window still has room for is     *)
(* paid for: by one allowance for a window that starts in the span, and by *)
(* one less than an allowance for each window that started before it, of   *)
(* which there was one, and one more for each thread whose reading was     *)
(* older than the span.  Afterwards only the readings that were taken in   *)
(* the span can still be served.                                           *)
Late(t) == {u \in Workers : request[u].pc # "idle" /\ request[u].now < t}
Within(t) == {u \in Workers : request[u].pc # "idle" /\ request[u].now \in Span(t)}
Openings(m) == m * (MaxRequests - 1)
Room(w) == IF w.count > MaxRequests THEN 0 ELSE MaxRequests - w.count

Paid(served, w, late, t) ==
    LET all == Cardinality(Workers) IN
    IF w = NoWindow \/ w.start <= t - Window
    THEN served + Openings(late) <= Openings(all)
    ELSE IF w.start < t
    THEN served + Room(w) + Openings(IF late = all THEN all - 1 ELSE late) <= Openings(all)
    ELSE served + Room(w) <= Openings(all) + MaxRequests

Accounted(served, w, late, within, time, t) ==
    \/ time < t /\ served = 0
    \/ t <= time /\ Paid(served, w, late, t)
    \/ t + Window <= time
       /\ served + within <= (Cardinality(Workers) + 1) * MaxRequests - 1

WindowLedger ==
    /\ LimiterTypeOK
    /\ \A u \in Workers : request[u].pc # "idle" => request[u].now <= instant
    /\ \A ip \in Ips :
         /\ counters[ip].start <= instant
         /\ counters[ip].count = 0 => counters[ip] = NoWindow
    /\ \A ip \in Ips, t \in Instants :
         Accounted(ServedIn(ip, t), counters[ip],
                   Cardinality(Late(t)), Cardinality(Within(t)), instant, t)
=============================================================================
