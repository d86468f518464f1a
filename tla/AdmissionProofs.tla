--------------------------- MODULE AdmissionProofs ---------------------------
(***************************************************************************)
(* Proofs about what a request passes before its handler begins, for every *)
(* value of the constants: the signature check (WalletAuth) and the rate   *)
(* limiter (RateLimiter).                                                  *)
(***************************************************************************)
EXTENDS WalletAuth, RateLimiter, FiniteSums

(* The signature check. *)

LEMMA HorizonIsNat == Horizon \in Nat
    BY AuthAssumption DEF Horizon

(* The three ways a fresh header is handled, by what they leave behind.    *)
LEMMA RecentUsesStep ==
    ASSUME RecentUsesRemembered, [AuthNext]_authVars
    PROVE  RecentUsesRemembered'
<1> USE AuthAssumption, HorizonIsNat DEF Ticks
<1>1. CASE UNCHANGED authVars
    BY <1>1 DEF authVars, RecentUsesRemembered, AuthTypeOK
<1>2. ASSUME NEW header \in Sent, NEW expected \in Wallets, NEW purpose \in Purposes,
             \/ Replayed(header, expected) \/ WrongSigner(header, purpose, expected)
      PROVE  RecentUsesRemembered'
  <2>1. header.nonce \in Nonces
      BY SentAssumption DEF Headers
  <2>2. Pruned \subseteq seen' /\ seen' \subseteq Entries
      BY <1>2, <2>1 DEF Replayed, WrongSigner, Pruned, Entry, Entries, RecentUsesRemembered, AuthTypeOK
  <2>3. UNCHANGED <<tick, boot, uses>>
      BY <1>2 DEF Replayed, WrongSigner
  <2> QED
      BY <2>2, <2>3 DEF RecentUsesRemembered, AuthTypeOK, Pruned
<1>3. ASSUME NEW header \in Sent, NEW expected \in Wallets, NEW purpose \in Purposes,
             Accept(header, purpose, expected)
      PROVE  RecentUsesRemembered'
  <2> DEFINE use == [header |-> header, purpose |-> purpose, address |-> expected,
                     at |-> tick, boot |-> boot]
             entry == [address |-> expected, nonce |-> header.nonce, at |-> tick]
  <2>1. header \in Headers /\ header.nonce \in Nonces
      BY SentAssumption DEF Headers
  <2>2. seen' = Pruned \cup {entry} /\ uses' = uses \cup {use} /\ UNCHANGED <<tick, boot>>
      BY <1>3 DEF Accept, Entry
  <2>3. entry \in Entries /\ use \in Uses
      BY <2>1 DEF Entries, Uses, RecentUsesRemembered, AuthTypeOK
  <2>4. AuthTypeOK'
      BY <2>2, <2>3 DEF RecentUsesRemembered, AuthTypeOK, Pruned
  <2>5. \A u \in uses' : u.at <= tick' /\ u.boot <= boot'
      BY <2>2 DEF RecentUsesRemembered, AuthTypeOK
  <2>6. ASSUME NEW u \in uses', u.boot = boot, tick - u.at <= Horizon
        PROVE  [address |-> u.address, nonce |-> u.header.nonce, at |-> u.at] \in seen'
    <3>1. CASE u = use
        BY <2>2, <3>1
    <3>2. CASE u \in uses
      <4>1. [address |-> u.address, nonce |-> u.header.nonce, at |-> u.at] \in seen
          BY <2>6, <3>2 DEF RecentUsesRemembered
      <4> QED
          BY <2>2, <2>6, <4>1 DEF Pruned
    <3> QED
        BY <2>2, <3>1, <3>2
  <2> QED
      BY <2>2, <2>4, <2>5, <2>6 DEF RecentUsesRemembered
<1>4. CASE AuthTick
    BY <1>4 DEF AuthTick, RecentUsesRemembered, AuthTypeOK, Uses
<1>5. CASE Reboot
    BY <1>5 DEF Reboot, RecentUsesRemembered, AuthTypeOK, Uses
<1>6. ASSUME NEW header \in Sent, Stale(header)
      PROVE  RecentUsesRemembered'
    BY <1>1, <1>6 DEF Stale
<1> QED
    BY <1>1, <1>2, <1>3, <1>4, <1>5, <1>6 DEF AuthNext

(* A use that can still be replayed is remembered: pruning, refusals and   *)
(* restarts never lose one within the horizon of its own process.          *)
THEOREM RecentUsesAreRemembered == AuthSpec => []RecentUsesRemembered
<1>1. AuthInit => RecentUsesRemembered
    BY AuthAssumption DEF AuthInit, RecentUsesRemembered, AuthTypeOK, Ticks
<1> QED
    BY <1>1, RecentUsesStep, PTL DEF AuthSpec

(* Two requests under one (wallet, nonce) pair are more than two MaxAge    *)
(* apart, for every clock resolution and any set of headers.               *)
THEOREM ReusesStayFarApart == AuthSpec => []ReusesAreFarApart
<1>1. AuthInit => ReusesAreFarApart
    BY DEF AuthInit, ReusesAreFarApart
<1>2. ASSUME RecentUsesRemembered, ReusesAreFarApart, [AuthNext]_authVars
      PROVE  ReusesAreFarApart'
  <2>1. CASE UNCHANGED uses
      BY <1>2, <2>1 DEF ReusesAreFarApart, Horizon
  <2>2. ASSUME NEW header \in Sent, NEW expected \in Wallets, NEW purpose \in Purposes,
               Accept(header, purpose, expected)
        PROVE  ReusesAreFarApart'
    <3> DEFINE use == [header |-> header, purpose |-> purpose, address |-> expected,
                       at |-> tick, boot |-> boot]
    <3>1. uses' = uses \cup {use}
        BY <2>2 DEF Accept
    <3>2. ASSUME NEW u \in uses, u.boot = boot, u.address = expected, u.header.nonce = header.nonce
          PROVE  use.at - u.at > Horizon
      <4>1. u.at \in Int /\ tick \in Int
          BY <1>2, <3>2 DEF RecentUsesRemembered, AuthTypeOK, Uses, Ticks
      <4>2. ASSUME tick - u.at <= Horizon
            PROVE  Remembered(expected, header.nonce)
        <5> DEFINE e == [address |-> u.address, nonce |-> u.header.nonce, at |-> u.at]
        <5>1. e \in seen
            BY <1>2, <3>2, <4>2 DEF RecentUsesRemembered
        <5> QED
            BY <3>2, <4>2, <5>1 DEF Pruned, Remembered
      <4> QED
          BY <2>2, <4>1, <4>2, HorizonIsNat DEF Accept
    <3> QED
        BY <1>2, <3>1, <3>2 DEF ReusesAreFarApart, Horizon
  <2>3. UNCHANGED uses \/ \E header \in Sent, expected \in Wallets, purpose \in Purposes :
                             Accept(header, purpose, expected)
      BY <1>2 DEF AuthNext, Stale, Replayed, WrongSigner, AuthTick, Reboot, authVars
  <2> QED
      BY <2>1, <2>2, <2>3
<1> QED
    BY <1>1, <1>2, RecentUsesAreRemembered, PTL DEF AuthSpec

(* Nothing is authorized that its wallet did not sign for that purpose. *)
THEOREM NothingUnsigned == AuthSpec => []UsesWereSigned
<1>1. AuthInit => UsesWereSigned
    BY DEF AuthInit, UsesWereSigned
<1>2. ASSUME UsesWereSigned, [AuthNext]_authVars
      PROVE  UsesWereSigned'
  <2>1. CASE UNCHANGED uses
      BY <1>2, <2>1 DEF UsesWereSigned
  <2>2. ASSUME NEW header \in Sent, NEW expected \in Wallets, NEW purpose \in Purposes,
               Accept(header, purpose, expected)
        PROVE  UsesWereSigned'
    <3>1. header.signature.signer = expected /\ header.signature.message.purpose = purpose
        BY <2>2 DEF Accept, Recovers
    <3>2. uses' = uses \cup {[header |-> header, purpose |-> purpose, address |-> expected,
                              at |-> tick, boot |-> boot]}
        BY <2>2 DEF Accept
    <3> QED
        BY <1>2, <3>1, <3>2 DEF UsesWereSigned
  <2>3. UNCHANGED uses \/ \E header \in Sent, expected \in Wallets, purpose \in Purposes :
                             Accept(header, purpose, expected)
      BY <1>2 DEF AuthNext, Stale, Replayed, WrongSigner, AuthTick, Reboot, authVars
  <2> QED
      BY <2>1, <2>2, <2>3
<1> QED
    BY <1>1, <1>2, PTL DEF AuthSpec

(* Three times that are pairwise further apart than the horizon do not fit *)
(* into the window in which one header is fresh: the window is less than a *)
(* second longer than the horizon.                                         *)
FreshAt(u) ==
    /\ u.at \div TicksPerSecond - u.header.timestamp <= MaxAge
    /\ u.header.timestamp - u.at \div TicksPerSecond <= MaxAge

LEMMA ProductsKeepOrder ==
    ASSUME NEW a \in Int, NEW b \in Int, NEW n \in Nat, a <= b
    PROVE  a * n <= b * n
    OBVIOUS

LEMMA TickOfSecond ==
    ASSUME NEW t \in Nat, NEW n \in Nat \ {0}
    PROVE  /\ t \div n \in Nat
           /\ (t \div n) * n <= t /\ t < (t \div n) * n + n
    OBVIOUS

LEMMA FreshWindow ==
    ASSUME NEW u \in Uses, NEW v \in Uses, FreshAt(u), FreshAt(v), u.header = v.header
    PROVE  u.at - v.at < Horizon + TicksPerSecond
<1> DEFINE n == TicksPerSecond
           a == u.at \div n
           b == v.at \div n
<1>1. /\ u.at \in Nat /\ v.at \in Nat /\ n \in Nat \ {0} /\ MaxAge \in Nat
      /\ u.header.timestamp \in Int /\ u.header.timestamp = v.header.timestamp
    BY AuthAssumption DEF Uses, Ticks, Headers, Seconds
<1>2. a \in Nat /\ b \in Nat /\ u.at < a * n + n /\ b * n <= v.at
    BY <1>1, TickOfSecond
<1>3. a - b <= 2 * MaxAge
  <2>1. a - u.header.timestamp <= MaxAge /\ u.header.timestamp - b <= MaxAge
      BY <1>1 DEF FreshAt
  <2> HIDE DEF a, b
  <2> QED
      BY <1>1, <1>2, <2>1
<1> HIDE DEF a, b
<1>4. (a - b) * n <= (2 * MaxAge) * n
    BY <1>1, <1>2, <1>3, ProductsKeepOrder
<1>5. (a - b) * n = a * n - b * n /\ a * n \in Int /\ b * n \in Int
    BY <1>1, <1>2
<1> QED
    BY <1>1, <1>2, <1>4, <1>5, HorizonIsNat DEF Horizon

(* At most two elements: there are no three different ones.                *)
LEMMA AtMostTwo ==
    ASSUME NEW S, \A a, b, c \in S : a = b \/ b = c \/ a = c
    PROVE  Cardinality(S) <= 2
<1>1. CASE S = {}
    BY <1>1, FS_EmptySet
<1>2. CASE S # {}
  <2>1. PICK a \in S : TRUE
      BY <1>2
  <2>2. CASE S = {a}
    <3>1. Cardinality({a}) = 1
        BY FS_Singleton
    <3>2. Cardinality(S) = 1
        BY <2>2, <3>1
    <3> QED
        BY <3>2
  <2>3. CASE S # {a}
    <3>1. PICK b \in S : b # a
        BY <2>1, <2>3
    <3>2. S = {a} \cup {b}
        BY <2>1, <3>1
    <3>3. IsFiniteSet({a}) /\ Cardinality({a}) = 1
        BY FS_Singleton
    <3> DEFINE A == {a}
    <3> HIDE DEF A
    <3>5. IsFiniteSet(A) /\ Cardinality(A) = 1 /\ b \notin A
        BY <3>1, <3>3 DEF A
    <3>6. Cardinality(A \cup {b}) = Cardinality(A) + 1
        BY <3>5, FS_AddElement
    <3>4. Cardinality({a} \cup {b}) = 2
        BY <3>5, <3>6 DEF A
    <3> QED
        BY <3>2, <3>4
  <2> QED
      BY <2>2, <2>3
<1> QED
    BY <1>1, <1>2

(* Within one process no header lets more than two requests through, at    *)
(* any clock resolution, if the window is at least a second: with a window *)
(* of zero seconds a header would be good for every tick of its second.    *)
THEOREM NeverTwoReplays ==
    ASSUME MaxAge # 0
    PROVE  AuthSpec => []AtMostOneReplay
<1> DEFINE UsesWereFresh == \A u \in uses : FreshAt(u)
<1>1. AuthInit => UsesWereFresh
    BY DEF AuthInit
<1>2. ASSUME UsesWereFresh, [AuthNext]_authVars
      PROVE  UsesWereFresh'
  <2>1. CASE UNCHANGED uses
      BY <1>2, <2>1 DEF FreshAt
  <2>2. ASSUME NEW header \in Sent, NEW expected \in Wallets, NEW purpose \in Purposes,
               Accept(header, purpose, expected)
        PROVE  UsesWereFresh'
    <3>1. uses' = uses \cup {[header |-> header, purpose |-> purpose, address |-> expected,
                              at |-> tick, boot |-> boot]}
        BY <2>2 DEF Accept
    <3>2. IsFresh(header.timestamp)
        BY <2>2 DEF Accept
    <3> QED
        BY <1>2, <3>1, <3>2 DEF FreshAt, IsFresh
  <2>3. UNCHANGED uses \/ \E header \in Sent, expected \in Wallets, purpose \in Purposes :
                             Accept(header, purpose, expected)
      BY <1>2 DEF AuthNext, Stale, Replayed, WrongSigner, AuthTick, Reboot, authVars
  <2> QED
      BY <2>1, <2>2, <2>3
<1>3. ASSUME RecentUsesRemembered, ReusesAreFarApart, UsesWereSigned, UsesWereFresh
      PROVE  AtMostOneReplay
  <2> SUFFICES ASSUME NEW h, NEW b,
                      NEW u \in {x \in uses : x.header = h /\ x.boot = b},
                      NEW v \in {x \in uses : x.header = h /\ x.boot = b},
                      NEW w \in {x \in uses : x.header = h /\ x.boot = b}
               PROVE  u = v \/ v = w \/ u = w
      BY AtMostTwo DEF AtMostOneReplay
  <2>1. /\ u \in Uses /\ v \in Uses /\ w \in Uses
        /\ FreshAt(u) /\ FreshAt(v) /\ FreshAt(w)
      BY <1>3 DEF RecentUsesRemembered, AuthTypeOK
  <2>2. \A x, y \in {u, v, w} : x # y => x.at - y.at > Horizon \/ y.at - x.at > Horizon
      BY <1>3 DEF ReusesAreFarApart, UsesWereSigned
  <2>3. \A x, y \in {u, v, w} : x.at - y.at < Horizon + TicksPerSecond
      BY <2>1, FreshWindow
  <2>4. u.at \in Int /\ v.at \in Int /\ w.at \in Int
      BY <2>1 DEF Uses, Ticks
  <2>5. Horizon >= TicksPerSecond /\ Horizon \in Nat /\ TicksPerSecond \in Nat
    <3>1. MaxAge \in Nat /\ TicksPerSecond \in Nat /\ 1 <= 2 * MaxAge
        BY AuthAssumption
    <3>2. 1 * TicksPerSecond <= (2 * MaxAge) * TicksPerSecond
        BY <3>1, ProductsKeepOrder
    <3> QED
        BY <3>1, <3>2, HorizonIsNat DEF Horizon
  <2> QED
      BY <2>2, <2>3, <2>4, <2>5
<1> QED
    BY <1>1, <1>2, <1>3, RecentUsesAreRemembered, ReusesStayFarApart, NothingUnsigned, PTL DEF AuthSpec

-----------------------------------------------------------------------------
(* The rate limiter. *)

LEMMA DaysOfTicks ==
    /\ 0 \in Instants /\ 0 \in Days
    /\ \A t \in Instants : DayOf(t) \in Days
    /\ Days \subseteq Nat /\ Instants \subseteq Nat
<1>1. ASSUME NEW t \in Instants
      PROVE  DayOf(t) \in Nat /\ DayOf(t) <= DayOf(MaxInstant)
    BY LimiterAssumption, SMTT(30) DEF Instants, DayOf
<1>2. 0 \in Instants /\ Instants \subseteq Nat
    BY LimiterAssumption DEF Instants
<1>3. MaxInstant \in Instants
    BY LimiterAssumption DEF Instants
<1> HIDE DEF DayOf
<1> QED
    BY <1>1, <1>2, <1>3 DEF Days

LEMMA CapTimes ==
    ASSUME NEW n \in Nat
    PROVE  /\ Cap * n \in Nat /\ Cap \in Nat
           /\ Cap * (n + 1) = Cap * n + Cap
    BY LimiterAssumption

(* The window a request is counted in is a window, and so is every window  *)
(* that a full table keeps.                                                *)
LEMMA WindowsStayTyped ==
    ASSUME LimiterTypeOK, NEW t \in Workers, request[t].pc = "lock", request[t].ip \in Ips
    PROVE  /\ [counters EXCEPT ![request[t].ip] = Counted(request[t])] \in [Ips -> [start : Instants, count : 0 .. MaxRequests + 1]]
           /\ Evicted([counters EXCEPT ![request[t].ip] = Counted(request[t])], request[t].now)
                \in [Ips -> [start : Instants, count : 0 .. MaxRequests + 1]]
<1> DEFINE W == [start : Instants, count : 0 .. MaxRequests + 1]
<1>1. request[t].now \in Instants /\ 0 \in Instants
    BY DaysOfTicks DEF LimiterTypeOK, CallStates
<1>2. Counted(request[t]) \in W
  <2>1. /\ 0 \in 0 .. MaxRequests + 1 /\ 1 \in 0 .. MaxRequests + 1
        /\ \A n \in 0 .. MaxRequests + 1 :
             (IF n > MaxRequests THEN n ELSE n + 1) \in 0 .. MaxRequests + 1
      BY LimiterAssumption
  <2>2. counters[request[t].ip] \in W
      BY DEF LimiterTypeOK
  <2>3. [start |-> request[t].now, count |-> 0] \in W
      BY <1>1, <2>1
  <2> QED
      BY <1>1, <2>1, <2>2, <2>3 DEF Counted
<1>3. [counters EXCEPT ![request[t].ip] = Counted(request[t])] \in [Ips -> W]
    BY <1>2 DEF LimiterTypeOK
<1>4. NoWindow \in W
    BY <1>1, LimiterAssumption DEF NoWindow
<1> QED
    BY <1>3, <1>4 DEF Evicted

(* The ledger's arithmetic for one day d, x and y its count before and     *)
(* after, s and s2 the limiter's own.                                      *)
LEMMA LedgerArithmetic ==
    ASSUME NEW cap \in Nat, NEW owed \in Nat, NEW owed2 \in Nat, NEW d \in Nat,
           NEW from \in Nat, NEW to \in Nat, NEW x \in Nat, NEW y \in Nat,
           NEW s \in Nat, NEW s2 \in Nat, s <= cap,
           d > from => x <= owed,
           d = from => x <= owed + s,
           d < from => x <= owed + cap,
           d # to => y = x,
           d = to /\ from = to => y - s2 = x - s,
           d = to /\ from # to => y - s2 = x,
           to < from => owed2 = owed + cap,
           ~(to < from) => owed2 = owed
    PROVE  /\ d > to => y <= owed2
           /\ d = to => y <= owed2 + s2
           /\ d < to => y <= owed2 + cap
    OBVIOUS

(* What the three ways to leave the lock do to the daily count.            *)
LEMMA CapLedgerStep ==
    ASSUME CapLedger, NEW today \in Days, RollOver(today),
           \/ /\ servedToday' = CountOn(today) /\ UNCHANGED servedOn
           \/ /\ ~Capped(CountOn(today)) /\ servedToday' = CountOn(today) + 1
              /\ servedOn' = [servedOn EXCEPT ![today] = @ + 1]
    PROVE  /\ day' \in Days /\ servedToday' \in Nat /\ servedOn' \in [Days -> Nat] /\ rollbacks' \in Nat
           /\ servedToday' <= servedOn'[day']
           /\ Cap > 0 =>
                /\ servedToday' <= Cap
                /\ \A d \in Days :
                     /\ d > day' => servedOn'[d] <= Cap * rollbacks'
                     /\ d = day' => servedOn'[d] <= Cap * rollbacks' + servedToday'
                     /\ d < day' => servedOn'[d] <= Cap * rollbacks' + Cap
<1>1. /\ day \in Nat /\ today \in Nat /\ Days \subseteq Nat /\ servedToday \in Nat /\ rollbacks \in Nat
      /\ servedOn \in [Days -> Nat] /\ day \in Days
    BY DaysOfTicks DEF CapLedger, LimiterTypeOK
<1>2. day' = today /\ rollbacks' \in Nat
    BY <1>1 DEF RollOver
<1>3. CountOn(today) \in Nat /\ CountOn(today) <= servedOn[today]
    BY <1>1 DEF CountOn, CapLedger
<1>4. /\ servedToday' \in Nat /\ servedOn' \in [Days -> Nat]
      /\ servedToday' <= servedOn'[today]
      /\ \A d \in Days : d # today => servedOn'[d] = servedOn[d]
      /\ servedOn'[today] - servedToday' = servedOn[today] - CountOn(today)
    BY <1>1, <1>3
<1>5. ASSUME Cap > 0
      PROVE  servedToday' <= Cap
    BY <1>1, <1>3, <1>5, LimiterAssumption DEF CountOn, Capped, CapLedger
<1>6. /\ Cap * rollbacks \in Nat /\ Cap \in Nat
      /\ today < day => Cap * rollbacks' = Cap * rollbacks + Cap
      /\ ~(today < day) => Cap * rollbacks' = Cap * rollbacks
  <2>1. today < day => rollbacks' = rollbacks + 1
      BY <1>1 DEF RollOver
  <2>2. ~(today < day) => rollbacks' = rollbacks
      BY <1>1 DEF RollOver
  <2> QED
      BY <1>1, <2>1, <2>2, CapTimes
<1> DEFINE owed == Cap * rollbacks
           owed2 == Cap * rollbacks'
<1>7. ASSUME Cap > 0, NEW d \in Days
      PROVE  /\ d > day => servedOn[d] <= owed
             /\ d = day => servedOn[d] <= owed + servedToday
             /\ d < day => servedOn[d] <= owed + Cap
             /\ servedToday <= Cap
    BY <1>7 DEF CapLedger
<1>8. /\ owed \in Nat /\ Cap \in Nat
      /\ today < day => owed2 = owed + Cap
      /\ ~(today < day) => owed2 = owed
    BY <1>6
<1> HIDE DEF owed, owed2
<1>9. ASSUME Cap > 0, NEW d \in Days
      PROVE  /\ d > today => servedOn'[d] <= owed2
             /\ d = today => servedOn'[d] <= owed2 + servedToday'
             /\ d < today => servedOn'[d] <= owed2 + Cap
  <2> DEFINE x == servedOn[d]
             y == servedOn'[d]
  <2>1. d \in Nat /\ x \in Nat /\ y \in Nat
      BY <1>1, <1>4
  <2>2. /\ d > day => x <= owed
        /\ d = day => x <= owed + servedToday
        /\ d < day => x <= owed + Cap
        /\ servedToday <= Cap
      BY <1>7, <1>9
  <2>3. /\ d # today => y = x
        /\ d = today => y - servedToday' = x - CountOn(today)
        /\ servedToday' \in Nat
      BY <1>4
  <2>4. (today = day => CountOn(today) = servedToday) /\ (today # day => CountOn(today) = 0)
      BY DEF CountOn
  <2> HIDE DEF x, y
  <2>5. /\ day \in Nat /\ today \in Nat /\ servedToday \in Nat /\ owed2 \in Nat
      BY <1>1, <1>8
  <2>6. /\ d = today /\ day = today => y - servedToday' = x - servedToday
        /\ d = today /\ day # today => y - servedToday' = x
    <3>1. CASE d = today /\ day = today
        BY <2>3, <2>4, <3>1
    <3>2. CASE d = today /\ day # today
      <4>1. CountOn(today) = 0 /\ x - 0 = x
          BY <2>1, <2>4, <3>2
      <4> QED
          BY <2>3, <3>2, <4>1
    <3> QED
        BY <3>1, <3>2
  <2> DEFINE s2 == servedToday'
  <2>7. s2 \in Nat /\ (d # today => y = x)
      BY <2>3
  <2>8. /\ d = today /\ day = today => y - s2 = x - servedToday
        /\ d = today /\ day # today => y - s2 = x
      BY <2>6
  <2> HIDE DEF s2
  <2>9. /\ d > today => y <= owed2
        /\ d = today => y <= owed2 + s2
        /\ d < today => y <= owed2 + Cap
      BY <1>8, <2>1, <2>2, <2>5, <2>7, <2>8, LedgerArithmetic
  <2> QED
      BY <2>9 DEF y, s2
<1> QED
    BY <1>1, <1>2, <1>4, <1>5, <1>9 DEF owed2

LEMMA CapLedgerInvariant == LimiterSpec => []CapLedger
<1>1. ASSUME LimiterInit
      PROVE  CapLedger
  <2>1. \A n \in Nat : 0 <= Cap * n /\ Cap * n \in Nat /\ Cap \in Nat
      BY CapTimes
  <2>2. LimiterTypeOK
      BY <1>1, DaysOfTicks, LimiterAssumption
      DEF LimiterInit, LimiterTypeOK, NoWindow, IdleCall, CallStates
  <2> QED
      BY <1>1, <2>1, <2>2, DaysOfTicks DEF LimiterInit, CapLedger
<1>2. ASSUME CapLedger, [LimiterNext]_limiterVars
      PROVE  CapLedger'
  <2>0. LimiterTypeOK
      BY <1>2 DEF CapLedger
  <2>1. CASE UNCHANGED <<day, servedToday, servedOn, rollbacks>> /\ LimiterTypeOK'
      BY <1>2, <2>1 DEF CapLedger
  <2>2. CASE UNCHANGED limiterVars
      BY <2>0, <2>1, <2>2 DEF limiterVars, LimiterTypeOK
  <2>3. ASSUME NEW t \in Workers, NEW ip \in Ips, ReadMonotonic(t, ip)
        PROVE  CapLedger'
    <3>1. [pc |-> "utc", ip |-> ip, now |-> instant, today |-> 0] \in CallStates
        BY <2>0, DaysOfTicks DEF LimiterTypeOK, CallStates
    <3>2. LimiterTypeOK'
        BY <2>0, <2>3, <3>1 DEF ReadMonotonic, LimiterTypeOK, history
    <3> QED
        BY <2>1, <2>3, <3>2 DEF ReadMonotonic, history
  <2>4. ASSUME NEW t \in Workers, ReadUtc(t)
        PROVE  CapLedger'
    <3> DEFINE c1 == [request EXCEPT ![t].pc = "lock"]
               c2 == [c1 EXCEPT ![t].today = DayOf(instant)]
    <3>1. request' = c2 /\ DayOf(instant) \in Days
        BY <2>0, <2>4, DaysOfTicks DEF ReadUtc, LimiterTypeOK
    <3>2. /\ c1 \in [Workers -> CallStates]
          /\ \A s \in Workers : c1[s].ip = request[s].ip /\ (s # t => c1[s].pc = request[s].pc)
        BY <2>0 DEF LimiterTypeOK, CallStates
    <3> HIDE DEF c1
    <3>3. /\ c2 \in [Workers -> CallStates]
          /\ \A s \in Workers : c2[s].ip = c1[s].ip /\ (s # t => c2[s].pc = c1[s].pc)
        BY <3>1, <3>2 DEF CallStates
    <3> HIDE DEF c2
    <3>4. \A s \in Workers : request'[s].pc # "idle" => request'[s].ip \in Ips
        BY <2>0, <2>4, <3>1, <3>2, <3>3 DEF LimiterTypeOK, ReadUtc
    <3>5. LimiterTypeOK'
        BY <2>0, <2>4, <3>1, <3>3, <3>4 DEF ReadUtc, LimiterTypeOK, history
    <3> QED
        BY <2>1, <2>4, <3>5 DEF ReadUtc, history
  <2>5. ASSUME NEW t \in Workers, RefuseCapped(t) \/ RefuseWindow(t) \/ Serve(t)
        PROVE  CapLedger'
    <3> DEFINE today == request[t].today
    <3>1. /\ today \in Days /\ request[t].pc = "lock" /\ request[t].ip \in Ips /\ request[t].now \in Instants
        BY <2>0, <2>5 DEF RefuseCapped, RefuseWindow, Serve, LimiterTypeOK, CallStates
    <3>2. /\ RollOver(today)
          /\ \/ /\ servedToday' = CountOn(today) /\ UNCHANGED servedOn
             \/ /\ ~Capped(CountOn(today)) /\ servedToday' = CountOn(today) + 1
                /\ servedOn' = [servedOn EXCEPT ![today] = @ + 1]
        BY <2>5 DEF RefuseCapped, RefuseWindow, Serve
    <3>3. counters' \in [Ips -> [start : Instants, count : 0 .. MaxRequests + 1]]
      <4>1. CASE RefuseCapped(t)
          BY <2>0, <4>1 DEF RefuseCapped, LimiterTypeOK
      <4>2. CASE RefuseWindow(t)
        <5>1. counters' = [counters EXCEPT ![request[t].ip] = Counted(request[t])]
            BY <4>2 DEF RefuseWindow
        <5> QED
            BY <2>0, <3>1, <5>1, WindowsStayTyped
      <4>3. CASE Serve(t)
        <5>1. counters' = Evicted([counters EXCEPT ![request[t].ip] = Counted(request[t])], request[t].now)
            BY <4>3 DEF Serve
        <5> QED
            BY <2>0, <3>1, <5>1, WindowsStayTyped
      <4> QED
          BY <2>5, <4>1, <4>2, <4>3
    <3>4. /\ request' \in [Workers -> CallStates]
          /\ \A s \in Workers : request'[s].pc # "idle" => request'[s].ip \in Ips
      <4>1. request' = [request EXCEPT ![t] = IdleCall]
          BY <2>5 DEF RefuseCapped, RefuseWindow, Serve, Return
      <4>2. IdleCall \in CallStates /\ IdleCall.pc = "idle"
          BY DaysOfTicks DEF IdleCall, CallStates
      <4> QED
          BY <2>0, <4>1, <4>2 DEF LimiterTypeOK
    <3>5. hits' \in [Ips -> [Instants -> Nat]] /\ instant' \in Instants
      <4>1. CASE UNCHANGED hits
          BY <2>0, <2>5, <4>1 DEF RefuseCapped, RefuseWindow, Serve, LimiterTypeOK
      <4>2. CASE hits' = [hits EXCEPT ![request[t].ip][request[t].now] = @ + 1]
          BY <2>0, <2>5, <3>1, <4>2 DEF RefuseCapped, RefuseWindow, Serve, LimiterTypeOK
      <4> QED
          BY <2>5, <4>1, <4>2 DEF RefuseCapped, RefuseWindow, Serve
    <3> HIDE DEF today
    <3>6. /\ day' \in Days /\ servedToday' \in Nat /\ servedOn' \in [Days -> Nat] /\ rollbacks' \in Nat
          /\ servedToday' <= servedOn'[day']
          /\ Cap > 0 =>
               /\ servedToday' <= Cap
               /\ \A d \in Days :
                    /\ d > day' => servedOn'[d] <= Cap * rollbacks'
                    /\ d = day' => servedOn'[d] <= Cap * rollbacks' + servedToday'
                    /\ d < day' => servedOn'[d] <= Cap * rollbacks' + Cap
        BY <1>2, <3>1, <3>2, CapLedgerStep
    <3>7. LimiterTypeOK'
        BY <3>3, <3>4, <3>5, <3>6 DEF LimiterTypeOK
    <3> QED
        BY <3>6, <3>7 DEF CapLedger
  <2>6. CASE LimiterTick
    <3>1. instant' \in Instants
        BY <2>0, <2>6, LimiterAssumption DEF LimiterTick, LimiterTypeOK, Instants
    <3>2. LimiterTypeOK'
        BY <2>0, <2>6, <3>1 DEF LimiterTick, LimiterTypeOK, history
    <3> QED
        BY <2>1, <2>6, <3>2 DEF LimiterTick, history
  <2> QED
      BY <1>2, <2>2, <2>3, <2>4, <2>5, <2>6 DEF LimiterNext
<1> QED
    BY <1>1, <1>2, PTL DEF LimiterSpec

(* The daily cap holds up to one more Cap for every rollback, whatever the *)
(* number of threads.                                                      *)
THEOREM CapHoldsUpToRollbacks == LimiterSpec => []CapUpToRollbacks
<1>1. ASSUME CapLedger
      PROVE  CapUpToRollbacks
  <2> SUFFICES ASSUME Cap > 0, NEW d \in Days
               PROVE  servedOn[d] <= Cap * (1 + rollbacks)
      BY DEF CapUpToRollbacks
  <2>1. /\ rollbacks \in Nat /\ servedOn[d] \in Nat /\ d \in Nat /\ day \in Nat /\ servedToday \in Nat
      BY <1>1, DaysOfTicks DEF CapLedger, LimiterTypeOK
  <2>2. Cap * rollbacks \in Nat /\ Cap \in Nat
      BY <2>1, CapTimes
  <2>3. Cap * (1 + rollbacks) = Cap * rollbacks + Cap
    <3>1. 1 + rollbacks = rollbacks + 1
        BY <2>1
    <3> QED
        BY <2>1, <3>1, CapTimes
  <2> DEFINE owed == Cap * rollbacks
  <2>4. /\ servedToday <= Cap
        /\ d > day => servedOn[d] <= owed
        /\ d = day => servedOn[d] <= owed + servedToday
        /\ d < day => servedOn[d] <= owed + Cap
      BY <1>1 DEF CapLedger
  <2>5. owed \in Nat
      BY <2>2
  <2> HIDE DEF owed
  <2>6. servedOn[d] <= owed + Cap
      BY <2>1, <2>2, <2>4, <2>5
  <2> QED
      BY <2>3, <2>6 DEF owed
<1> QED
    BY <1>1, CapLedgerInvariant, PTL

(* Nobody is refused for the cap on a day that has not used it up. *)
THEOREM CapRefusalsAreJustified == LimiterSpec => CapRefusalsJustified
<1>1. CapLedger /\ [LimiterNext]_limiterVars => [CapRefusalJustified]_limiterVars
  <2> SUFFICES ASSUME CapLedger, NEW t \in Workers, RefuseCapped(t)
               PROVE  servedOn[request[t].today] >= Cap
      BY DEF CapRefusalJustified
  <2>1. /\ Cap \in Nat /\ servedToday \in Nat /\ servedOn[day] \in Nat
        /\ servedToday <= servedOn[day]
      BY LimiterAssumption DEF CapLedger, LimiterTypeOK
  <2>2. request[t].today = day /\ Cap <= servedToday
      BY <2>1 DEF RefuseCapped, Capped, CountOn
  <2> QED
      BY <2>1, <2>2
<1> QED
    BY <1>1, CapLedgerInvariant, PTL DEF LimiterSpec, CapRefusalsJustified

-----------------------------------------------------------------------------
(* The windows.  Threads are counted; openings are owed for them.          *)

All == Cardinality(Workers)
Allowance == (Cardinality(Workers) + 1) * MaxRequests - 1

LEMMA ThreadsAreCounted ==
    /\ All \in Nat \ {0}
    /\ \A U \in SUBSET Workers : /\ IsFiniteSet(U) /\ Cardinality(U) \in 0 .. All
                                 /\ U # Workers => Cardinality(U) < All
<1>1. IsFiniteSet(Workers) /\ Workers # {}
    BY LimiterAssumption
<1>2. All \in Nat /\ All # 0
    BY <1>1, FS_CardinalityType, FS_EmptySet DEF All
<1>3. ASSUME NEW U \in SUBSET Workers
      PROVE  /\ IsFiniteSet(U) /\ Cardinality(U) \in Nat /\ Cardinality(U) <= All
             /\ U # Workers => Cardinality(U) < All
    BY <1>1, FS_Subset, FS_CardinalityType DEF All
<1> QED
    BY <1>2, <1>3

LEMMA OpeningsAreLinear ==
    /\ MaxRequests \in Nat \ {0}
    /\ \A m \in Nat : Openings(m) \in Nat
    /\ \A m \in Nat : Openings(m + 1) = Openings(m) + MaxRequests - 1
    /\ \A m, k \in Nat : m <= k => Openings(m) <= Openings(k)
    /\ Allowance = Openings(All) + MaxRequests + All - 1
<1>1. MaxRequests \in Nat \ {0} /\ MaxRequests - 1 \in Nat
    BY LimiterAssumption
<1>2. \A m \in Nat : Openings(m) \in Nat
    BY <1>1 DEF Openings
<1>3. \A m \in Nat : Openings(m + 1) = Openings(m) + MaxRequests - 1
    BY <1>1 DEF Openings
<1>4. \A m, k \in Nat : m <= k => Openings(m) <= Openings(k)
    BY <1>1, ProductsKeepOrder DEF Openings
<1>5. All \in Nat /\ Cardinality(Workers) = All
    BY ThreadsAreCounted DEF All
<1>6. Allowance = Openings(All) + MaxRequests + All - 1
    BY <1>1, <1>5 DEF Openings, Allowance
<1> QED
    BY <1>1, <1>2, <1>3, <1>4, <1>6

(* What one client's span knows of a step that leaves the lock: the        *)
(* thread's reading, whether the call was the client's and was served, the *)
(* client's window and the threads still under way, before and after.      *)
Windows == [start : Instants, count : 0 .. MaxRequests + 1]

(* Another client's call, or a refusal that leaves the counters alone: the *)
(* window stays, or a full table drops it because it has run out.          *)
Spared(w, w2, now) == (w2 = w) \/ (w2 = NoWindow /\ now - w.start >= Window)

(* The client's own call: it opens a window or is counted in the last one. *)
CountedIn(w, w2, now) ==
    \/ (w = NoWindow \/ now - w.start >= Window) /\ w2.start = now /\ w2.count = 1
    \/ /\ w # NoWindow /\ now - w.start < Window
       /\ w2.start = w.start
       /\ w2.count = IF w.count > MaxRequests THEN w.count ELSE w.count + 1

LEMMA PaidStays ==
    ASSUME NEW t \in Instants, NEW now \in Instants,
           NEW served \in Nat, NEW served2 \in Nat,
           NEW w \in Windows, NEW w2 \in Windows, w # NoWindow => w.count # 0,
           NEW late \in 0 .. All, NEW late2 \in 0 .. All,
           Paid(served, w, late, t), now < t + Window,
           now < t => late2 = late - 1, ~(now < t) => late2 = late /\ late < All,
           \/ served2 = served /\ Spared(w, w2, now)
           \/ served2 = served /\ CountedIn(w, w2, now) /\ w2.count > MaxRequests
           \/ /\ served2 = served + (IF t <= now THEN 1 ELSE 0)
              /\ CountedIn(w, w2, now) /\ w2.count <= MaxRequests
    PROVE  Paid(served2, w2, late2, t)
<1> USE DEF Windows
<1> DEFINE O(m) == Openings(m)
           R == MaxRequests
           spare == IF late = All THEN All - 1 ELSE late
           spare2 == IF late2 = All THEN All - 1 ELSE late2
<1>1. /\ R \in Nat \ {0} /\ Window \in Nat \ {0} /\ t \in Nat /\ now \in Nat /\ w.start \in Nat /\ w2.start \in Nat
      /\ w.count \in 0 .. R + 1 /\ w2.count \in 0 .. R + 1
    BY LimiterAssumption DEF Instants
<1>2. /\ All \in Nat \ {0} /\ late \in Nat /\ late2 \in Nat /\ late <= All /\ late2 <= All
      /\ spare \in Nat /\ spare2 \in Nat
    BY ThreadsAreCounted
<1>3. /\ O(late) \in Nat /\ O(late2) \in Nat /\ O(spare) \in Nat /\ O(spare2) \in Nat /\ O(All) \in Nat
      /\ late <= All => O(late) <= O(All)
      /\ now < t => O(late) = O(late2) + R - 1
      /\ late2 = late => O(late2) = O(late)
      /\ now < t => O(spare2) <= O(spare) /\ spare2 = late2
  <2>1. \A m \in Nat : O(m) \in Nat
      BY OpeningsAreLinear
  <2>2. now < t => late = late2 + 1 /\ spare2 = late2 /\ late2 <= spare
      BY <1>2
  <2>3. \A m, k \in Nat : m <= k => O(m) <= O(k)
      BY OpeningsAreLinear
  <2>4. now < t => O(late) = O(late2) + R - 1
      BY <1>2, <2>2, OpeningsAreLinear
  <2> HIDE DEF O, spare, spare2
  <2> QED
      BY <1>2, <2>1, <2>2, <2>3, <2>4
<1>4. /\ ~(now < t) => late2 = late /\ spare = late /\ spare2 = late
    BY <1>2
<1>5. /\ w = NoWindow \/ w.start <= t - Window => served + O(late) <= O(All)
      /\ w # NoWindow /\ w.start > t - Window /\ w.start < t => served + Room(w) + O(spare) <= O(All)
      /\ w # NoWindow /\ w.start > t - Window /\ w.start >= t => served + Room(w) <= O(All) + R
    BY <1>1 DEF Paid, All
<1>6. /\ Room(w) \in Nat /\ Room(w) <= R /\ (w # NoWindow => Room(w) <= R - 1)
      /\ Room(w2) \in Nat /\ (w2.count = 1 => Room(w2) = R - 1)
      /\ w2.count = (IF w.count > R THEN w.count ELSE w.count + 1) /\ w2.count <= R => Room(w2) = Room(w) - 1
      /\ w2.count = (IF w.count > R THEN w.count ELSE w.count + 1) => Room(w2) <= Room(w) /\ w2.count # 0
      /\ w2.count # 0 => w2 # NoWindow
    BY <1>1 DEF Room, NoWindow
<1> SUFFICES /\ w2 = NoWindow \/ w2.start <= t - Window => served2 + O(late2) <= O(All)
             /\ w2 # NoWindow /\ w2.start > t - Window /\ w2.start < t => served2 + Room(w2) + O(spare2) <= O(All)
             /\ w2 # NoWindow /\ w2.start > t - Window /\ w2.start >= t => served2 + Room(w2) <= O(All) + R
    BY <1>1 DEF Paid, All
<1> HIDE DEF O, R, spare, spare2
<1> DEFINE room == Room(w)
           room2 == Room(w2)
<1>7. CASE served2 = served /\ Spared(w, w2, now)
  <2>1. CASE w2 = w
      BY <1>1, <1>2, <1>3, <1>4, <1>5, <1>6, <1>7, <2>1
  <2>2. CASE w2 = NoWindow /\ now - w.start >= Window
      BY <1>1, <1>2, <1>3, <1>4, <1>5, <1>6, <1>7, <2>2
  <2> QED
      BY <1>7, <2>1, <2>2 DEF Spared
<1>8. CASE served2 = served /\ CountedIn(w, w2, now) /\ w2.count > MaxRequests
    BY <1>1, <1>2, <1>3, <1>4, <1>5, <1>6, <1>8 DEF CountedIn, R
<1>9. CASE /\ served2 = served + (IF t <= now THEN 1 ELSE 0)
           /\ CountedIn(w, w2, now) /\ w2.count <= MaxRequests
  <2>1. CASE (w = NoWindow \/ now - w.start >= Window) /\ w2.start = now /\ w2.count = 1
    <3>1. CASE now < t
        BY <1>1, <1>2, <1>3, <1>5, <1>6, <1>9, <2>1, <3>1
    <3>2. CASE t <= now
        BY <1>1, <1>2, <1>3, <1>4, <1>5, <1>6, <1>9, <2>1, <3>2
    <3> QED
        BY <1>1, <3>1, <3>2
  <2>2. CASE /\ w # NoWindow /\ now - w.start < Window
             /\ w2.start = w.start
             /\ w2.count = IF w.count > MaxRequests THEN w.count ELSE w.count + 1
    <3>1. CASE now < t
        BY <1>1, <1>2, <1>3, <1>5, <1>6, <1>9, <2>2, <3>1 DEF R
    <3>2. CASE t <= now
        BY <1>1, <1>2, <1>3, <1>4, <1>5, <1>6, <1>9, <2>2, <3>2 DEF R
    <3> QED
        BY <1>1, <3>1, <3>2
  <2> QED
      BY <1>9, <2>1, <2>2 DEF CountedIn
<1> QED
    BY <1>7, <1>8, <1>9

(* What was served in a span is a sum over it. *)
LEMMA SpanSums ==
    ASSUME NEW t \in Instants, NEW f \in [Instants -> Nat]
    PROVE  /\ IsFiniteSet(Span(t)) /\ Span(t) \subseteq Instants
           /\ SumOver(f, Span(t)) \in Nat
<1>1. Span(t) \subseteq Instants
    BY DEF Span
<1>2. IsFiniteSet(Span(t))
  <2>1. 0 \in Int /\ MaxInstant \in Int
      BY LimiterAssumption
  <2>2. IsFiniteSet(Instants)
      BY <2>1, FS_Interval DEF Instants
  <2> QED
      BY <1>1, <2>2, FS_Subset
<1>3. \A x \in Span(t) : f[x] \in Nat
    BY <1>1
<1> QED
    BY <1>1, <1>2, <1>3, SumType

LEMMA ServedIsSum ==
    ASSUME NEW CONSTANT ip, NEW CONSTANT t
    PROVE  /\ ServedIn(ip, t) = SumOver(hits[ip], Span(t))
           /\ ServedIn(ip, t)' = SumOver(hits'[ip], Span(t))
<1>1. ServedIn(ip, t) = SumOver(hits[ip], Span(t))
    BY DEF ServedIn, SumOver
<1>2. (ServedIn(ip, t) = SumOver(hits[ip], Span(t)))'
    BY <1>1, PTL
<1>3. (SumOver(hits[ip], Span(t)))' = SumOver(hits'[ip], Span(t))
    BY DEF Span
<1> QED
    BY <1>1, <1>2, <1>3

LEMMA OneMoreServed ==
    ASSUME NEW t \in Instants, NEW f \in [Instants -> Nat], NEW now \in Instants
    PROVE  SumOver([f EXCEPT ![now] = @ + 1], Span(t))
             = SumOver(f, Span(t)) + (IF now \in Span(t) THEN 1 ELSE 0)
<1> DEFINE h == [f EXCEPT ![now] = @ + 1]
<1>1. \A x \in Span(t) : f[x] \in Nat /\ h[x] = IF x = now THEN f[x] + 1 ELSE f[x]
    BY SpanSums
<1>2. IsFiniteSet(Span(t)) /\ SumOver(f, Span(t)) \in Nat
    BY SpanSums
<1> HIDE DEF h
<1>3. CASE now \in Span(t)
  <2>1. SumOver(h, Span(t)) = SumOver(f, Span(t)) + 1
      BY <1>1, <1>2, <1>3, SumOfOneMore
  <2> QED
      BY <1>3, <2>1 DEF h
<1>4. CASE now \notin Span(t)
  <2>1. \A x \in Span(t) : f[x] = h[x]
      BY <1>1, <1>4
  <2>2. SumOver(f, Span(t)) = SumOver(h, Span(t))
      BY <1>2, <2>1, SumOfSame
  <2> QED
      BY <1>2, <1>4, <2>2 DEF h
<1> QED
    BY <1>3, <1>4

(* One thread less, or the same ones, is under way with such a reading.    *)
LEMMA OneLess ==
    ASSUME NEW U \in SUBSET Workers, NEW u \in Workers
    PROVE  /\ u \in U => Cardinality(U \ {u}) = Cardinality(U) - 1
           /\ u \notin U => U \ {u} = U /\ Cardinality(U) < All
<1>1. IsFiniteSet(U)
    BY ThreadsAreCounted
<1> QED
    BY <1>1, ThreadsAreCounted, FS_RemoveElement

(* A thread leaves the lock: what a span of a client makes of it.          *)
LEMMA AccountStays ==
    ASSUME NEW t \in Instants, NEW now \in Instants, NEW time \in Instants, now <= time,
           NEW served \in Nat, NEW served2 \in Nat,
           NEW w \in Windows, NEW w2 \in Windows, w # NoWindow => w.count # 0,
           NEW late \in 0 .. All, NEW late2 \in 0 .. All,
           NEW within \in 0 .. All, NEW within2 \in 0 .. All,
           Accounted(served, w, late, within, time, t),
           now < t => late2 = late - 1, ~(now < t) => late2 = late /\ late < All,
           now \in Span(t) => within2 = within - 1,
           now \notin Span(t) => within2 = within /\ within < All,
           \/ served2 = served /\ Spared(w, w2, now)
           \/ served2 = served /\ CountedIn(w, w2, now) /\ w2.count > MaxRequests
           \/ /\ served2 = served + (IF now \in Span(t) THEN 1 ELSE 0)
              /\ CountedIn(w, w2, now) /\ w2.count <= MaxRequests
    PROVE  Accounted(served2, w2, late2, within2, time, t)
<1>1. /\ t \in Nat /\ now \in Nat /\ time \in Nat /\ All \in Nat /\ Window \in Nat \ {0}
      /\ now \in Span(t) <=> t <= now /\ now < t + Window
      /\ served2 = served \/ served2 = served + (IF now \in Span(t) THEN 1 ELSE 0)
    BY LimiterAssumption, ThreadsAreCounted DEF Instants, Span
<1>2. CASE time < t /\ served = 0
    BY <1>1, <1>2 DEF Accounted
<1>3. CASE t + Window <= time /\ served + within <= Allowance
  <2>1. served2 + within2 <= Allowance
    <3>1. served2 + within2 <= served + within
      <4>1. CASE now \in Span(t)
          BY <1>1, <4>1
      <4>2. CASE now \notin Span(t)
          BY <1>1, <4>2
      <4> QED
          BY <4>1, <4>2
    <3>2. Allowance \in Int
        BY LimiterAssumption, ThreadsAreCounted DEF Allowance, All
    <3> HIDE DEF Allowance
    <3> QED
        BY <1>3, <3>1, <3>2
  <2> QED
      BY <1>3, <2>1 DEF Accounted, Allowance
<1>4. CASE t <= time /\ Paid(served, w, late, t) /\ now < t + Window
  <2>1. \/ served2 = served /\ Spared(w, w2, now)
        \/ served2 = served /\ CountedIn(w, w2, now) /\ w2.count > MaxRequests
        \/ /\ served2 = served + (IF t <= now THEN 1 ELSE 0)
           /\ CountedIn(w, w2, now) /\ w2.count <= MaxRequests
      BY <1>1, <1>4
  <2>2. Paid(served2, w2, late2, t)
      BY <1>4, <2>1, PaidStays
  <2> QED
      BY <1>4, <2>2 DEF Accounted
<1>5. CASE t <= time /\ Paid(served, w, late, t) /\ t + Window <= now
  <2>1. served2 = served /\ within2 = within /\ within <= All - 1
      BY <1>1, <1>5
  <2>2. served <= Openings(All) + MaxRequests
    <3>1. /\ Openings(late) \in Nat /\ Openings(All) \in Nat /\ MaxRequests \in Nat \ {0}
          /\ Openings(IF late = All THEN All - 1 ELSE late) \in Nat
      <4>1. All - 1 \in Nat /\ late \in Nat /\ All \in Nat
          BY ThreadsAreCounted
      <4> QED
          BY <4>1, OpeningsAreLinear
    <3>2. Room(w) \in Nat
        BY <3>1 DEF Room, Windows
    <3> QED
        BY <1>5, <3>1, <3>2 DEF Paid, All
  <2>3. Allowance = Openings(All) + MaxRequests + All - 1 /\ Openings(All) \in Nat /\ MaxRequests \in Nat
      BY <1>1, OpeningsAreLinear
  <2>4. served2 + within2 <= Allowance
    <3> HIDE DEF Allowance
    <3> QED
        BY <1>1, <2>1, <2>2, <2>3
  <2>5. t + Window <= time
      BY <1>1, <1>5
  <2> QED
      BY <2>4, <2>5 DEF Accounted, Allowance
<1> QED
    BY <1>1, <1>2, <1>3, <1>4, <1>5 DEF Accounted, Allowance

(* The counters a call leaves behind, client by client.                    *)
LEMMA CountedSomehow ==
    ASSUME WindowLedger, NEW u \in Workers, request[u].pc = "lock"
    PROVE  LET c == request[u]
               full == [counters EXCEPT ![c.ip] = Counted(c)]
           IN  /\ c.ip \in Ips /\ c.now \in Instants /\ c.now <= instant
               /\ CountedIn(counters[c.ip], Counted(c), c.now)
               /\ Counted(c).start <= instant /\ Counted(c).count # 0
               /\ full[c.ip] = Counted(c) /\ Evicted(full, c.now)[c.ip] = Counted(c)
               /\ \A ip \in Ips \ {c.ip} : /\ full[ip] = counters[ip]
                                           /\ Spared(counters[ip], Evicted(full, c.now)[ip], c.now)
<1> DEFINE c == request[u]
           w == counters[c.ip]
           full == [counters EXCEPT ![c.ip] = Counted(c)]
<1>1. /\ c.ip \in Ips /\ c.now \in Instants /\ c.now <= instant
      /\ instant \in Nat /\ c.now \in Nat
      /\ w \in Windows /\ w.start <= instant /\ w.count \in Nat /\ w.start \in Nat
      /\ counters \in [Ips -> Windows]
      /\ Window \in Nat \ {0} /\ MaxRequests \in Nat \ {0}
    BY LimiterAssumption DEF WindowLedger, LimiterTypeOK, CallStates, Instants, Windows
<1>2. /\ CountedIn(w, Counted(c), c.now)
      /\ Counted(c).start <= instant /\ Counted(c).count # 0
      /\ c.now - Counted(c).start < Window /\ Counted(c).start \in Nat
  <2> HIDE DEF w, c
  <2>1. /\ w = NoWindow \/ c.now - w.start >= Window =>
              Counted(c).start = c.now /\ Counted(c).count = 1
        /\ ~(w = NoWindow \/ c.now - w.start >= Window) =>
              /\ Counted(c).start = w.start
              /\ Counted(c).count = IF w.count > MaxRequests THEN w.count ELSE w.count + 1
      BY <1>1 DEF Counted, w, NoWindow
  <2> QED
      BY <1>1, <2>1 DEF CountedIn
<1>3. full[c.ip] = Counted(c) /\ \A ip \in Ips \ {c.ip} : full[ip] = counters[ip]
    BY <1>1
<1>4. ASSUME NEW ip \in Ips, Evicted(full, c.now)[ip] # full[ip]
      PROVE  Evicted(full, c.now)[ip] = NoWindow /\ c.now - full[ip].start >= Window
    BY <1>4 DEF Evicted
<1> HIDE DEF w, c, full
<1>5. Evicted(full, c.now)[c.ip] = Counted(c)
    BY <1>1, <1>2, <1>3, <1>4 DEF w
<1>6. \A ip \in Ips \ {c.ip} : Spared(counters[ip], Evicted(full, c.now)[ip], c.now)
    BY <1>3, <1>4 DEF Spared
<1> QED
    BY <1>1, <1>2, <1>3, <1>5, <1>6 DEF w, c, full

LEMMA WindowLedgerStep ==
    ASSUME WindowLedger, LimiterTypeOK', NEW u \in Workers,
           RefuseCapped(u) \/ RefuseWindow(u) \/ Serve(u)
    PROVE  WindowLedger'
<1> DEFINE c == request[u]
           full == [counters EXCEPT ![c.ip] = Counted(c)]
<1>1. request[u].pc = "lock" /\ request' = [request EXCEPT ![u] = IdleCall] /\ instant' = instant
    BY DEF RefuseCapped, RefuseWindow, Serve, Return
<1>2. /\ c.ip \in Ips /\ c.now \in Instants /\ c.now <= instant
      /\ CountedIn(counters[c.ip], Counted(c), c.now)
      /\ Counted(c).start <= instant /\ Counted(c).count # 0
      /\ full[c.ip] = Counted(c) /\ Evicted(full, c.now)[c.ip] = Counted(c)
      /\ \A ip \in Ips \ {c.ip} : /\ full[ip] = counters[ip]
                                  /\ Spared(counters[ip], Evicted(full, c.now)[ip], c.now)
    BY <1>1, CountedSomehow
<1>3. \/ hits' = hits /\ counters' = counters
      \/ hits' = hits /\ counters' = full /\ Counted(c).count > MaxRequests
      \/ /\ hits' = [hits EXCEPT ![c.ip][c.now] = @ + 1]
         /\ counters' = Evicted(full, c.now) /\ Counted(c).count <= MaxRequests
    BY DEF RefuseCapped, RefuseWindow, Serve
<1>4. /\ hits \in [Ips -> [Instants -> Nat]] /\ instant \in Instants
      /\ counters \in [Ips -> Windows] /\ counters' \in [Ips -> Windows]
      /\ request \in [Workers -> CallStates]
    BY DEF WindowLedger, LimiterTypeOK, Windows
<1>5. \A v \in Workers : request'[v].pc # "idle" =>
          v # u /\ request[v].pc # "idle" /\ request'[v] = request[v]
    BY <1>1, <1>4 DEF IdleCall
<1>6. \A v \in Workers : request'[v].pc # "idle" => request'[v].now <= instant'
    BY <1>1, <1>5 DEF WindowLedger
<1> HIDE DEF c, full
<1>7. ASSUME NEW ip \in Ips
      PROVE  \/ Spared(counters[ip], counters'[ip], c.now)
             \/ (ip = c.ip /\ counters'[ip] = Counted(c))
  <2>1. CASE counters' = counters
      BY <2>1 DEF Spared
  <2>2. CASE counters' = full
      BY <1>2, <2>2 DEF Spared
  <2>3. CASE counters' = Evicted(full, c.now)
      BY <1>2, <2>3
  <2> QED
      BY <1>3, <2>1, <2>2, <2>3
<1>8. \A ip \in Ips : counters'[ip].start <= instant' /\ (counters'[ip].count = 0 => counters'[ip] = NoWindow)
  <2>1. NoWindow.start <= instant
      BY <1>4 DEF NoWindow, Instants
  <2> QED
      BY <1>1, <1>2, <1>7, <2>1 DEF WindowLedger, Spared
<1>9. ASSUME NEW t \in Instants
      PROVE  /\ Cardinality(Late(t)) \in 0 .. All /\ Cardinality(Late(t)') \in 0 .. All
             /\ Cardinality(Within(t)) \in 0 .. All /\ Cardinality(Within(t)') \in 0 .. All
             /\ c.now < t => Cardinality(Late(t)') = Cardinality(Late(t)) - 1
             /\ ~(c.now < t) => Cardinality(Late(t)') = Cardinality(Late(t)) /\ Cardinality(Late(t)) < All
             /\ c.now \in Span(t) => Cardinality(Within(t)') = Cardinality(Within(t)) - 1
             /\ c.now \notin Span(t) =>
                  Cardinality(Within(t)') = Cardinality(Within(t)) /\ Cardinality(Within(t)) < All
  <2>1. Late(t) \in SUBSET Workers /\ Late(t)' = Late(t) \ {u} /\ (u \in Late(t) <=> c.now < t)
      BY <1>1, <1>4, <1>5 DEF Late, IdleCall, c
  <2>2. Within(t) \in SUBSET Workers /\ Within(t)' = Within(t) \ {u} /\ (u \in Within(t) <=> c.now \in Span(t))
    <3>1. Within(t) \in SUBSET Workers /\ (u \in Within(t) <=> c.now \in Span(t))
        BY <1>1 DEF Within, c
    <3>2. Within(t)' = {v \in Workers : request'[v].pc # "idle" /\ request'[v].now \in Span(t)}
        BY DEF Within, Span
    <3>3. Within(t)' = Within(t) \ {u}
        BY <1>1, <1>4, <1>5, <3>2 DEF Within, IdleCall
    <3> QED
        BY <3>1, <3>3
  <2>3. \A U \in SUBSET Workers :
          /\ Cardinality(U) \in 0 .. All /\ Cardinality(U \ {u}) \in 0 .. All
          /\ u \in U => Cardinality(U \ {u}) = Cardinality(U) - 1
          /\ u \notin U => Cardinality(U \ {u}) = Cardinality(U) /\ Cardinality(U) < All
    <3>1. \A U \in SUBSET Workers : U \ {u} \in SUBSET Workers
        OBVIOUS
    <3> QED
        BY <3>1, ThreadsAreCounted, OneLess
  <2> DEFINE late == Late(t)
             late2 == Late(t)'
             within == Within(t)
             within2 == Within(t)'
  <2> HIDE DEF late, late2, within, within2
  <2>4. /\ late \in SUBSET Workers /\ late2 = late \ {u} /\ (u \in late <=> c.now < t)
        /\ within \in SUBSET Workers /\ within2 = within \ {u} /\ (u \in within <=> c.now \in Span(t))
      BY <2>1, <2>2 DEF late, late2, within, within2
  <2>5. /\ Cardinality(late) \in 0 .. All /\ Cardinality(late2) \in 0 .. All
        /\ Cardinality(within) \in 0 .. All /\ Cardinality(within2) \in 0 .. All
        /\ c.now < t => Cardinality(late2) = Cardinality(late) - 1
        /\ ~(c.now < t) => Cardinality(late2) = Cardinality(late) /\ Cardinality(late) < All
        /\ c.now \in Span(t) => Cardinality(within2) = Cardinality(within) - 1
        /\ c.now \notin Span(t) => Cardinality(within2) = Cardinality(within) /\ Cardinality(within) < All
      BY <2>3, <2>4
  <2> QED
      BY <2>5 DEF late, late2, within, within2
<1>10. ASSUME NEW t \in Instants, NEW ip \in Ips
       PROVE  /\ ServedIn(ip, t) \in Nat /\ ServedIn(ip, t)' \in Nat
              /\ \/ ServedIn(ip, t)' = ServedIn(ip, t) /\ Spared(counters[ip], counters'[ip], c.now)
                 \/ /\ ServedIn(ip, t)' = ServedIn(ip, t)
                    /\ CountedIn(counters[ip], counters'[ip], c.now) /\ counters'[ip].count > MaxRequests
                 \/ /\ ServedIn(ip, t)' = ServedIn(ip, t) + (IF c.now \in Span(t) THEN 1 ELSE 0)
                    /\ CountedIn(counters[ip], counters'[ip], c.now) /\ counters'[ip].count <= MaxRequests
  <2>1. hits[ip] \in [Instants -> Nat]
      BY <1>4
  <2>2. ServedIn(ip, t) = SumOver(hits[ip], Span(t)) /\ ServedIn(ip, t)' = SumOver(hits'[ip], Span(t))
      BY ServedIsSum
  <2>3. SumOver(hits[ip], Span(t)) \in Nat
      BY <2>1, SpanSums
  <2>4. CASE hits'[ip] = hits[ip] /\ Spared(counters[ip], counters'[ip], c.now)
      BY <2>2, <2>3, <2>4
  <2>5. CASE hits' = hits /\ ip = c.ip /\ counters'[ip] = Counted(c) /\ Counted(c).count > MaxRequests
      BY <1>2, <2>2, <2>3, <2>5
  <2>6. CASE /\ ip = c.ip /\ hits' = [hits EXCEPT ![c.ip][c.now] = @ + 1]
             /\ counters'[ip] = Counted(c) /\ Counted(c).count <= MaxRequests
    <3>1. hits'[ip] = [hits[ip] EXCEPT ![c.now] = @ + 1]
        BY <1>4, <2>6
    <3>2. SumOver(hits'[ip], Span(t)) = SumOver(hits[ip], Span(t)) + (IF c.now \in Span(t) THEN 1 ELSE 0)
        BY <1>2, <2>1, <3>1, OneMoreServed
    <3> QED
        BY <1>2, <2>2, <2>3, <2>6, <3>2
  <2>7. ip # c.ip => hits'[ip] = hits[ip] /\ Spared(counters[ip], counters'[ip], c.now)
    <3>1. ip # c.ip => hits'[ip] = hits[ip]
        BY <1>2, <1>3, <1>4
    <3> QED
        BY <1>7, <3>1
  <2>8. counters' = counters => Spared(counters[ip], counters'[ip], c.now)
      BY DEF Spared
  <2> QED
      BY <1>2, <1>3, <2>4, <2>5, <2>6, <2>7, <2>8
<1>11. ASSUME NEW t \in Instants, NEW ip \in Ips
       PROVE  Accounted(ServedIn(ip, t), counters[ip], Cardinality(Late(t)), Cardinality(Within(t)), instant, t)'
  <2> DEFINE served == ServedIn(ip, t)
             served2 == ServedIn(ip, t)'
             late == Cardinality(Late(t))
             late2 == Cardinality(Late(t)')
             within == Cardinality(Within(t))
             within2 == Cardinality(Within(t)')
             w == counters[ip]
             w2 == counters'[ip]
  <2>1. Accounted(served, w, late, within, instant, t) /\ (w # NoWindow => w.count # 0)
      BY DEF WindowLedger
  <2>2. w \in Windows /\ w2 \in Windows
      BY <1>4
  <2>3. Accounted(served2, w2, late2, within2, instant, t)
      <3> HIDE DEF served, served2, late, late2, within, within2, w, w2
      <3>1. /\ late \in 0 .. All /\ late2 \in 0 .. All /\ within \in 0 .. All /\ within2 \in 0 .. All
            /\ c.now < t => late2 = late - 1
            /\ ~(c.now < t) => late2 = late /\ late < All
            /\ c.now \in Span(t) => within2 = within - 1
            /\ c.now \notin Span(t) => within2 = within /\ within < All
          BY <1>9 DEF late, late2, within, within2
      <3>2. /\ served \in Nat /\ served2 \in Nat
            /\ \/ served2 = served /\ Spared(w, w2, c.now)
               \/ served2 = served /\ CountedIn(w, w2, c.now) /\ w2.count > MaxRequests
               \/ /\ served2 = served + (IF c.now \in Span(t) THEN 1 ELSE 0)
                  /\ CountedIn(w, w2, c.now) /\ w2.count <= MaxRequests
          BY <1>10 DEF served, served2, w, w2
      <3> QED
          BY <1>2, <1>4, <2>1, <2>2, <3>1, <3>2, AccountStays
  <2> QED
      BY <1>1, <2>3 DEF Accounted, Paid, Openings, Room
<1> QED
    BY <1>6, <1>8, <1>11 DEF WindowLedger

(* Time passes, or a thread reads the clock: what a span makes of it.      *)
LEMMA AccountWaits ==
    ASSUME NEW t \in Instants, NEW time \in Nat, NEW time2 \in {time, time + 1},
           NEW served \in Nat, NEW w \in Windows, w # NoWindow => w.count # 0, w.start <= time,
           NEW late \in 0 .. All, NEW late2 \in 0 .. All, NEW within, NEW within2,
           Accounted(served, w, late, within, time, t),
           t <= time => late2 = late, t + Window <= time => within2 = within
    PROVE  Accounted(served, w, late2, within2, time2, t)
<1>1. /\ t \in Nat /\ All \in Nat \ {0} /\ Window \in Nat \ {0} /\ MaxRequests \in Nat \ {0}
      /\ w.start \in Nat /\ w.count \in 0 .. MaxRequests + 1 /\ late2 \in Nat
    BY LimiterAssumption, ThreadsAreCounted DEF Instants, Windows
<1>2. CASE time < t /\ served = 0 /\ ~(time2 < t)
  <2> DEFINE spare == IF late2 = All THEN All - 1 ELSE late2
  <2>1. spare \in Nat /\ spare + 1 <= All /\ spare + 1 \in Nat /\ late2 <= All /\ All \in Nat
      BY <1>1
  <2>2. /\ Openings(late2) \in Nat /\ Openings(All) \in Nat /\ Openings(spare) \in Nat
        /\ Openings(late2) <= Openings(All)
        /\ Openings(spare + 1) <= Openings(All)
        /\ Openings(spare + 1) = Openings(spare) + MaxRequests - 1
    <3> HIDE DEF spare
    <3> QED
        BY <1>1, <2>1, OpeningsAreLinear
  <2>3. w # NoWindow => Room(w) \in Nat /\ Room(w) <= MaxRequests - 1
      BY <1>1 DEF Room
  <2>4. w.start < t
      BY <1>1, <1>2
  <2>5. Paid(0, w, late2, t)
    <3>1. /\ 0 + Openings(late2) <= Openings(All)
          /\ w # NoWindow => 0 + Room(w) + Openings(spare) <= Openings(All)
      <4> HIDE DEF spare
      <4> QED
          BY <1>1, <2>2, <2>3
    <3> QED
        BY <2>4, <3>1 DEF Paid, All
  <2> QED
      BY <1>1, <1>2, <2>5 DEF Accounted
<1>3. CASE time2 < t /\ served = 0
    BY <1>3 DEF Accounted
<1>4. CASE t <= time /\ Paid(served, w, late, t)
    BY <1>1, <1>4 DEF Accounted
<1>5. CASE t + Window <= time /\ served + within <= Allowance
    BY <1>1, <1>5 DEF Accounted, Allowance
<1> QED
    BY <1>1, <1>2, <1>3, <1>4, <1>5 DEF Accounted, Allowance

LEMMA WindowLedgerWaits ==
    ASSUME WindowLedger, LimiterTypeOK', UNCHANGED <<counters, hits>>,
           instant' \in {instant, instant + 1},
           \A v \in Workers : request'[v].pc # "idle" => request'[v].now <= instant',
           \A t \in Instants : t <= instant => Late(t)' = Late(t),
           \A t \in Instants : t + Window <= instant => Within(t)' = Within(t)
    PROVE  WindowLedger'
<1>1. /\ instant \in Nat /\ counters \in [Ips -> Windows] /\ hits \in [Ips -> [Instants -> Nat]]
      /\ \A ip \in Ips : counters[ip].start \in Nat
    BY DEF WindowLedger, LimiterTypeOK, Windows, Instants
<1>2. ASSUME NEW ip \in Ips, NEW t \in Instants
      PROVE  Accounted(ServedIn(ip, t), counters[ip], Cardinality(Late(t)), Cardinality(Within(t)), instant, t)'
  <2> DEFINE served == ServedIn(ip, t)
             late == Cardinality(Late(t))
             late2 == Cardinality(Late(t)')
             within == Cardinality(Within(t))
             within2 == Cardinality(Within(t)')
             w == counters[ip]
  <2>1. ServedIn(ip, t)' = served /\ served \in Nat
    <3>1. hits'[ip] = hits[ip] /\ hits[ip] \in [Instants -> Nat]
        BY <1>1
    <3> QED
        BY <3>1, ServedIsSum, SpanSums
  <2>2. late \in 0 .. All /\ late2 \in 0 .. All
    <3>1. Late(t) \in SUBSET Workers /\ Late(t)' \in SUBSET Workers
        BY DEF Late
    <3> QED
        BY <3>1, ThreadsAreCounted
  <2>3. /\ w \in Windows /\ (w # NoWindow => w.count # 0) /\ w.start <= instant
        /\ Accounted(served, w, late, within, instant, t)
      BY <1>1 DEF WindowLedger
  <2>4. /\ t <= instant => late2 = late
        /\ t + Window <= instant => within2 = within
      OBVIOUS
  <2>5. Accounted(served, w, late2, within2, instant', t)
    <3> DEFINE time2 == instant'
    <3>1. time2 \in {instant, instant + 1} /\ instant \in Nat
        BY <1>1
    <3> HIDE DEF time2, served, late, late2, within, within2, w
    <3>2. served \in Nat
        BY <2>1
    <3>3. Accounted(served, w, late2, within2, time2, t)
        BY <2>2, <2>3, <2>4, <3>1, <3>2, AccountWaits
    <3> QED
        BY <3>3 DEF time2
  <2> QED
      BY <2>1, <2>5 DEF Accounted, Paid, Openings, Room
<1>3. \A ip \in Ips : counters'[ip].start <= instant' /\ (counters'[ip].count = 0 => counters'[ip] = NoWindow)
    BY <1>1 DEF WindowLedger
<1> QED
    BY <1>2, <1>3 DEF WindowLedger

LEMMA WindowLedgerInvariant == LimiterSpec => []WindowLedger
<1>1. ASSUME LimiterInit
      PROVE  WindowLedger
  <2>1. LimiterTypeOK
      BY <1>1, DaysOfTicks, LimiterAssumption
      DEF LimiterInit, LimiterTypeOK, NoWindow, IdleCall, CallStates
  <2>2. /\ \A u \in Workers : request[u].pc = "idle"
        /\ \A ip \in Ips : counters[ip] = NoWindow
        /\ instant = 0 /\ NoWindow.start = 0
      BY <1>1 DEF LimiterInit, IdleCall, NoWindow
  <2>3. ASSUME NEW ip \in Ips, NEW t \in Instants
        PROVE  Accounted(ServedIn(ip, t), counters[ip],
                         Cardinality(Late(t)), Cardinality(Within(t)), instant, t)
    <3>1. Late(t) = {} /\ Cardinality(Late(t)) = 0
        BY <2>2, FS_EmptySet DEF Late
    <3>2. ServedIn(ip, t) = 0
      <4>1. hits[ip] \in [Instants -> Nat] /\ \A s \in Instants : hits[ip][s] = 0
          BY <1>1 DEF LimiterInit
      <4>2. SumOver(hits[ip], Span(t)) = 0
          BY <4>1, SpanSums, SumOfNothing
      <4> QED
          BY <4>2, ServedIsSum
    <3>3. Paid(0, NoWindow, 0, t)
      <4>1. Openings(0) \in Nat /\ Openings(All) \in Nat /\ Openings(0) <= Openings(All)
          BY OpeningsAreLinear, ThreadsAreCounted
      <4> QED
          BY <4>1 DEF Paid, All
    <3>4. t \in Nat
        BY DEF Instants
    <3>5. CASE t = 0
        BY <2>2, <3>1, <3>2, <3>3, <3>5 DEF Accounted
    <3>6. CASE 0 < t
        BY <2>2, <3>2, <3>6 DEF Accounted
    <3> QED
        BY <3>4, <3>5, <3>6
  <2> QED
      BY <2>1, <2>2, <2>3 DEF WindowLedger
<1>2. ASSUME WindowLedger, LimiterTypeOK', [LimiterNext]_limiterVars
      PROVE  WindowLedger'
  <2>0. /\ instant \in Nat /\ request \in [Workers -> CallStates] /\ Window \in Nat
        /\ \A v \in Workers : request[v].pc # "idle" => request[v].now <= instant
      BY <1>2, LimiterAssumption DEF WindowLedger, LimiterTypeOK, Instants
  <2>1. CASE UNCHANGED limiterVars
      BY <1>2, <2>0, <2>1, WindowLedgerWaits DEF limiterVars, Late, Within, Span
  <2>2. ASSUME NEW u \in Workers, NEW ip \in Ips, ReadMonotonic(u, ip)
        PROVE  WindowLedger'
    <3>1. /\ UNCHANGED <<counters, hits, instant>>
          /\ request[u].pc = "idle" /\ request'[u].now = instant
          /\ \A v \in Workers \ {u} : request'[v] = request[v]
        BY <2>0, <2>2 DEF ReadMonotonic, history
    <3>2. ASSUME NEW t \in Instants, t <= instant
          PROVE  Late(t)' = Late(t)
      <4>1. ~(instant < t)
          BY <2>0, <3>2 DEF Instants
      <4> QED
          BY <3>1, <4>1 DEF Late
    <3>3. ASSUME NEW t \in Instants, t + Window <= instant
          PROVE  Within(t)' = Within(t)
      <4>1. instant \notin Span(t)
          BY <2>0, <3>3 DEF Span, Instants
      <4>2. Within(t)' = {v \in Workers : request'[v].pc # "idle" /\ request'[v].now \in Span(t)}
          BY DEF Within, Span
      <4> QED
          BY <3>1, <4>1, <4>2 DEF Within
    <3>4. \A v \in Workers : request'[v].pc # "idle" => request'[v].now <= instant'
        BY <2>0, <3>1
    <3> QED
        BY <1>2, <3>1, <3>2, <3>3, <3>4, WindowLedgerWaits
  <2>3. ASSUME NEW u \in Workers, ReadUtc(u)
        PROVE  WindowLedger'
    <3>1. /\ UNCHANGED <<counters, hits, instant>>
          /\ \A v \in Workers : /\ request'[v].pc # "idle" <=> request[v].pc # "idle"
                                /\ request'[v].now = request[v].now
        BY <2>0, <2>3 DEF ReadUtc, history, CallStates
    <3>2. \A t \in Instants : Late(t)' = Late(t)
        BY <3>1 DEF Late
    <3>3. \A t \in Instants : Within(t)' = Within(t)
        BY <3>1 DEF Within, Span
    <3>4. \A v \in Workers : request'[v].pc # "idle" => request'[v].now <= instant'
        BY <2>0, <3>1
    <3> QED
        BY <1>2, <3>1, <3>2, <3>3, <3>4, WindowLedgerWaits
  <2>4. ASSUME NEW u \in Workers, RefuseCapped(u) \/ RefuseWindow(u) \/ Serve(u)
        PROVE  WindowLedger'
      BY <1>2, <2>4, WindowLedgerStep
  <2>5. CASE LimiterTick
    <3>1. UNCHANGED <<counters, hits, request>> /\ instant' = instant + 1
        BY <2>5 DEF LimiterTick, history
    <3>2. \A t \in Instants : Late(t)' = Late(t) /\ Within(t)' = Within(t)
        BY <3>1 DEF Late, Within, Span
    <3>3. \A v \in Workers : request'[v].pc # "idle" => request'[v].now <= instant'
      <4>1. \A v \in Workers : request[v].now \in Nat
          BY <2>0 DEF CallStates, Instants
      <4> QED
          BY <2>0, <3>1, <4>1
    <3> QED
        BY <1>2, <3>1, <3>2, <3>3, WindowLedgerWaits
  <2> QED
      BY <1>2, <2>1, <2>2, <2>3, <2>4, <2>5 DEF LimiterNext
<1> QED
    BY <1>1, <1>2, CapLedgerInvariant, PTL DEF LimiterSpec, CapLedger

(* A client is served no more than two allowances, less one, in any span   *)
(* of one window's length, and one allowance more for each thread beyond   *)
(* the first: whatever order the threads enter the lock in, and whichever  *)
(* windows a full table drops in between.                                  *)
THEOREM WindowsAreBounded == LimiterSpec => []StraddledWindowsBound
<1>1. ASSUME WindowLedger
      PROVE  StraddledWindowsBound
  <2> SUFFICES ASSUME NEW ip \in Ips, NEW t \in Instants
               PROVE  ServedIn(ip, t) <= Allowance
      BY DEF StraddledWindowsBound, Allowance
  <2> DEFINE served == ServedIn(ip, t)
             w == counters[ip]
             late == Cardinality(Late(t))
             within == Cardinality(Within(t))
             spare == IF late = All THEN All - 1 ELSE late
  <2>1. /\ served \in Nat /\ w \in Windows /\ late \in 0 .. All /\ within \in 0 .. All
        /\ Accounted(served, w, late, within, instant, t)
    <3>1. hits[ip] \in [Instants -> Nat]
        BY <1>1 DEF WindowLedger, LimiterTypeOK
    <3>2. served \in Nat
        BY <3>1, ServedIsSum, SpanSums
    <3>3. late \in 0 .. All /\ within \in 0 .. All
      <4>1. Late(t) \in SUBSET Workers /\ Within(t) \in SUBSET Workers
          BY DEF Late, Within
      <4> QED
          BY <4>1, ThreadsAreCounted
    <3> QED
        BY <1>1, <3>2, <3>3 DEF WindowLedger, LimiterTypeOK, Windows
  <2>2. /\ MaxRequests \in Nat \ {0} /\ All \in Nat \ {0}
        /\ Allowance = Openings(All) + MaxRequests + All - 1
        /\ Openings(All) \in Nat /\ Openings(late) \in Nat /\ Openings(spare) \in Nat
    <3>1. late \in Nat /\ spare \in Nat /\ All \in Nat \ {0}
        BY <2>1, ThreadsAreCounted
    <3> QED
        BY <3>1, OpeningsAreLinear
  <2>3. Room(w) \in Nat
      BY <2>1, <2>2 DEF Room, Windows
  <2>4. Paid(served, w, late, t) => served <= Openings(All) + MaxRequests
      BY <2>1, <2>2, <2>3 DEF Paid, All
  <2>5. \/ served = 0
        \/ Paid(served, w, late, t)
        \/ served + within <= Allowance
      BY <2>1 DEF Accounted, Allowance
  <2> HIDE DEF served, w, late, within, spare, Allowance
  <2>6. served <= Allowance
      BY <2>1, <2>2, <2>4, <2>5
  <2> QED
      BY <2>6 DEF served
<1> QED
    BY <1>1, WindowLedgerInvariant, PTL
=============================================================================
