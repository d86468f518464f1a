----------------------------- MODULE WalletAuth -----------------------------
(***************************************************************************)
(* verify_wallet_auth (app/core/wallet_auth.py): one signed header lets    *)
(* one request through.  The route handlers are coroutines and the         *)
(* function awaits nothing, so a call is one step.                         *)
(*                                                                         *)
(* Time is kept in ticks, several to a second, because the freshness check *)
(* truncates the clock to whole seconds and the memory of used nonces does *)
(* not.  time.time() and time.monotonic() advance together here.           *)
(***************************************************************************)
EXTENDS Integers, FiniteSets

CONSTANTS
    Wallets,          \* addresses that sign, and that handlers expect
    Purposes,         \* what one signature is for: an action, a listing, a body
    Nonces,
    Sent,             \* the headers clients send in this instance
    MaxAge,           \* SIGNATURE_MAX_AGE_SECONDS
    TicksPerSecond,
    MaxTick,          \* bound on the clock
    MaxBoots          \* bound on restarts

ASSUME AuthAssumption ==
    /\ MaxAge \in Nat
    /\ TicksPerSecond \in Nat \ {0}
    /\ MaxTick \in Nat
    /\ MaxBoots \in Nat

VARIABLES
    tick,             \* the server's clock
    boot,             \* how often the server has restarted
    seen,             \* _seen_nonces: records of an (address, nonce) pair
    uses              \* the requests let through so far (history)

authVars == <<tick, boot, seen, uses>>

Ticks == 0 .. MaxTick
Seconds == 0 .. (MaxTick \div TicksPerSecond + MaxAge)

(* What is signed: _build_message.  A header carries the signature, the    *)
(* timestamp and the nonce; the purpose is the request's own.              *)
Messages == [purpose : Purposes, timestamp : Seconds, nonce : Nonces]
Signatures == [signer : Wallets, message : Messages]
Headers == [signature : Signatures, timestamp : Seconds, nonce : Nonces]

ASSUME SentAssumption == Sent \subseteq Headers

(* Account.recover_message over the message the server rebuilds: any other *)
(* message recovers some other address.                                    *)
Recovers(header, purpose, expected) ==
    /\ header.signature.message = [purpose |-> purpose, timestamp |-> header.timestamp,
                                   nonce |-> header.nonce]
    /\ header.signature.signer = expected

(* abs(now - timestamp) <= SIGNATURE_MAX_AGE_SECONDS, now = int(time.time()) *)
IsFresh(timestamp) ==
    LET now == tick \div TicksPerSecond IN now - timestamp <= MaxAge /\ timestamp - now <= MaxAge

Horizon == 2 * MaxAge * TicksPerSecond

(* Mutant: used nonces are remembered for one MaxAge.                      *)
PrunedEarly == {e \in seen : 2 * (tick - e.at) <= Horizon}

(* _prune_expired_nonces *)
Pruned == {e \in seen : tick - e.at <= Horizon}

Remembered(address, nonce) == \E e \in Pruned : e.address = address /\ e.nonce = nonce
Entry(address, nonce) == [address |-> address, nonce |-> nonce, at |-> tick]

-----------------------------------------------------------------------------
(* 401 stale_signature *)
Stale(header) == ~IsFresh(header.timestamp) /\ UNCHANGED authVars

(* 401 replayed_signature *)
Replayed(header, expected) ==
    /\ IsFresh(header.timestamp)
    /\ Remembered(expected, header.nonce)
    /\ seen' = Pruned
    /\ UNCHANGED <<tick, boot, uses>>

(* 401 invalid_signature or 403 wrong_signer, after the nonce was claimed. *)
WrongSigner(header, purpose, expected) ==
    /\ IsFresh(header.timestamp)
    /\ ~Remembered(expected, header.nonce)
    /\ ~Recovers(header, purpose, expected)
    /\ seen' = Pruned \cup {Entry(expected, header.nonce)}
    /\ UNCHANGED <<tick, boot, uses>>

Accept(header, purpose, expected) ==
    /\ IsFresh(header.timestamp)
    /\ ~Remembered(expected, header.nonce)
    /\ Recovers(header, purpose, expected)
    /\ seen' = Pruned \cup {Entry(expected, header.nonce)}
    /\ uses' = uses \cup {[header |-> header, purpose |-> purpose, address |-> expected,
                           at |-> tick, boot |-> boot]}
    /\ UNCHANGED <<tick, boot>>

AuthTick == tick < MaxTick /\ tick' = tick + 1 /\ UNCHANGED <<boot, seen, uses>>

(* The memory of used nonces is the process's own. *)
Reboot == boot < MaxBoots /\ boot' = boot + 1 /\ seen' = {} /\ UNCHANGED <<tick, uses>>

AuthInit == tick = 0 /\ boot = 0 /\ seen = {} /\ uses = {}

AuthNext ==
    \/ \E header \in Sent, expected \in Wallets, purpose \in Purposes :
         \/ Stale(header)
         \/ Replayed(header, expected)
         \/ WrongSigner(header, purpose, expected)
         \/ Accept(header, purpose, expected)
    \/ AuthTick
    \/ Reboot

AuthSpec == AuthInit /\ [][AuthNext]_authVars

-----------------------------------------------------------------------------
Entries == [address : Wallets, nonce : Nonces, at : Ticks]
Uses == [header : Headers, purpose : Purposes, address : Wallets, at : Ticks, boot : 0 .. MaxBoots]

AuthTypeOK ==
    /\ tick \in Ticks
    /\ boot \in 0 .. MaxBoots
    /\ seen \subseteq Entries
    /\ uses \subseteq Uses

(* Every request let through was for exactly what the expected wallet      *)
(* signed, whatever header arrived with it: a signature for one thing is   *)
(* never authorization for another (wallet_auth.py:7-9), and the address   *)
(* recovered is the one whose nonce was used up.                           *)
UsesWereSigned ==
    \A u \in uses :
        /\ u.header.signature.signer = u.address
        /\ u.header.signature.message.purpose = u.purpose

(* Within one process two requests under one (wallet, nonce) pair are more *)
(* than two MaxAge apart, however requests, refusals and pruning           *)
(* interleave.                                                             *)
ReusesAreFarApart ==
    \A u, v \in uses :
        /\ u # v /\ u.boot = v.boot
        /\ u.address = v.address /\ u.header.nonce = v.header.nonce
        => u.at - v.at > Horizon \/ v.at - u.at > Horizon

(* "so a captured header can't be replayed even once, not even for the     *)
(* exact same edit" (wallet_auth.py:37-39, README.md:279-282): one process *)
(* lets each header through once.                                          *)
NeverReplayed ==
    \A u, v \in uses : u.header = v.header /\ u.boot = v.boot => u = v

(* What the code does keep of it: one process lets no header through more  *)
(* than twice, as the freshness window is less than a second longer than   *)
(* the memory of used nonces.                                              *)
AtMostOneReplay ==
    \A h \in {u.header : u \in uses}, b \in 0 .. MaxBoots :
        Cardinality({u \in uses : u.header = h /\ u.boot = b}) <= 2

(* What ReusesAreFarApart rests on: a use still within the horizon is      *)
(* remembered.                                                             *)
RecentUsesRemembered ==
    /\ AuthTypeOK
    /\ \A u \in uses : u.at <= tick /\ u.boot <= boot
    /\ \A u \in uses :
         u.boot = boot /\ tick - u.at <= Horizon =>
            [address |-> u.address, nonce |-> u.header.nonce, at |-> u.at] \in seen
=============================================================================
