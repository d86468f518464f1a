----------------------------- MODULE Maintenance -----------------------------
(***************************************************************************)
(* The throttled purge of expired test listings (app/core/maintenance.py)  *)
(* that piggybacks on normal requests and on startup.  A purge that fails  *)
(* is logged and swallowed, after it has already used up its turn.         *)
(***************************************************************************)
EXTENDS ListingStore

CONSTANT PurgeInterval    \* PURGE_MIN_INTERVAL_SECONDS, in clock ticks

ASSUME PurgeIntervalAssumption == PurgeInterval \in Nat \ {0}

VARIABLE lastPurge        \* _last_run; NoTime when no purge ran in this process

PurgeTypeOK == lastPurge \in Time \cup {NoTime}

Purged(D) == [i \in Ids |-> IF i \in D THEN Gone ELSE listings[i]]

(* purge_expired_test_listings, or an exception on the way to it. *)
PurgeOrFail ==
    /\ \/ \E D \in PurgeSets : listings' = Purged(D)
       \/ UNCHANGED listings
    /\ UNCHANGED <<doNotImport, clock>>

PurgeDue == lastPurge = NoTime \/ clock - lastPurge >= PurgeInterval

(* maybe_purge: _last_run moves before the purge is attempted. *)
MaybePurge ==
    \/ PurgeDue /\ lastPurge' = clock /\ PurgeOrFail
    \/ ~PurgeDue /\ UNCHANGED <<storeVars, lastPurge>>

(* startup_maintenance: _last_run moves only after the purge succeeded. *)
StartupMaintenance ==
    \/ /\ lastPurge' = clock
       /\ \E D \in PurgeSets : listings' = Purged(D)
       /\ UNCHANGED <<doNotImport, clock>>
    \/ lastPurge' = NoTime /\ UNCHANGED storeVars

=============================================================================
