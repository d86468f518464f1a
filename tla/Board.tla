-------------------------------- MODULE Board --------------------------------
(***************************************************************************)
(* The board: request handlers, imports and the purge over one database,   *)
(* with a server process that may restart between any two statements.      *)
(***************************************************************************)
EXTENDS ListingRoutes, ImportSync

vars == <<listings, doNotImport, clock, lastPurge, req, sync, importRunning>>

Init == StoreInit /\ RoutesInit /\ ImportInit

(* The server process dies and starts again. *)
Restart == RoutesRestart /\ ImportRestart

Next ==
    \/ RoutesNext /\ UNCHANGED importVars
    \/ ImportNext /\ UNCHANGED <<lastPurge, req>>
    \/ Tick /\ UNCHANGED <<lastPurge, req, importVars>>
    \/ Restart

Spec == Init /\ [][Next]_vars

(* An import call that has its whole batch takes its next step or fails:   *)
(* it runs in a thread of the server.  Nothing is promised about a client  *)
(* that is still uploading, nor about an operator at the script's prompt.  *)
HasBatch(p) == sync[p].pc \in {"plan", "apply"}
FairSpec ==
    Spec /\ \A p \in EndpointCalls : WF_vars(HasBatch(p) /\ SyncStep(p) /\ UNCHANGED <<lastPurge, req>>)

-----------------------------------------------------------------------------
TypeOK == StoreTypeOK /\ PurgeTypeOK /\ RoutesTypeOK /\ ImportTypeOK

(* An unclaimed listing is an import nobody has ever written to with a     *)
(* PATCH, a DELETE or a heartbeat: it is owned by the address nobody signs *)
(* for, active and never seen, whatever handlers were in flight when it    *)
(* was read (app/core/imports.py: no normal PATCH/DELETE/heartbeat can     *)
(* touch it).                                                              *)
UnclaimedUntouched ==
    \A i \in Ids : Exists(i) /\ ~listings[i].claimed =>
        /\ listings[i].submitted_by = Placeholder
        /\ listings[i].source # NoSource
        /\ listings[i].status = "active"
        /\ listings[i].last_seen_at = NoTime
        /\ listings[i].updated_at = listings[i].created_at

(* No two active offerings of one submitter, in the same scope (real or    *)
(* test), have endpoint URLs that normalize alike.  The unique index is on *)
(* the stored endpoint_key, so every write path has to keep the key in     *)
(* step with the URL (create, PATCH, claim, import, re-sync).              *)
OneActiveOffering ==
    \A i, j \in RowsOf(listings) :
        /\ Guarded(listings[i]) /\ Guarded(listings[j]) /\ i # j
        /\ listings[i].is_test = listings[j].is_test
        /\ listings[i].submitted_by = listings[j].submitted_by
        => Normalize[listings[i].endpoint_url] # Normalize[listings[j].endpoint_url]

(* The duplicate guard and the imports know every listing by the key of    *)
(* its URL, whichever of the create, PATCH, re-sync and operator           *)
(* statements wrote the URL last.                                          *)
KeysFollowUrls ==
    \A i \in RowsOf(listings) : listings[i].endpoint_key = Normalize[listings[i].endpoint_url]

(* The name of a listing posted here says whether it is a test: PATCH      *)
(* checks the prefix against the row it read (demo_data.py: the prefix     *)
(* cannot be added to or removed from an existing listing).                *)
TestNamesKept ==
    \A i \in RowsOf(listings) :
        listings[i].source = NoSource => listings[i].test_name = listings[i].is_test

(* The endpoint's lock is held exactly while one of its imports runs, and  *)
(* never two of them run, on every return and error path.                  *)
ImportLockExact ==
    /\ importRunning <=> \E p \in EndpointCalls : sync[p].pc # "idle"
    /\ \A p, q \in EndpointCalls : sync[p].pc # "idle" /\ sync[q].pc # "idle" => p = q

-----------------------------------------------------------------------------
(* Action properties. *)

(* What an owner sees of a row, apart from the sync's missing mark. *)
OwnerView(row) == [row EXCEPT !.missing = FALSE]

(* A claimed listing changes only by the write of a PATCH, DELETE or       *)
(* heartbeat that the address owning it at that very moment signed: no     *)
(* sync refreshes it, and no handler that read it before a claim writes    *)
(* it.  The check was made on an earlier snapshot of the row.              *)
ClaimedWritesAuthorized ==
    \A i \in Ids :
        Exists(i) /\ Exists(i)' /\ listings[i].claimed /\ OwnerView(listings[i])' # OwnerView(listings[i])
        => \E r \in Requests :
              /\ req[r].pc = "write" /\ req'[r].pc = "done"
              /\ req[r].op \in {"patch", "delete", "heartbeat"}
              /\ req[r].id = i
              /\ req[r].signer = listings[i].submitted_by
ClaimedWritesAreAuthorized == [][ClaimedWritesAuthorized]_vars

(* Only expired test listings and imported listings ever disappear; an     *)
(* imported one leaves its (source, endpoint) on the do-not-import list in *)
(* the same step.  A real listing posted here is never deleted.            *)
RemovalsRecorded ==
    \A i \in Ids :
        Exists(i) /\ ~Exists(i)' =>
            \/ listings[i].is_test /\ listings[i].created_at + TestTTL < clock
            \/ /\ listings[i].source # NoSource
               /\ <<listings[i].source, listings[i].endpoint_key>> \in doNotImport'
RemovalsAreRecorded == [][RemovalsRecorded]_vars

(* Two recorded heartbeats of a listing are at least HeartbeatInterval     *)
(* apart although each handler takes its clock reading and its snapshot    *)
(* before the conditional UPDATE runs (at most once per 24 hours).         *)
HeartbeatSpaced ==
    \A i \in Ids :
        Exists(i) /\ Exists(i)' /\ listings[i].last_seen_at # listings'[i].last_seen_at
        => listings[i].last_seen_at = NoTime
           \/ listings'[i].last_seen_at >= listings[i].last_seen_at + HeartbeatInterval
HeartbeatsAreSpaced == [][HeartbeatSpaced]_vars

(* A sync never brings back an endpoint that was on the do-not-import list *)
(* when it was planned.                                                    *)
PlannedRemovalHonored ==
    \A i \in Ids :
        listings[i] = Fresh /\ Exists(i)' /\ ~listings'[i].claimed
        => \E p \in Syncs : /\ sync[p].pc = "apply"
                            /\ SourceSlot(listings'[i]) \notin sync[p].blocked
PlannedRemovalsAreHonored == [][PlannedRemovalHonored]_vars

(* The board's word to a pay-to owner who removed an import: no later sync *)
(* recreates it (db.py, remove_imported_listing).                          *)
RemovedNeverReimported ==
    \A i \in Ids :
        listings[i] = Fresh /\ Exists(i)' /\ ~listings'[i].claimed
        => SourceSlot(listings'[i]) \notin doNotImport
RemovedIsNeverReimported == [][RemovedNeverReimported]_vars

(* A listing is marked missing only by a sync that has written all of its  *)
(* batch and whose batch does not have the listing's endpoint: a failure   *)
(* part-way stales nothing.                                                *)
MarkedOnlyWhenAbsent ==
    \A i \in Ids :
        Exists(i) /\ Exists(i)' /\ ~listings[i].missing /\ listings'[i].missing
        => \E p \in Syncs :
              /\ sync[p].pc = "apply" /\ ~sync[p].dry_run /\ sync[p].toWrite = {}
              /\ listings[i].source \in sync[p].sources
              /\ listings[i].endpoint_key \notin SeenKeys(p, listings[i].source)
MarksAreJustified == [][MarkedOnlyWhenAbsent]_vars

(* The inductive invariant of the ownership properties.  T is the listings *)
(* table: a row that is claimed has an owner who can sign, one that is not *)
(* is untouched; a handler in flight holds what its checks let through,    *)
(* and the owner that signed a PATCH, DELETE or heartbeat still owns the   *)
(* row, if there is one.                                                   *)
OwnedRows ==
    {row \in Row :
        IF row.claimed
        THEN row.submitted_by \in Wallets
        ELSE /\ row.submitted_by = Placeholder /\ row.source # NoSource
             /\ row.status = "active" /\ row.last_seen_at = NoTime
             /\ row.updated_at = row.created_at}

PendingOK(T, q) ==
    /\ q.op = "create" => q.args \in Payloads /\ q.args.submitted_by \in Wallets
    /\ q.op = "patch" => q.args \in Patches
    /\ q.op = "delete" => q.args = DeactivatePatch
    /\ q.op = "claim" => q.snap \in Snapshot /\ q.snap.payment_wallet \in Wallets
    /\ q.op \notin {"none", "create"} => q.id \in Ids /\ T[q.id] # Fresh
    /\ q.op \in {"patch", "delete", "heartbeat"} =>
         q.signer \in Wallets /\ (T[q.id] # Gone => T[q.id].submitted_by = q.signer)

OwnershipInv ==
    /\ TypeOK
    /\ listings \in [Ids -> OwnedRows \cup {Fresh, Gone}]
    /\ \A r \in Requests : PendingOK(listings, req[r])

(* The listing's lifecycle as ListingLifecycle states it. *)
OwnerOf(i) ==
    IF listings[i] = Fresh THEN "unborn"
    ELSE IF listings[i] = Gone THEN "removed"
    ELSE IF listings[i].claimed THEN listings[i].submitted_by ELSE "unclaimed"
Lifecycle == INSTANCE ListingLifecycle WITH
    owner <- [i \in Ids |-> OwnerOf(i)],
    Unborn <- "unborn", Unclaimed <- "unclaimed", Removed <- "removed"
LifecycleSpec == Lifecycle!Spec

(* An import call that has its batch gives the endpoint's lock back,       *)
(* whichever statement fails and wherever it returns.                      *)
ImportLockReleased == (\E p \in EndpointCalls : HasBatch(p)) ~> ~importRunning
=============================================================================
