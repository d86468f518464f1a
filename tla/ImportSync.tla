------------------------------ MODULE ImportSync ------------------------------
(***************************************************************************)
(* A sync of one batch of source records (app/core/import_sync.py), run by *)
(* POST /admin/import (app/api/routes/admin_import.py), which holds the    *)
(* process-local lock _import_running, or by the operator's script         *)
(* (scripts/bulk_import_listings.py), which is another process and holds   *)
(* nothing.  plan_sync reads the do-not-import list; apply_plan writes     *)
(* later, one statement per record and then one per source.                *)
(***************************************************************************)
EXTENDS ListingStore

CONSTANTS
    EndpointCalls,   \* POST /admin/import calls that may be in flight
    Scripts,         \* runs of the bulk import script
    Batches          \* the batches callers send, with their options

RecordType ==
    [test_name : BOOLEAN, listing_type : Types, endpoint_url : Urls,
     payment_wallet : Wallets \cup {Placeholder} \cup NonEvm,
     pricing_model : PricingModels, pricing_amount : BOOLEAN,
     payment_options : BOOLEAN,
     source : Sources \cup {NoSource}]             \* the record's own source

(* recs are the records that pass validation: a rejected record is only    *)
(* counted.  Dry runs are the default of both front ends.                  *)
BatchType ==
    [recs : SUBSET RecordType, source : Sources \cup {NoSource},
     dry_run : BOOLEAN, mark_missing : BOOLEAN]

ASSUME ImportAssumption ==
    /\ EndpointCalls \cap Scripts = {}
    /\ Batches \subseteq BatchType
    /\ \A b \in Batches : \A x \in b.recs :
         PricingConsistent(x.listing_type, x.pricing_model, x.pricing_amount, x.payment_options)

Syncs == EndpointCalls \cup Scripts

VARIABLES
    sync,            \* [Syncs -> SyncState]
    importRunning    \* the endpoint's lock _import_running

importVars == <<sync, importRunning>>

(* rows: SyncPlan.rows, each with its resolved source.  toPlan, toWrite    *)
(* and toMark are what the loops over sources_in_sync and importable have  *)
(* left; blocked is what the plan found on the do-not-import list.         *)
PlannedRows == [source : Sources, rec : RecordType]

SyncState ==
    [pc : {"idle", "body", "plan", "apply"},
     dry_run : BOOLEAN, mark_missing : BOOLEAN,
     rows : SUBSET PlannedRows,
     sources : SUBSET Sources,
     toPlan : SUBSET Sources, toWrite : SUBSET PlannedRows, toMark : SUBSET Sources,
     blocked : SUBSET (Sources \X Keys),
     now : Time]

IdleSync ==
    [pc |-> "idle", dry_run |-> TRUE, mark_missing |-> TRUE, rows |-> {}, sources |-> {},
     toPlan |-> {}, toWrite |-> {}, toMark |-> {}, blocked |-> {}, now |-> 0]

ImportTypeOK == sync \in [Syncs -> SyncState] /\ importRunning \in BOOLEAN

KeyOf(row) == Normalize[row.rec.endpoint_url]
SeenKeys(p, src) == {KeyOf(row) : row \in {x \in sync[p].rows : x.source = src}}

(* The handler returns or raises: `finally` releases the endpoint's lock.  *)
End(p) ==
    /\ sync' = [sync EXCEPT ![p] = IdleSync]
    /\ importRunning' = (importRunning /\ p \notin EndpointCalls)

-----------------------------------------------------------------------------
(* _import_running.acquire(blocking=False); when it is held the call is    *)
(* refused with a 409 and changes nothing.                                 *)
AcquireLock(p) ==
    /\ p \in EndpointCalls /\ sync[p].pc = "idle"
    /\ ~importRunning
    /\ sync' = [sync EXCEPT ![p] = [IdleSync EXCEPT !.pc = "body"]]
    /\ importRunning' = TRUE
    /\ UNCHANGED storeVars

(* Too large, not UTF-8, not JSON or no records. *)
BadBatch(p) ==
    /\ sync[p].pc = "body"
    /\ End(p)
    /\ UNCHANGED storeVars

(* A parsed batch and its validation: `source`, when given, overrides the  *)
(* records' own; a record without any source is rejected on its own.  Only *)
(* the script lets an explicit source with no valid record take part.      *)
ResolvedSource(batch, rec) == IF batch.source # NoSource THEN batch.source ELSE rec.source

ValidRows(batch) ==
    {[source |-> ResolvedSource(batch, rec), rec |-> rec] :
        rec \in {x \in batch.recs : ResolvedSource(batch, x) # NoSource}}

SourcesInSync(batch, allowEmpty) ==
    {row.source : row \in ValidRows(batch)} \cup (IF allowEmpty THEN {batch.source} \ {NoSource} ELSE {})

ReadBatch(p, batch) ==
    /\ IF p \in EndpointCalls
       THEN sync[p].pc = "body"
       ELSE sync[p].pc = "idle" /\ batch.mark_missing
    /\ LET sources == SourcesInSync(batch, p \in Scripts) IN
         sync' = [sync EXCEPT ![p] =
                    [IdleSync EXCEPT !.pc = "plan", !.dry_run = batch.dry_run,
                                     !.mark_missing = batch.mark_missing,
                                     !.rows = ValidRows(batch), !.sources = sources,
                                     !.toPlan = sources, !.now = clock]]
    /\ UNCHANGED <<storeVars, importRunning>>

(* Mutant: the plan looks at the list but imports what is on it.           *)
PlanSourceAll(p, src) ==
    /\ sync[p].pc = "plan" /\ src \in sync[p].toPlan
    /\ LET mine == {row \in sync[p].rows : row.source = src}
           dni == {<<src, KeyOf(row)>> : row \in mine} \cap doNotImport
       IN sync' = [sync EXCEPT ![p].toPlan = @ \ {src}, ![p].toWrite = @ \cup mine,
                               ![p].blocked = @ \cup dni]
    /\ UNCHANGED <<storeVars, importRunning>>

(* One source of plan_sync: drop what is on the do-not-import list, keep   *)
(* the last record of each endpoint (any of them: batch order is input).   *)
PlanSource(p, src) ==
    /\ sync[p].pc = "plan" /\ src \in sync[p].toPlan
    /\ LET mine == {row \in sync[p].rows : row.source = src}
           dni == {<<src, KeyOf(row)>> : row \in mine} \cap doNotImport
           free == {row \in mine : <<src, KeyOf(row)>> \notin dni}
       IN \E latest \in SUBSET free :
            /\ {KeyOf(row) : row \in latest} = {KeyOf(row) : row \in free}
            /\ \A a, b \in latest : KeyOf(a) = KeyOf(b) => a = b
            /\ sync' = [sync EXCEPT ![p].toPlan = @ \ {src}, ![p].toWrite = @ \cup latest,
                                    ![p].blocked = @ \cup dni]
    /\ UNCHANGED <<storeVars, importRunning>>

FinishPlan(p) ==
    /\ sync[p].pc = "plan" /\ sync[p].toPlan = {}
    /\ IF sync[p].dry_run
       THEN End(p)
       ELSE /\ sync' = [sync EXCEPT ![p].pc = "apply",
                   ![p].toMark = IF sync[p].mark_missing THEN sync[p].sources ELSE {}]
            /\ UNCHANGED importRunning
    /\ UNCHANGED storeVars

(* import_upsert: INSERT, or refresh the row that holds (source, key).     *)
UpsertedTable(row, now) ==
    LET held == SourceConflict(row.source, row.rec) IN
    IF held = {}
    THEN [listings EXCEPT ![NewId] = ImportedRow(row.rec, row.source, now)]
    ELSE [i \in Ids |-> IF i \in held THEN RefreshedRow(listings[i], row.rec) ELSE listings[i]]

Upsert(p, row) ==
    /\ sync[p].pc = "apply" /\ row \in sync[p].toWrite
    /\ HasNewId \/ SourceConflict(row.source, row.rec) # {}
    /\ LET T == UpsertedTable(row, sync[p].now) IN
         \/ /\ Commits(T) /\ listings' = T
            /\ sync' = [sync EXCEPT ![p].toWrite = @ \ {row}]
            /\ UNCHANGED importRunning
         \/ ~Commits(T) /\ End(p) /\ UNCHANGED listings   \* UniqueViolation
    /\ UNCHANGED <<doNotImport, clock>>

(* Mutant: stale marking interleaved with the upserts.                     *)
MarkMissingEarly(p, src) ==
    /\ sync[p].pc = "apply" /\ src \in sync[p].toMark
    /\ LET gone == MissingFrom(src, SeenKeys(p, src)) IN
         listings' = [i \in Ids |-> IF i \in gone THEN [listings[i] EXCEPT !.missing = TRUE]
                                                  ELSE listings[i]]
    /\ sync' = [sync EXCEPT ![p].toMark = @ \ {src}]
    /\ UNCHANGED <<doNotImport, clock, importRunning>>

(* mark_missing_from_source, only once every record was written. *)
MarkMissing(p, src) ==
    /\ sync[p].pc = "apply" /\ sync[p].toWrite = {} /\ src \in sync[p].toMark
    /\ LET gone == MissingFrom(src, SeenKeys(p, src)) IN
         listings' = [i \in Ids |-> IF i \in gone THEN [listings[i] EXCEPT !.missing = TRUE]
                                                  ELSE listings[i]]
    /\ sync' = [sync EXCEPT ![p].toMark = @ \ {src}]
    /\ UNCHANGED <<doNotImport, clock, importRunning>>

FinishSync(p) ==
    /\ sync[p].pc = "apply" /\ sync[p].toWrite = {} /\ sync[p].toMark = {}
    /\ End(p)
    /\ UNCHANGED storeVars

(* Mutant: the lock is released on the success path only.                  *)
SyncFailsHoldingLock(p) ==
    /\ sync[p].pc # "idle"
    /\ sync' = [sync EXCEPT ![p] = IdleSync]
    /\ UNCHANGED <<storeVars, importRunning>>

(* Any statement of the sync may raise, the client's upload may break off, *)
(* the operator may decline the script's confirmation.                     *)
SyncFails(p) ==
    /\ sync[p].pc # "idle"
    /\ End(p)
    /\ UNCHANGED storeVars

-----------------------------------------------------------------------------
SyncArrival(p) ==
    \/ AcquireLock(p)
    \/ p \in Scripts /\ \E batch \in Batches : ReadBatch(p, batch)

SyncStep(p) ==
    \/ BadBatch(p)
    \/ p \in EndpointCalls /\ \E batch \in Batches : ReadBatch(p, batch)
    \/ \E src \in Sources : PlanSource(p, src) \/ MarkMissing(p, src)
    \/ FinishPlan(p)
    \/ \E row \in sync[p].toWrite : Upsert(p, row)
    \/ FinishSync(p)
    \/ SyncFails(p)

(* The server process restarts: its imports and their lock are gone.  The  *)
(* script is a process of its own.                                         *)
ImportRestart ==
    /\ sync' = [p \in Syncs |-> IF p \in EndpointCalls THEN IdleSync ELSE sync[p]]
    /\ importRunning' = FALSE

ImportInit == sync = [p \in Syncs |-> IdleSync] /\ importRunning = FALSE
ImportNext == \E p \in Syncs : SyncArrival(p) \/ SyncStep(p)

=============================================================================
