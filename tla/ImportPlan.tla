----------------------------- MODULE ImportPlan -----------------------------
(***************************************************************************)
(* What a sync makes of one batch (validate_all, plan_sync, dry_run_counts *)
(* and apply_plan in app/core/import_sync.py, build_import_row in          *)
(* app/core/imports.py): a list of records, in order, with repetitions,    *)
(* bad records and records of several sources, against a table nobody else *)
(* writes.  ImportSync has the syncs that run beside others; here one sync *)
(* is looked at in full, and run again when it broke off.                  *)
(*                                                                         *)
(* An imported listing is its (source, endpoint_key), of which there is    *)
(* one; how its template link is made is in TemplateRepair.                *)
(***************************************************************************)
EXTENDS Integers, FiniteSets, Sequences, SequencesExt

CONSTANTS
    Sources, NoSource,
    Keys,              \* normalized endpoint URLs
    NoWallet,
    Batches,           \* what is sent: records, options and the front end
    Tables,            \* what the table may hold when the sync begins
    Lists,             \* what may be on the do-not-import list
    Missing,           \* a (source, key) without a listing
    MaxAttempts        \* bound on the runs of one batch

ImportedRows ==
    [content : Nat, listing_type : STRING, payment_wallet : STRING,
     claimed : BOOLEAN, active : BOOLEAN, missing : BOOLEAN]

ASSUME PlanAssumption ==
    /\ NoSource \notin Sources
    /\ Missing \notin ImportedRows
    /\ Tables \subseteq [Sources \X Keys -> ImportedRows \cup {Missing}]
    /\ Lists \subseteq SUBSET (Sources \X Keys)
    /\ MaxAttempts \in Nat

(* What a record may be, as far as the sync looks at it.  A source has at  *)
(* most 100 characters and an endpoint URL at most 2048, so that there are *)
(* finitely many of either.                                                *)
Records ==
    [form : {"object", "text", "mistyped"}, source : Sources \cup {NoSource}, key : Keys, content : Nat,
     listing_type : STRING, payment_wallet : STRING \cup {NoWallet},
     payment_options : Seq([chain : STRING, pay_to : STRING])]

ASSUME BatchAssumption ==
    /\ Batches \subseteq [records : Seq(Records), source : Sources \cup {NoSource},
                          allow_empty_sync : BOOLEAN, mark_missing : BOOLEAN]
    /\ IsFiniteSet(Sources) /\ IsFiniteSet(Keys)

VARIABLES
    listings,     \* the imported listings
    doNotImport,
    batch,
    run,          \* the attempt under way
    before        \* history: the table when the sync began

planVars == <<listings, doNotImport, batch, run, before>>

-----------------------------------------------------------------------------
(* One record. *)

(* --source wins, then the record's own; neither is an error. *)
ResolveSource(record) == IF batch.source # NoSource THEN batch.source ELSE record.source

(* The record's own wallet, or the first EVM pay_to, or the first Solana   *)
(* one; options on other chains are dropped.                               *)
ResolvePaymentWallet(record) ==
    LET options == record.payment_options
        On(chain) == {n \in DOMAIN options : options[n].chain = chain}
    IN  IF record.payment_wallet # NoWallet THEN record.payment_wallet
        ELSE IF On("eip155") # {} THEN options[Min(On("eip155"))].pay_to
        ELSE IF On("solana") # {} THEN options[Min(On("solana"))].pay_to
        ELSE NoWallet

(* A field that is read before pydantic sees the record (source, _import,  *)
(* source_url, template, payment_options) has another JSON type than the   *)
(* code takes for granted: AttributeError or TypeError, which nobody       *)
(* catches.                                                                *)
Raises(record) == record.form = "mistyped"

IsValid(record) ==
    /\ record.form = "object"
    /\ ResolveSource(record) # NoSource
    /\ ResolvePaymentWallet(record) # NoWallet

BuildImportRow(record) ==
    [source |-> ResolveSource(record), key |-> record.key, content |-> record.content,
     listing_type |-> record.listing_type, payment_wallet |-> ResolvePaymentWallet(record)]

(* SyncPlan.rows, by their place in the batch: a bad record is left out. *)
ValidRecords == {n \in DOMAIN batch.records : IsValid(batch.records[n])}
RowAt(n) == BuildImportRow(batch.records[n])

-----------------------------------------------------------------------------
(* plan_sync *)

Place(row) == <<row.source, row.key>>
RowsOf(src) == {row \in {RowAt(n) : n \in ValidRecords} : row.source = src}

SourcesInSync ==
    {RowAt(n).source : n \in ValidRecords}
      \cup (IF batch.allow_empty_sync THEN {batch.source} \ {NoSource} ELSE {})

(* Mutant: the first record of an endpoint wins.                           *)
FirstOfEach ==
    {RowAt(n) : n \in {m \in ValidRecords :
        /\ Place(RowAt(m)) \notin doNotImport
        /\ \A l \in ValidRecords : l < m => Place(RowAt(l)) # Place(RowAt(m))}}

(* Not on the do-not-import list, one per endpoint, the last one wins. *)
Importable ==
    {RowAt(n) : n \in {m \in ValidRecords :
        /\ Place(RowAt(m)) \notin doNotImport
        /\ \A l \in ValidRecords : l > m => Place(RowAt(l)) # Place(RowAt(m))}}

Exists(T, p) == T[p] # Missing

(* preview_missing_from_source and mark_missing_from_source: active, not   *)
(* marked yet, and not the endpoint of a valid record of this batch.       *)
NoLongerSupplied(T, src) ==
    {p \in {src} \X Keys : /\ Exists(T, p) /\ T[p].active /\ ~T[p].missing
                           /\ p \notin {Place(row) : row \in RowsOf(src)}}

ToMark == IF batch.mark_missing THEN SourcesInSync ELSE {}

(* Mutant: every record counts, copies of an endpoint and all.             *)
DryRunCountsOfRecords(T) ==
    LET old == {n \in ValidRecords : Exists(T, Place(RowAt(n)))} IN
    [added |-> Cardinality(ValidRecords \ old), updated |-> Cardinality(old),
     stale |-> Cardinality(UNION {NoLongerSupplied(T, src) : src \in ToMark})]

DryRunCounts(T) ==
    LET old == {row \in Importable : Exists(T, Place(row))} IN
    [added |-> Cardinality(Importable \ old), updated |-> Cardinality(old),
     stale |-> Cardinality(UNION {NoLongerSupplied(T, src) : src \in ToMark})]

NoCounts == [added |-> 0, updated |-> 0, stale |-> 0]

NewRun(n) ==
    [pc |-> "plan", attempt |-> n, toWrite |-> {}, toMark |-> {}, foretold |-> NoCounts, done |-> NoCounts]

(* Validation may raise: the batch is given up, and nothing is written. *)
PlanRaises ==
    /\ run.pc = "plan" /\ \E n \in DOMAIN batch.records : Raises(batch.records[n])
    /\ run' = [run EXCEPT !.pc = "raised"]
    /\ UNCHANGED <<listings, doNotImport, batch, before>>

PlanSync ==
    /\ run.pc = "plan" /\ \A n \in DOMAIN batch.records : ~Raises(batch.records[n])
    /\ run' = [run EXCEPT !.pc = "apply", !.toWrite = Importable, !.toMark = ToMark,
                          !.foretold = DryRunCounts(listings)]
    /\ UNCHANGED <<listings, doNotImport, batch, before>>

-----------------------------------------------------------------------------
(* apply_plan *)

(* The index of active offerings by (endpoint, submitted_by): all          *)
(* unclaimed listings have the same, placeholder submitter.                *)
GuardHolds(T) ==
    \A k \in Keys, a, b \in Sources :
        a # b => ~(\A p \in {<<a, k>>, <<b, k>>} :
            Exists(T, p) /\ T[p].active /\ ~T[p].claimed /\ T[p].listing_type = "offering")

(* INSERT, or refresh an unclaimed row; a claimed one keeps its content.   *)
Upserted(T, row) ==
    [T EXCEPT ![Place(row)] =
        IF @ = Missing
        THEN [content |-> row.content, listing_type |-> row.listing_type, payment_wallet |-> row.payment_wallet,
              claimed |-> FALSE, active |-> TRUE, missing |-> FALSE]
        ELSE IF @.claimed THEN [@ EXCEPT !.missing = FALSE]
        ELSE [@ EXCEPT !.content = row.content, !.listing_type = row.listing_type,
                       !.payment_wallet = row.payment_wallet, !.missing = FALSE]]

(* In whatever order; the code goes by source, then by first appearance. *)
Upsert(row) ==
    /\ run.pc = "apply" /\ row \in run.toWrite
    /\ GuardHolds(Upserted(listings, row))
    /\ listings' = Upserted(listings, row)
    /\ run' = [run EXCEPT !.toWrite = @ \ {row},
                          !.done.added = IF Exists(listings, Place(row)) THEN @ ELSE @ + 1,
                          !.done.updated = IF Exists(listings, Place(row)) THEN @ + 1 ELSE @]
    /\ UNCHANGED <<doNotImport, batch, before>>

(* UniqueViolation: what was written before it stays. *)
UpsertRefused(row) ==
    /\ run.pc = "apply" /\ row \in run.toWrite
    /\ ~GuardHolds(Upserted(listings, row))
    /\ run' = [run EXCEPT !.pc = "refused"]
    /\ UNCHANGED <<listings, doNotImport, batch, before>>

MarkMissing(src) ==
    /\ run.pc = "apply" /\ run.toWrite = {} /\ src \in run.toMark
    /\ LET gone == NoLongerSupplied(listings, src) IN
       /\ listings' = [p \in DOMAIN listings |->
                          IF p \in gone THEN [listings[p] EXCEPT !.missing = TRUE] ELSE listings[p]]
       /\ run' = [run EXCEPT !.toMark = @ \ {src}, !.done.stale = @ + Cardinality(gone)]
    /\ UNCHANGED <<doNotImport, batch, before>>

FinishSync ==
    /\ run.pc = "apply" /\ run.toWrite = {} /\ run.toMark = {}
    /\ run' = [run EXCEPT !.pc = "done"]
    /\ UNCHANGED <<listings, doNotImport, batch, before>>

(* The database or the process goes away between two statements, ... *)
BreakOff ==
    /\ run.pc = "apply"
    /\ run' = [run EXCEPT !.pc = "broken"]
    /\ UNCHANGED <<listings, doNotImport, batch, before>>

(* ... or all went well, and the batch is sent again. *)
RunAgain ==
    /\ run.pc \in {"broken", "done"} /\ run.attempt < MaxAttempts
    /\ run' = NewRun(run.attempt + 1)
    /\ UNCHANGED <<listings, doNotImport, batch, before>>

PlanInit ==
    /\ listings \in Tables /\ GuardHolds(listings)
    /\ doNotImport \in Lists
    /\ \A p \in doNotImport : ~Exists(listings, p)
    /\ batch \in Batches
    /\ run = NewRun(1)
    /\ before = listings

PlanNext ==
    \/ PlanRaises \/ PlanSync
    \/ \E row \in run.toWrite : Upsert(row) \/ UpsertRefused(row)
    \/ \E src \in run.toMark : MarkMissing(src)
    \/ FinishSync \/ BreakOff \/ RunAgain

PlanSpec == PlanInit /\ [][PlanNext]_planVars

-----------------------------------------------------------------------------
(* Properties. *)

(* The valid records of one (source, key), by their place in the batch. *)
Supplying(p) ==
    {n \in DOMAIN batch.records : IsValid(batch.records[n]) /\ Place(BuildImportRow(batch.records[n])) = p}

IsInSync(src) ==
    \/ \E n \in DOMAIN batch.records : IsValid(batch.records[n]) /\ ResolveSource(batch.records[n]) = src
    \/ batch.allow_empty_sync /\ batch.source = src

(* What a completed sync owes to the listing at p, told from the table it  *)
(* began with: the last record of an endpoint wins over the earlier ones,  *)
(* an owner's content stays, a removed listing stays away, and what a      *)
(* source in the sync does not supply any more is marked.                  *)
Owed(p) ==
    IF Supplying(p) # {} /\ p \notin doNotImport THEN
        LET row == BuildImportRow(batch.records[Max(Supplying(p))]) IN
        IF Exists(before, p) /\ before[p].claimed THEN [before[p] EXCEPT !.missing = FALSE]
        ELSE [content |-> row.content, listing_type |-> row.listing_type,
              payment_wallet |-> row.payment_wallet, claimed |-> FALSE,
              active |-> ~Exists(before, p) \/ before[p].active, missing |-> FALSE]
    ELSE IF /\ Supplying(p) = {} /\ IsInSync(p[1]) /\ batch.mark_missing
            /\ Exists(before, p) /\ before[p].active
         THEN [before[p] EXCEPT !.missing = TRUE]
    ELSE before[p]

(* However often a sync broke off or was run before, once it completes the *)
(* table is what one undisturbed sync owes ("Safe to re-run: upserts are   *)
(* idempotent and rows already marked are left alone", apply_plan).        *)
CompletedSyncOwesNothing ==
    run.pc = "done" => \A p \in DOMAIN listings : listings[p] = Owed(p)

(* A sync that completes did what its dry run counted (dry_run_counts).    *)
CompletedAsForetold == run.pc = "done" => run.done = run.foretold

(* "A dry run reports exactly what applying would do" (README.md:458),     *)
(* with nobody else at work.                                               *)
ForetoldExactly == run.pc \in {"done", "refused"} => run.done = run.foretold

=============================================================================
