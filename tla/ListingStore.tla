---------------------------- MODULE ListingStore ----------------------------
(***************************************************************************)
(* The PostgreSQL tables of the board (app/core/db.py) and the statements  *)
(* that read and write them.  Every statement runs on its own autocommit   *)
(* connection, so a statement is one atomic step and a request handler is  *)
(* several of them.                                                        *)
(*                                                                         *)
(* A statement that writes is an operator from the table to the table it   *)
(* would leave; Commits(T) says whether the unique indexes let it.         *)
(***************************************************************************)
EXTENDS Integers, FiniteSets

CONSTANTS
    Ids,          \* listing ids; uuid4, so an id is never handed out twice
    Fresh, Gone,  \* an id not inserted yet, an id whose row was deleted
    Wallets,      \* EVM addresses somebody can sign for
    Placeholder,  \* UNCLAIMED_IMPORT_SUBMITTED_BY: nobody can sign for it
    PublicKeys,   \* reserved addresses whose private key is public
    NonEvm,       \* pay-to addresses that are not EVM addresses (Solana)
    Sources,      \* third-party directories listings are imported from
    NoSource,     \* source IS NULL: the listing was posted here
    Urls, Keys,   \* endpoint URLs and what normalize_endpoint_url maps them to
    Normalize,    \* [Urls -> Keys]
    HeartbeatInterval,  \* HEARTBEAT_MIN_INTERVAL, in clock ticks
    TestTTL,            \* TEST_LISTING_TTL_HOURS, in clock ticks
    PurgeBatchSize,     \* PURGE_BATCH_SIZE
    MaxTime             \* bound on the clock

ASSUME StoreAssumption ==
    /\ Placeholder \notin Wallets
    /\ PublicKeys \subseteq Wallets
    /\ NonEvm \cap (Wallets \cup {Placeholder}) = {}
    /\ NoSource \notin Sources
    /\ Normalize \in [Urls -> Keys]
    /\ HeartbeatInterval \in Nat
    /\ TestTTL \in Nat
    /\ PurgeBatchSize \in Nat \ {0}
    /\ MaxTime \in Nat

VARIABLES
    listings,     \* the listings table: [Ids -> Row \cup {Fresh, Gone}]
    doNotImport,  \* the do_not_import table: (source, endpoint_key) pairs
    clock         \* wall-clock time

storeVars == <<listings, doNotImport, clock>>

NoTime == -1      \* a NULL timestamp
Time == 0 .. MaxTime
Types == {"offering", "verification_profile", "notice"}
PricingModels == {"none", "free", "per_call"}

(* The columns the handlers decide on.  name is kept as "does it start     *)
(* with test-", pricing_amount and payment_options as "is it set",         *)
(* missing_from_source_since as "is it set"; free text is left out.        *)
Row == [test_name : BOOLEAN,
        listing_type : Types,
        endpoint_url : Urls,
        endpoint_key : Keys,
        payment_wallet : Wallets \cup {Placeholder} \cup NonEvm,
        pricing_model : PricingModels,
        pricing_amount : BOOLEAN,
        payment_options : BOOLEAN,
        submitted_by : Wallets \cup {Placeholder},
        status : {"active", "inactive"},
        is_test : BOOLEAN,
        claimed : BOOLEAN,
        source : Sources \cup {NoSource},
        missing : BOOLEAN,
        created_at : Time,
        updated_at : Time,
        last_seen_at : Time \cup {NoTime}]

(* Constants are chosen so that the sentinels are not rows.                *)
ASSUME SentinelAssumption == Fresh \notin Row /\ Gone \notin Row /\ Fresh # Gone

Exists(i) == listings[i] # Fresh /\ listings[i] # Gone
NewId == CHOOSE i \in Ids : listings[i] = Fresh
HasNewId == \E i \in Ids : listings[i] = Fresh

is_reserved_address(a) == a \in PublicKeys \cup {Placeholder}
is_evm_address(a) == a \in Wallets \cup {Placeholder}

(* check_pricing_consistency *)
PricingConsistent(type, model, amount, options) ==
    IF type = "notice"
    THEN model = "none" /\ ~amount /\ ~options
    ELSE /\ model = "free" => ~amount
         /\ model = "per_call" => amount
         /\ amount => model # "none"

-----------------------------------------------------------------------------
(* Unique indexes.  Each looks at a whole table T, so it is the check the  *)
(* database makes when a statement commits.                                *)

Guarded(row) == row.status = "active" /\ row.listing_type = "offering"
OfferingSlot(row) == <<row.is_test, row.endpoint_key, row.submitted_by>>
SourceSlot(row) == <<row.source, row.endpoint_key>>

RowsOf(T) == {i \in Ids : T[i] # Fresh /\ T[i] # Gone}

ActiveOfferingUniq(T) ==
    \A i, j \in RowsOf(T) :
        Guarded(T[i]) /\ Guarded(T[j]) /\ OfferingSlot(T[i]) = OfferingSlot(T[j]) => i = j

SourceEndpointUniq(T) ==
    \A i, j \in RowsOf(T) :
        T[i].source # NoSource /\ SourceSlot(T[i]) = SourceSlot(T[j]) => i = j

Commits(T) == ActiveOfferingUniq(T) /\ SourceEndpointUniq(T)

-----------------------------------------------------------------------------
(* Statements of the listing routes. *)

(* find_active_duplicate: ids of the active offerings in one scope. *)
ActiveDuplicates(url, owner, exclude, isTest) ==
    {i \in RowsOf(listings) :
        /\ Guarded(listings[i])
        /\ OfferingSlot(listings[i]) = <<isTest, Normalize[url], owner>>
        /\ i # exclude}

(* patch.get(column, existing[column]) *)
Merged(patch, row, column) == IF column \in DOMAIN patch THEN patch[column] ELSE row[column]

MergedKey(patch, row) ==
    IF "endpoint_url" \in DOMAIN patch THEN Normalize[patch["endpoint_url"]] ELSE row.endpoint_key

(* Mutant: the SET clause without the endpoint_key recomputation.          *)
UpdatedRowKeepingKey(row, patch, now) ==
    [row EXCEPT !.test_name = Merged(patch, row, "test_name"),
                !.listing_type = Merged(patch, row, "listing_type"),
                !.endpoint_url = Merged(patch, row, "endpoint_url"),
                !.status = Merged(patch, row, "status"),
                !.updated_at = now]

(* update_listing: SET the patched columns, with endpoint_key following    *)
(* endpoint_url.                                                           *)
UpdatedRow(row, patch, now) ==
    [row EXCEPT !.test_name = Merged(patch, row, "test_name"),
                !.listing_type = Merged(patch, row, "listing_type"),
                !.endpoint_url = Merged(patch, row, "endpoint_url"),
                !.endpoint_key = MergedKey(patch, row),
                !.payment_wallet = Merged(patch, row, "payment_wallet"),
                !.pricing_model = Merged(patch, row, "pricing_model"),
                !.pricing_amount = Merged(patch, row, "pricing_amount"),
                !.payment_options = Merged(patch, row, "payment_options"),
                !.status = Merged(patch, row, "status"),
                !.updated_at = now]

(* Mutant: the interval is left to the handler's earlier read.             *)
HeartbeatAllowedOnceActive(row, now) == row.status = "active"

HeartbeatAllowed(row, now) ==
    /\ row.status = "active"
    /\ row.last_seen_at = NoTime \/ row.last_seen_at <= now - HeartbeatInterval

(* purge_expired_test_listings: the sets one DELETE may remove, the        *)
(* oldest PurgeBatchSize of the expired test listings.                     *)
Expired == {i \in RowsOf(listings) : listings[i].is_test /\ listings[i].created_at < clock - TestTTL}
PurgeSets ==
    {D \in SUBSET Expired :
        /\ Cardinality(D) <= PurgeBatchSize
        /\ D = Expired \/ Cardinality(D) = PurgeBatchSize
        /\ \A i \in D, j \in Expired \ D : listings[i].created_at <= listings[j].created_at}

-----------------------------------------------------------------------------
(* Statements of the import path. *)

(* Mutant: the key is the URL as the source spells it.                     *)
ImportedRowRawKey(rec, src, now) ==
    [test_name |-> rec.test_name, listing_type |-> rec.listing_type,
     endpoint_url |-> rec.endpoint_url, endpoint_key |-> rec.endpoint_url,
     payment_wallet |-> rec.payment_wallet, pricing_model |-> rec.pricing_model,
     pricing_amount |-> rec.pricing_amount, payment_options |-> rec.payment_options,
     submitted_by |-> Placeholder, status |-> "active", is_test |-> FALSE,
     claimed |-> FALSE, source |-> src, missing |-> FALSE,
     created_at |-> now, updated_at |-> now, last_seen_at |-> NoTime]

(* build_import_row: an unclaimed row for one validated source record.     *)
ImportedRow(rec, src, now) ==
    [test_name |-> rec.test_name, listing_type |-> rec.listing_type,
     endpoint_url |-> rec.endpoint_url, endpoint_key |-> Normalize[rec.endpoint_url],
     payment_wallet |-> rec.payment_wallet, pricing_model |-> rec.pricing_model,
     pricing_amount |-> rec.pricing_amount, payment_options |-> rec.payment_options,
     submitted_by |-> Placeholder, status |-> "active", is_test |-> FALSE,
     claimed |-> FALSE, source |-> src, missing |-> FALSE,
     created_at |-> now, updated_at |-> now, last_seen_at |-> NoTime]

(* Mutant: every conflict refreshes the content, claimed or not.           *)
RefreshedRowAlways(row, rec) ==
    [row EXCEPT !.listing_type = rec.listing_type,
                !.endpoint_url = rec.endpoint_url,
                !.payment_wallet = rec.payment_wallet,
                !.missing = FALSE]

(* ON CONFLICT (source, endpoint_key) DO UPDATE: content is refreshed only *)
(* while the stored row is unclaimed; the missing mark is always cleared.  *)
RefreshedRow(row, rec) ==
    IF row.claimed
    THEN [row EXCEPT !.missing = FALSE]
    ELSE [row EXCEPT !.test_name = rec.test_name,
                     !.listing_type = rec.listing_type,
                     !.endpoint_url = rec.endpoint_url,
                     !.payment_wallet = rec.payment_wallet,
                     !.pricing_model = rec.pricing_model,
                     !.pricing_amount = rec.pricing_amount,
                     !.payment_options = rec.payment_options,
                     !.missing = FALSE]

SourceConflict(src, rec) ==
    {i \in RowsOf(listings) : SourceSlot(listings[i]) = <<src, Normalize[rec.endpoint_url]>>}

(* mark_missing_from_source: the rows the UPDATE selects. *)
MissingFrom(src, seen) ==
    {i \in RowsOf(listings) :
        /\ listings[i].source = src
        /\ listings[i].status = "active"
        /\ ~listings[i].missing
        /\ listings[i].endpoint_key \notin seen}

-----------------------------------------------------------------------------
StoreTypeOK ==
    /\ listings \in [Ids -> Row \cup {Fresh, Gone}]
    /\ doNotImport \subseteq Sources \X Keys
    /\ clock \in Time

StoreInit ==
    /\ listings = [i \in Ids |-> Fresh]
    /\ doNotImport = {}
    /\ clock = 0

Tick == clock < MaxTime /\ clock' = clock + 1 /\ UNCHANGED <<listings, doNotImport>>

=============================================================================
