---------------------------- MODULE ListingRoutes ----------------------------
(***************************************************************************)
(* The request handlers of app/api/routes/listings.py.                     *)
(*                                                                         *)
(* A handler awaits each database statement, so other handlers run between *)
(* its statements: it decides on the row it read first (`snap`, the code's *)
(* `existing`) and writes later.  What a handler does between two awaits   *)
(* reads only its own snapshot, so it is part of the step that read it.    *)
(***************************************************************************)
EXTENDS Maintenance

CONSTANTS
    Requests,   \* request slots: how many handlers may be in flight
    Ops,        \* the operations clients call in this instance
    Payloads,   \* validated POST bodies (ListingCreate)
    Patches,    \* validated PATCH bodies: functions from some columns to values
    NoId

OpNames == {"create", "patch", "delete", "claim", "remove", "heartbeat", "browse"}

(* What ListingUpdate has fields for: never id, submitted_by, created_at.  *)
PatchType ==
    [test_name |-> BOOLEAN, listing_type |-> Types, endpoint_url |-> Urls,
     payment_wallet |-> Wallets \cup {Placeholder} \cup NonEvm,
     pricing_model |-> PricingModels, pricing_amount |-> BOOLEAN,
     payment_options |-> BOOLEAN, status |-> {"active", "inactive"}]

PayloadType ==
    [test_name : BOOLEAN, listing_type : Types, endpoint_url : Urls,
     payment_wallet : Wallets \cup {Placeholder} \cup NonEvm,
     pricing_model : PricingModels, pricing_amount : BOOLEAN,
     payment_options : BOOLEAN, submitted_by : Wallets \cup {Placeholder}]

ASSUME RoutesAssumption ==
    /\ NoId \notin Ids
    /\ Ops \subseteq OpNames
    /\ Payloads \subseteq PayloadType
    /\ \A p \in Payloads :
         PricingConsistent(p.listing_type, p.pricing_model, p.pricing_amount, p.payment_options)
    /\ \A p \in Patches : \A c \in DOMAIN p : c \in DOMAIN PatchType /\ p[c] \in PatchType[c]

VARIABLE req              \* [Requests -> RequestState]

NoArgs == [c \in {} |-> c]
DeactivatePatch == [status |-> "inactive"]

Codes == {0, 200, 201, 401, 403, 404, 409, 422, 429, 500}

(* The columns of `existing` a handler looks at again after its checks. *)
Snapshot ==
    [submitted_by : Wallets \cup {Placeholder}, is_test : BOOLEAN, endpoint_url : Urls,
     payment_wallet : Wallets \cup {Placeholder} \cup NonEvm]
SnapshotOf(row) ==
    [submitted_by |-> row.submitted_by, is_test |-> row.is_test,
     endpoint_url |-> row.endpoint_url, payment_wallet |-> row.payment_wallet]

RequestState ==
    [pc : {"idle", "purge", "dup", "write", "clash", "done"},
     op : OpNames \cup {"none"},
     id : Ids \cup {NoId},
     signer : Wallets \cup {Placeholder},          \* Placeholder: unsigned
     args : Patches \cup Payloads \cup {NoArgs, DeactivatePatch},
     snap : Snapshot \cup {Fresh},                 \* Fresh: nothing read
     now : Time,
     resp : Codes]

IdleRequest ==
    [pc |-> "idle", op |-> "none", id |-> NoId, signer |-> Placeholder,
     args |-> NoArgs, snap |-> Fresh, now |-> 0, resp |-> 0]

(* The handler returns or raises; only its status code is left. *)
Respond(r, code) == req' = [req EXCEPT ![r] = [IdleRequest EXCEPT !.pc = "done", !.resp = code]]
Goto(r, pc) == req' = [req EXCEPT ![r] = [@ EXCEPT !.pc = pc, !.now = clock]]

Free(r, op) == req[r].pc = "idle" /\ op \in Ops
At(r, op, pc) == req[r].op = op /\ req[r].pc = pc
Snap(r) == req[r].snap

RoutesTypeOK == req \in [Requests -> RequestState]

-----------------------------------------------------------------------------
(* POST /listings: unsigned. *)

CreateRefused(r, p) ==
    /\ Free(r, "create") /\ is_reserved_address(p.submitted_by)
    /\ Respond(r, 422)
    /\ UNCHANGED <<storeVars, lastPurge>>

CreateStart(r, p) ==
    /\ Free(r, "create") /\ ~is_reserved_address(p.submitted_by)
    /\ req' = [req EXCEPT ![r] = [IdleRequest EXCEPT !.pc = "purge", !.op = "create", !.args = p]]
    /\ UNCHANGED <<storeVars, lastPurge>>

CreatePurge(r) ==
    /\ At(r, "create", "purge")
    /\ MaybePurge
    /\ Goto(r, IF req[r].args.listing_type = "offering" THEN "dup" ELSE "write")

(* find_active_duplicate for a POST or a PATCH in flight. *)
Clashes(r) ==
    LET q == req[r] IN
    IF q.op = "create"
    THEN ActiveDuplicates(q.args.endpoint_url, q.args.submitted_by, NoId, q.args.test_name)
    ELSE ActiveDuplicates(Merged(q.args, q.snap, "endpoint_url"), q.snap.submitted_by,
                          q.id, q.snap.is_test)

FindDuplicate(r) ==
    /\ req[r].pc = "dup"
    /\ IF Clashes(r) # {} THEN Respond(r, 409) ELSE Goto(r, "write")
    /\ UNCHANGED <<storeVars, lastPurge>>

CreatedRow(p, now) ==
    [test_name |-> p.test_name, listing_type |-> p.listing_type,
     endpoint_url |-> p.endpoint_url, endpoint_key |-> Normalize[p.endpoint_url],
     payment_wallet |-> p.payment_wallet, pricing_model |-> p.pricing_model,
     pricing_amount |-> p.pricing_amount, payment_options |-> p.payment_options,
     submitted_by |-> p.submitted_by, status |-> "active", is_test |-> p.test_name,
     claimed |-> TRUE, source |-> NoSource, missing |-> FALSE,
     created_at |-> now, updated_at |-> now, last_seen_at |-> NoTime]

CreateInsert(r) ==
    /\ At(r, "create", "write") /\ HasNewId
    /\ LET T == [listings EXCEPT ![NewId] = CreatedRow(req[r].args, req[r].now)] IN
         \/ Commits(T) /\ listings' = T /\ Respond(r, 201)
         \/ ~Commits(T) /\ Goto(r, "clash") /\ UNCHANGED listings
    /\ UNCHANGED <<doNotImport, clock, lastPurge>>

(* After a UniqueViolation the handler looks the duplicate up once more    *)
(* and answers 409 whether or not it still finds one ("unknown").          *)
ReportClash(r) ==
    /\ req[r].pc = "clash"
    /\ Respond(r, 409)
    /\ UNCHANGED <<storeVars, lastPurge>>

-----------------------------------------------------------------------------
(* The signed handlers.  verify_wallet_auth(expected) passes exactly for   *)
(* expected's own signature; a stale, replayed or missing one is a 401     *)
(* whoever signed (module WalletAuth).                                     *)

Verified(signer, expected) == signer = expected

NotFound(r, op, id) == Free(r, op) /\ ~Exists(id) /\ Respond(r, 404)

Unauthorized(r, op, id, signer, expected) ==
    /\ Free(r, op) /\ Exists(id)
    /\ \/ Respond(r, 401)
       \/ ~Verified(signer, expected) /\ Respond(r, 403)

(* The read, every check on it and, when all pass, the next statement.     *)
Admit(r, op, id, signer, args, pc) ==
    req' = [req EXCEPT ![r] = [pc |-> pc, op |-> op, id |-> id, signer |-> signer,
                               args |-> args, snap |-> SnapshotOf(listings[id]),
                               now |-> clock, resp |-> 0]]

(* PATCH /listings/{id} *)
PatchInvalid(row, patch) ==
    \/ DOMAIN patch = {}
    \/ "test_name" \in DOMAIN patch /\ patch["test_name"] # row.is_test

PatchInconsistent(row, patch) ==
    ~PricingConsistent(Merged(patch, row, "listing_type"), Merged(patch, row, "pricing_model"),
                       Merged(patch, row, "pricing_amount"), Merged(patch, row, "payment_options"))

PatchNeedsDuplicateCheck(row, patch) ==
    /\ Merged(patch, row, "listing_type") = "offering"
    /\ Merged(patch, row, "status") = "active"
    /\ DOMAIN patch \cap {"endpoint_url", "status", "listing_type"} # {}

PatchRefused(r, id, signer, patch) ==
    /\ \/ NotFound(r, "patch", id)
       \/ /\ Free(r, "patch") /\ Exists(id) /\ PatchInvalid(listings[id], patch)
          /\ Respond(r, 422)
       \/ /\ Exists(id) /\ ~PatchInvalid(listings[id], patch)
          /\ Unauthorized(r, "patch", id, signer, listings[id].submitted_by)
       \/ /\ Free(r, "patch") /\ Exists(id)
          /\ Verified(signer, listings[id].submitted_by)
          /\ PatchInconsistent(listings[id], patch)
          /\ Respond(r, 422)
    /\ UNCHANGED <<storeVars, lastPurge>>

PatchRead(r, id, signer, patch) ==
    /\ Free(r, "patch") /\ Exists(id)
    /\ ~PatchInvalid(listings[id], patch)
    /\ Verified(signer, listings[id].submitted_by)
    /\ ~PatchInconsistent(listings[id], patch)
    /\ Admit(r, "patch", id, signer, patch,
             IF PatchNeedsDuplicateCheck(listings[id], patch) THEN "dup" ELSE "write")
    /\ UNCHANGED <<storeVars, lastPurge>>

PatchWrite(r) ==
    /\ At(r, "patch", "write")
    /\ LET id == req[r].id
           T == [listings EXCEPT ![id] = UpdatedRow(@, req[r].args, req[r].now)] IN
         \/ Exists(id) /\ Commits(T) /\ listings' = T /\ Respond(r, 200)
         \/ Exists(id) /\ ~Commits(T) /\ Goto(r, "clash") /\ UNCHANGED listings
         \/ ~Exists(id) /\ Respond(r, 500) /\ UNCHANGED listings   \* _to_response(None)
    /\ UNCHANGED <<doNotImport, clock, lastPurge>>

(* DELETE /listings/{id}: a soft delete. *)
DeleteRefused(r, id, signer) ==
    /\ \/ NotFound(r, "delete", id)
       \/ Exists(id) /\ Unauthorized(r, "delete", id, signer, listings[id].submitted_by)
    /\ UNCHANGED <<storeVars, lastPurge>>

(* Mutant: DELETE verified against payment_wallet, like remove-imported.   *)
DeleteReadByPayTo(r, id, signer) ==
    /\ Free(r, "delete") /\ Exists(id)
    /\ Verified(signer, listings[id].payment_wallet)
    /\ Admit(r, "delete", id, signer, DeactivatePatch, "write")
    /\ UNCHANGED <<storeVars, lastPurge>>

DeleteRead(r, id, signer) ==
    /\ Free(r, "delete") /\ Exists(id)
    /\ Verified(signer, listings[id].submitted_by)
    /\ Admit(r, "delete", id, signer, DeactivatePatch, "write")
    /\ UNCHANGED <<storeVars, lastPurge>>

DeleteWrite(r) ==
    /\ At(r, "delete", "write")
    /\ LET id == req[r].id IN
         \/ /\ Exists(id) /\ Respond(r, 200)
            /\ listings' = [listings EXCEPT ![id] = UpdatedRow(@, req[r].args, req[r].now)]
         \/ ~Exists(id) /\ Respond(r, 500) /\ UNCHANGED listings   \* _to_response(None)
    /\ UNCHANGED <<doNotImport, clock, lastPurge>>

(* POST /listings/{id}/claim *)
ClaimRefused(r, id, signer) ==
    /\ \/ NotFound(r, "claim", id)
       \/ Free(r, "claim") /\ Exists(id) /\ listings[id].claimed /\ Respond(r, 409)
       \/ /\ Free(r, "claim") /\ Exists(id) /\ ~listings[id].claimed
          /\ ~is_evm_address(listings[id].payment_wallet) /\ Respond(r, 422)
       \/ /\ Exists(id) /\ ~listings[id].claimed /\ is_evm_address(listings[id].payment_wallet)
          /\ Unauthorized(r, "claim", id, signer, listings[id].payment_wallet)
    /\ UNCHANGED <<storeVars, lastPurge>>

ClaimRead(r, id, signer) ==
    /\ Free(r, "claim") /\ Exists(id) /\ ~listings[id].claimed
    /\ is_evm_address(listings[id].payment_wallet)
    /\ Verified(signer, listings[id].payment_wallet)
    /\ Admit(r, "claim", id, signer, NoArgs, "write")
    /\ UNCHANGED <<storeVars, lastPurge>>

ClaimedRow(row, owner, now) ==
    [row EXCEPT !.submitted_by = owner, !.claimed = TRUE, !.updated_at = now]

(* Mutant: WHERE id only, trusting the `claimed` read before.              *)
ClaimWriteUnguarded(r) ==
    /\ At(r, "claim", "write")
    /\ LET id == req[r].id
           T == [listings EXCEPT ![id] = ClaimedRow(@, Snap(r).payment_wallet, req[r].now)] IN
         \/ Exists(id) /\ Commits(T) /\ listings' = T /\ Respond(r, 200)
         \/ ~Exists(id) /\ Respond(r, 409) /\ UNCHANGED listings
    /\ UNCHANGED <<doNotImport, clock, lastPurge>>

(* WHERE id AND NOT claimed.  A UniqueViolation is not caught here. *)
ClaimWrite(r) ==
    /\ At(r, "claim", "write")
    /\ LET id == req[r].id
           claimable == Exists(id) /\ ~listings[id].claimed
           T == [listings EXCEPT ![id] = ClaimedRow(@, Snap(r).payment_wallet, req[r].now)] IN
         \/ claimable /\ Commits(T) /\ listings' = T /\ Respond(r, 200)
         \/ claimable /\ ~Commits(T) /\ Respond(r, 500) /\ UNCHANGED listings
         \/ ~claimable /\ Respond(r, 409) /\ UNCHANGED listings
    /\ UNCHANGED <<doNotImport, clock, lastPurge>>

(* POST /listings/{id}/remove-imported *)
RemoveRefused(r, id, signer) ==
    /\ \/ NotFound(r, "remove", id)
       \/ /\ Free(r, "remove") /\ Exists(id)
          /\ \/ listings[id].source = NoSource
             \/ ~is_evm_address(listings[id].payment_wallet)
          /\ Respond(r, 422)
       \/ /\ Exists(id) /\ listings[id].source # NoSource
          /\ is_evm_address(listings[id].payment_wallet)
          /\ Unauthorized(r, "remove", id, signer, listings[id].payment_wallet)
    /\ UNCHANGED <<storeVars, lastPurge>>

RemoveRead(r, id, signer) ==
    /\ Free(r, "remove") /\ Exists(id)
    /\ listings[id].source # NoSource
    /\ is_evm_address(listings[id].payment_wallet)
    /\ Verified(signer, listings[id].payment_wallet)
    /\ Admit(r, "remove", id, signer, NoArgs, "write")
    /\ UNCHANGED <<storeVars, lastPurge>>

(* Mutant: the do-not-import entry is made from the row read before.       *)
RemoveWriteFromSnapshot(r) ==
    /\ At(r, "remove", "write")
    /\ LET id == req[r].id IN
         /\ Exists(id) /\ Respond(r, 200)
         /\ listings' = [listings EXCEPT ![id] = Gone]
         /\ doNotImport' = doNotImport \cup
              {<<listings[id].source, Normalize[Snap(r).endpoint_url]>>}
    /\ UNCHANGED <<clock, lastPurge>>

(* One transaction: DELETE ... WHERE source IS NOT NULL RETURNING, then    *)
(* the do-not-import entry for the row as it was when deleted.             *)
RemoveWrite(r) ==
    /\ At(r, "remove", "write")
    /\ LET id == req[r].id
           removable == Exists(id) /\ listings[id].source # NoSource IN
         \/ /\ removable /\ Respond(r, 200)
            /\ listings' = [listings EXCEPT ![id] = Gone]
            /\ doNotImport' = doNotImport \cup
                 {<<listings[id].source, Normalize[listings[id].endpoint_url]>>}
         \/ ~removable /\ Respond(r, 404) /\ UNCHANGED <<listings, doNotImport>>
    /\ UNCHANGED <<clock, lastPurge>>

(* POST /listings/{id}/heartbeat *)
HeartbeatRefused(r, id, signer) ==
    /\ \/ NotFound(r, "heartbeat", id)
       \/ Exists(id) /\ Unauthorized(r, "heartbeat", id, signer, listings[id].submitted_by)
       \/ /\ Free(r, "heartbeat") /\ Exists(id)
          /\ Verified(signer, listings[id].submitted_by)
          /\ listings[id].status # "active" /\ Respond(r, 409)
    /\ UNCHANGED <<storeVars, lastPurge>>

HeartbeatRead(r, id, signer) ==
    /\ Free(r, "heartbeat") /\ Exists(id)
    /\ Verified(signer, listings[id].submitted_by)
    /\ listings[id].status = "active"
    /\ Admit(r, "heartbeat", id, signer, NoArgs, "write")
    /\ UNCHANGED <<storeVars, lastPurge>>

HeartbeatWrite(r) ==
    /\ At(r, "heartbeat", "write")
    /\ LET id == req[r].id
           allowed == Exists(id) /\ HeartbeatAllowed(listings[id], req[r].now) IN
         \/ /\ allowed /\ Respond(r, 200)
            /\ listings' = [listings EXCEPT ![id] = [@ EXCEPT !.last_seen_at = req[r].now]]
         \/ ~allowed /\ Respond(r, 429) /\ UNCHANGED listings
    /\ UNCHANGED <<doNotImport, clock, lastPurge>>

-----------------------------------------------------------------------------
(* GET /listings and /listings/facets write nothing but may purge. *)
Browse == "browse" \in Ops /\ MaybePurge /\ UNCHANGED req

(* The response is sent and the slot is free for the next request. *)
Finish(r) ==
    /\ req[r].pc = "done"
    /\ req' = [req EXCEPT ![r] = IdleRequest]
    /\ UNCHANGED <<storeVars, lastPurge>>

(* The rest of a request that has been admitted. *)
HandlerStep(r) ==
    \/ CreatePurge(r) \/ FindDuplicate(r) \/ CreateInsert(r) \/ ReportClash(r)
    \/ PatchWrite(r) \/ DeleteWrite(r) \/ ClaimWrite(r) \/ RemoveWrite(r) \/ HeartbeatWrite(r)

Arrival(r) ==
    \/ \E p \in Payloads : CreateRefused(r, p) \/ CreateStart(r, p)
    \/ \E id \in Ids, w \in Wallets :
         \/ \E patch \in Patches : PatchRefused(r, id, w, patch) \/ PatchRead(r, id, w, patch)
         \/ DeleteRefused(r, id, w) \/ DeleteRead(r, id, w)
         \/ ClaimRefused(r, id, w) \/ ClaimRead(r, id, w)
         \/ RemoveRefused(r, id, w) \/ RemoveRead(r, id, w)
         \/ HeartbeatRefused(r, id, w) \/ HeartbeatRead(r, id, w)

(* Startup: no request survives the process. *)
RoutesRestart == StartupMaintenance /\ req' = [r \in Requests |-> IdleRequest]

RoutesInit == lastPurge = NoTime /\ req = [r \in Requests |-> IdleRequest]

RoutesNext ==
    \/ \E r \in Requests : Arrival(r) \/ HandlerStep(r) \/ Finish(r)
    \/ Browse

=============================================================================
