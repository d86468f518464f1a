----------------------------- MODULE BoardProofs -----------------------------
(* Proofs about Board for every value of its constants. *)
EXTENDS Board, TLAPS

USE DEF Time, NoTime

-----------------------------------------------------------------------------
(* What the statements do to one row. *)

(* One column of a row set to a value of the column's type.  The provers   *)
(* take a SET clause one column at a time.                                 *)
LEMMA SetColumn ==
    ASSUME NEW row \in Row
    PROVE  /\ \A v \in BOOLEAN : /\ [row EXCEPT !.test_name = v] \in Row
                                 /\ [row EXCEPT !.pricing_amount = v] \in Row
                                 /\ [row EXCEPT !.payment_options = v] \in Row
                                 /\ [row EXCEPT !.missing = v] \in Row
           /\ \A v \in Types : [row EXCEPT !.listing_type = v] \in Row
           /\ \A v \in Urls : [row EXCEPT !.endpoint_url = v] \in Row
           /\ \A v \in Keys : [row EXCEPT !.endpoint_key = v] \in Row
           /\ \A v \in Wallets \cup {Placeholder} \cup NonEvm :
                 [row EXCEPT !.payment_wallet = v] \in Row
           /\ \A v \in PricingModels : [row EXCEPT !.pricing_model = v] \in Row
           /\ \A v \in {"active", "inactive"} : [row EXCEPT !.status = v] \in Row
           /\ \A v \in Time : /\ [row EXCEPT !.updated_at = v] \in Row
                              /\ [row EXCEPT !.last_seen_at = v] \in Row
    BY DEF Row

(* A SET clause keeps a row a row, and touches no column that says whose   *)
(* it is or where it came from.                                            *)
LEMMA SetClauseKeepsOwner ==
    ASSUME NEW row \in Row, NEW patch, NEW now \in Time,
           \A c \in DOMAIN patch : c \in DOMAIN PatchType => patch[c] \in PatchType[c]
    PROVE  /\ UpdatedRow(row, patch, now) \in Row
           /\ UpdatedRow(row, patch, now).claimed = row.claimed
           /\ UpdatedRow(row, patch, now).submitted_by = row.submitted_by
           /\ UpdatedRow(row, patch, now).source = row.source
           /\ UpdatedRow(row, patch, now).is_test = row.is_test
           /\ UpdatedRow(row, patch, now).created_at = row.created_at
           /\ UpdatedRow(row, patch, now).last_seen_at = row.last_seen_at
           /\ UpdatedRow(row, patch, now).missing = row.missing
<1>1. \A c \in DOMAIN patch : c \in DOMAIN PatchType => patch[c] \in PatchType[c]
    OBVIOUS
<1>2. /\ Merged(patch, row, "test_name") \in BOOLEAN
      /\ Merged(patch, row, "listing_type") \in Types
      /\ Merged(patch, row, "endpoint_url") \in Urls
      /\ Merged(patch, row, "payment_wallet") \in Wallets \cup {Placeholder} \cup NonEvm
      /\ Merged(patch, row, "pricing_model") \in PricingModels
      /\ Merged(patch, row, "pricing_amount") \in BOOLEAN
      /\ Merged(patch, row, "payment_options") \in BOOLEAN
      /\ Merged(patch, row, "status") \in {"active", "inactive"}
    BY <1>1 DEF Merged, PatchType, Row
<1>3. MergedKey(patch, row) \in Keys
    BY <1>1, StoreAssumption DEF MergedKey, PatchType, Row
<1> DEFINE r1 == [row EXCEPT !.test_name = Merged(patch, row, "test_name")]
           r2 == [r1 EXCEPT !.listing_type = Merged(patch, row, "listing_type")]
           r3 == [r2 EXCEPT !.endpoint_url = Merged(patch, row, "endpoint_url")]
           r4 == [r3 EXCEPT !.endpoint_key = MergedKey(patch, row)]
           r5 == [r4 EXCEPT !.payment_wallet = Merged(patch, row, "payment_wallet")]
           r6 == [r5 EXCEPT !.pricing_model = Merged(patch, row, "pricing_model")]
           r7 == [r6 EXCEPT !.pricing_amount = Merged(patch, row, "pricing_amount")]
           r8 == [r7 EXCEPT !.payment_options = Merged(patch, row, "payment_options")]
           r9 == [r8 EXCEPT !.status = Merged(patch, row, "status")]
           r10 == [r9 EXCEPT !.updated_at = now]
<1>4. r10 \in Row
  <2>1. r2 \in Row  BY <1>2, SetColumn
  <2>2. r4 \in Row  BY <2>1, <1>2, <1>3, SetColumn
  <2>3. r6 \in Row  BY <2>2, <1>2, SetColumn
  <2>4. r8 \in Row  BY <2>3, <1>2, SetColumn
  <2> HIDE DEF r8
  <2> QED  BY <2>4, <1>2, SetColumn
<1>5. UpdatedRow(row, patch, now) \in Row
    BY <1>4 DEF UpdatedRow
<1> QED
    BY <1>5 DEF UpdatedRow

LEMMA UpdatedRowKeepsOwner ==
    ASSUME NEW row \in Row, NEW patch \in Patches \cup {DeactivatePatch}, NEW now \in Time
    PROVE  /\ UpdatedRow(row, patch, now) \in Row
           /\ UpdatedRow(row, patch, now).claimed = row.claimed
           /\ UpdatedRow(row, patch, now).submitted_by = row.submitted_by
           /\ UpdatedRow(row, patch, now).source = row.source
           /\ UpdatedRow(row, patch, now).is_test = row.is_test
           /\ UpdatedRow(row, patch, now).created_at = row.created_at
           /\ UpdatedRow(row, patch, now).last_seen_at = row.last_seen_at
           /\ UpdatedRow(row, patch, now).missing = row.missing
<1>1. \A c \in DOMAIN patch : c \in DOMAIN PatchType => patch[c] \in PatchType[c]
    BY RoutesAssumption DEF DeactivatePatch, PatchType
<1> QED
    BY <1>1, SetClauseKeepsOwner

LEMMA ClaimedRowIsRow ==
    ASSUME NEW row \in Row, NEW w \in Wallets, NEW now \in Time
    PROVE  /\ ClaimedRow(row, w, now) \in Row
           /\ ClaimedRow(row, w, now).claimed
           /\ ClaimedRow(row, w, now).submitted_by = w
    BY DEF ClaimedRow, Row

LEMMA CreatedRowIsRow ==
    ASSUME NEW p \in Payloads, NEW now \in Time
    PROVE  /\ CreatedRow(p, now) \in Row
           /\ CreatedRow(p, now).claimed
           /\ CreatedRow(p, now).submitted_by = p.submitted_by
    BY RoutesAssumption, StoreAssumption DEF CreatedRow, Row, PayloadType

LEMMA ImportedRowIsRow ==
    ASSUME NEW rec \in RecordType, NEW src \in Sources, NEW now \in Time
    PROVE  /\ ImportedRow(rec, src, now) \in Row
           /\ ~ImportedRow(rec, src, now).claimed
           /\ ImportedRow(rec, src, now).submitted_by = Placeholder
           /\ ImportedRow(rec, src, now).source = src
           /\ ImportedRow(rec, src, now).status = "active"
           /\ ImportedRow(rec, src, now).last_seen_at = NoTime
           /\ ImportedRow(rec, src, now).updated_at = ImportedRow(rec, src, now).created_at
    BY StoreAssumption DEF ImportedRow, Row, RecordType

(* A conflict with a claimed row changes its missing mark only, with an    *)
(* unclaimed one never its owner, source, status or times.                 *)
LEMMA RefreshedRowKeepsOwner ==
    ASSUME NEW row \in Row, NEW rec \in RecordType
    PROVE  /\ RefreshedRow(row, rec) \in Row
           /\ RefreshedRow(row, rec).claimed = row.claimed
           /\ RefreshedRow(row, rec).submitted_by = row.submitted_by
           /\ RefreshedRow(row, rec).source = row.source
           /\ RefreshedRow(row, rec).status = row.status
           /\ RefreshedRow(row, rec).last_seen_at = row.last_seen_at
           /\ RefreshedRow(row, rec).created_at = row.created_at
           /\ RefreshedRow(row, rec).updated_at = row.updated_at
           /\ row.claimed => OwnerView(RefreshedRow(row, rec)) = OwnerView(row)
<1>1. CASE row.claimed
    BY <1>1 DEF RefreshedRow, Row, OwnerView
<1>2. CASE ~row.claimed
  <2> DEFINE r1 == [row EXCEPT !.test_name = rec.test_name]
             r2 == [r1 EXCEPT !.listing_type = rec.listing_type]
             r3 == [r2 EXCEPT !.endpoint_url = rec.endpoint_url]
             r4 == [r3 EXCEPT !.payment_wallet = rec.payment_wallet]
             r5 == [r4 EXCEPT !.pricing_model = rec.pricing_model]
             r6 == [r5 EXCEPT !.pricing_amount = rec.pricing_amount]
             r7 == [r6 EXCEPT !.payment_options = rec.payment_options]
             r8 == [r7 EXCEPT !.missing = FALSE]
  <2>1. /\ rec.test_name \in BOOLEAN /\ rec.listing_type \in Types
        /\ rec.endpoint_url \in Urls
        /\ rec.payment_wallet \in Wallets \cup {Placeholder} \cup NonEvm
        /\ rec.pricing_model \in PricingModels
        /\ rec.pricing_amount \in BOOLEAN /\ rec.payment_options \in BOOLEAN
      BY DEF RecordType
  <2>2. r3 \in Row  BY <2>1, SetColumn
  <2>3. r5 \in Row  BY <2>1, <2>2, SetColumn
  <2>4. r8 \in Row
    <3>1. r6 \in Row  BY <2>1, <2>3, SetColumn
    <3> HIDE DEF r6
    <3> QED  BY <2>1, <3>1, SetColumn
  <2>5. RefreshedRow(row, rec) \in Row
      BY <1>2, <2>4 DEF RefreshedRow
  <2> QED
      BY <1>2, <2>5 DEF RefreshedRow
<1> QED
    BY <1>1, <1>2 DEF Row

LEMMA NewIdIsFresh ==
    ASSUME HasNewId
    PROVE  NewId \in Ids /\ listings[NewId] = Fresh
    BY DEF HasNewId, NewId

-----------------------------------------------------------------------------
(* What one step may do to one row (a before, b after) and to the table.   *)
(* Only a PATCH, a DELETE or a heartbeat takes an OwnerStep.               *)

QuietStep(a, b) ==
    \/ b = a
    \/ a = Fresh /\ b \in OwnedRows
    \/ a \notin {Fresh, Gone} /\ b = Gone
    \/ /\ a \notin {Fresh, Gone} /\ b \in OwnedRows
       /\ a.claimed => b.claimed /\ b.submitted_by = a.submitted_by /\ OwnerView(b) = OwnerView(a)

OwnerStep(a, b) ==
    /\ a \notin {Fresh, Gone} /\ b \in OwnedRows
    /\ a.claimed /\ b.claimed /\ b.submitted_by = a.submitted_by

QuietTable(T, U) ==
    U \in [Ids -> OwnedRows \cup {Fresh, Gone}] /\ \A i \in Ids : QuietStep(T[i], U[i])
TableStep(T, U) ==
    /\ U \in [Ids -> OwnedRows \cup {Fresh, Gone}]
    /\ \A i \in Ids : QuietStep(T[i], U[i]) \/ OwnerStep(T[i], U[i])

LEMMA OwnedRowIsRow ==
    ASSUME NEW row \in OwnedRows
    PROVE  row \in Row /\ row \notin {Fresh, Gone}
    BY SentinelAssumption DEF OwnedRows

(* Whatever a handler is waiting to write stays in order while others      *)
(* change the table: the owner that signed still owns the row.             *)
LEMMA TableStepKeepsPending ==
    ASSUME NEW T \in [Ids -> OwnedRows \cup {Fresh, Gone}], NEW U, TableStep(T, U),
           NEW q, PendingOK(T, q)
    PROVE  PendingOK(U, q)
<1>1. CASE q.op \notin {"none", "create"}
  <2>1. q.id \in Ids /\ T[q.id] # Fresh /\ U[q.id] # Fresh
      BY <1>1, OwnedRowIsRow, SentinelAssumption DEF PendingOK, TableStep, QuietStep, OwnerStep
  <2>2. CASE q.op \in {"patch", "delete", "heartbeat"}
    <3>1. CASE U[q.id] = Gone
        BY <2>1, <2>2, <3>1 DEF PendingOK
    <3>2. CASE U[q.id] # Gone
      <4>1. T[q.id] \in OwnedRows /\ T[q.id].submitted_by = q.signer /\ q.signer \in Wallets
          BY <2>1, <2>2, <3>2, OwnedRowIsRow DEF PendingOK, TableStep, QuietStep, OwnerStep
      <4>2. T[q.id].claimed
          BY <4>1, StoreAssumption DEF OwnedRows
      <4>3. U[q.id].submitted_by = q.signer
          BY <4>1, <4>2, <2>1, <3>2, OwnedRowIsRow DEF TableStep, QuietStep, OwnerStep
      <4> QED
          BY <2>1, <2>2, <4>1, <4>3 DEF PendingOK
    <3> QED
        BY <3>1, <3>2
  <2>3. CASE q.op \notin {"patch", "delete", "heartbeat"}
      BY <2>1, <2>3 DEF PendingOK
  <2> QED
      BY <2>2, <2>3
<1>2. CASE q.op \in {"none", "create"}
    BY <1>2 DEF PendingOK
<1> QED
    BY <1>1, <1>2

(* A statement that sets one row. *)
LEMMA SetRowQuiet ==
    ASSUME NEW T \in [Ids -> OwnedRows \cup {Fresh, Gone}], NEW id \in Ids,
           NEW row \in OwnedRows \cup {Gone}, QuietStep(T[id], row)
    PROVE  QuietTable(T, [T EXCEPT ![id] = row])
    BY DEF QuietTable, QuietStep

LEMMA SetRowByOwner ==
    ASSUME NEW T \in [Ids -> OwnedRows \cup {Fresh, Gone}], NEW id \in Ids,
           NEW row \in OwnedRows, OwnerStep(T[id], row)
    PROVE  TableStep(T, [T EXCEPT ![id] = row])
    BY DEF TableStep, QuietStep

LEMMA QuietTableSteps ==
    ASSUME NEW T, NEW U, QuietTable(T, U)
    PROVE  TableStep(T, U)
    BY DEF QuietTable, TableStep

(* The rows the statements leave are owned rows. *)
LEMMA OwnerWrites ==
    ASSUME NEW row \in OwnedRows, row.claimed, NEW now \in Time
    PROVE  /\ \A patch \in Patches \cup {DeactivatePatch} :
                OwnerStep(row, UpdatedRow(row, patch, now))
           /\ OwnerStep(row, [row EXCEPT !.last_seen_at = now])
<1>1. row \in Row /\ row \notin {Fresh, Gone} /\ row.submitted_by \in Wallets
    BY OwnedRowIsRow DEF OwnedRows
<1>2. ASSUME NEW patch \in Patches \cup {DeactivatePatch}
      PROVE  OwnerStep(row, UpdatedRow(row, patch, now))
    BY <1>1, UpdatedRowKeepsOwner DEF OwnerStep, OwnedRows
<1>3. OwnerStep(row, [row EXCEPT !.last_seen_at = now])
  <2> DEFINE new == [row EXCEPT !.last_seen_at = now]
  <2>0. row \in Row
      BY <1>1
  <2>1. new \in Row
      BY <2>0 DEF Row
  <2>3. new.claimed = row.claimed /\ new.submitted_by = row.submitted_by
      BY <2>0 DEF Row
  <2> HIDE DEF new
  <2>2. OwnerStep(row, new)
      BY <1>1, <2>1, <2>3 DEF OwnerStep, OwnedRows
  <2> QED
      BY <2>2 DEF new
<1> QED
    BY <1>2, <1>3

LEMMA QuietWrites ==
    ASSUME NEW now \in Time
    PROVE  /\ \A p \in Payloads : p.submitted_by \in Wallets =>
                QuietStep(Fresh, CreatedRow(p, now)) /\ CreatedRow(p, now) \in OwnedRows
           /\ \A rec \in RecordType, src \in Sources :
                QuietStep(Fresh, ImportedRow(rec, src, now)) /\ ImportedRow(rec, src, now) \in OwnedRows
           /\ \A row \in OwnedRows, w \in Wallets : ~row.claimed =>
                QuietStep(row, ClaimedRow(row, w, now)) /\ ClaimedRow(row, w, now) \in OwnedRows
           /\ \A row \in OwnedRows, rec \in RecordType :
                QuietStep(row, RefreshedRow(row, rec)) /\ RefreshedRow(row, rec) \in OwnedRows
           /\ \A row \in OwnedRows :
                /\ QuietStep(row, [row EXCEPT !.missing = TRUE])
                /\ [row EXCEPT !.missing = TRUE] \in OwnedRows
<1>1. ASSUME NEW p \in Payloads, p.submitted_by \in Wallets
      PROVE  QuietStep(Fresh, CreatedRow(p, now)) /\ CreatedRow(p, now) \in OwnedRows
    BY <1>1, CreatedRowIsRow DEF QuietStep, OwnedRows
<1>2. ASSUME NEW rec \in RecordType, NEW src \in Sources
      PROVE  QuietStep(Fresh, ImportedRow(rec, src, now)) /\ ImportedRow(rec, src, now) \in OwnedRows
    BY ImportedRowIsRow, StoreAssumption DEF QuietStep, OwnedRows
<1>3. ASSUME NEW row \in OwnedRows, NEW w \in Wallets, ~row.claimed
      PROVE  QuietStep(row, ClaimedRow(row, w, now)) /\ ClaimedRow(row, w, now) \in OwnedRows
    BY <1>3, OwnedRowIsRow, ClaimedRowIsRow DEF QuietStep, OwnedRows
<1>4. ASSUME NEW row \in OwnedRows, NEW rec \in RecordType
      PROVE  QuietStep(row, RefreshedRow(row, rec)) /\ RefreshedRow(row, rec) \in OwnedRows
    BY OwnedRowIsRow, RefreshedRowKeepsOwner DEF QuietStep, OwnedRows
<1>5. ASSUME NEW row \in OwnedRows
      PROVE  /\ QuietStep(row, [row EXCEPT !.missing = TRUE])
             /\ [row EXCEPT !.missing = TRUE] \in OwnedRows
  <2>1. row \in Row /\ row \notin {Fresh, Gone} /\ [row EXCEPT !.missing = TRUE] \in Row
      BY OwnedRowIsRow, SetColumn
  <2> DEFINE new == [row EXCEPT !.missing = TRUE]
  <2>2. /\ new \in Row /\ new.claimed = row.claimed /\ new.submitted_by = row.submitted_by
        /\ new.source = row.source /\ new.status = row.status
        /\ new.last_seen_at = row.last_seen_at /\ new.updated_at = row.updated_at
        /\ new.created_at = row.created_at
      BY <2>1
  <2>3. OwnerView(new) = OwnerView(row)
      BY <2>1 DEF OwnerView, Row
  <2> HIDE DEF new
  <2>4. new \in OwnedRows
      BY <2>2 DEF OwnedRows
  <2>5. QuietStep(row, new)
      BY <2>1, <2>2, <2>3, <2>4 DEF QuietStep
  <2> QED
      BY <2>4, <2>5 DEF new
<1> QED
    BY <1>1, <1>2, <1>3, <1>4, <1>5

-----------------------------------------------------------------------------
(* Requests.  Everything a step of the routes preserves, with the table    *)
(* step it takes.                                                          *)

RequestsOK(T, R) == R \in [Requests -> RequestState] /\ \A r \in Requests : PendingOK(T, R[r])

Advance ==
    /\ TableStep(listings, listings')
    /\ doNotImport' \subseteq Sources \X Keys /\ clock' \in Time
    /\ lastPurge' \in Time \cup {NoTime}
    /\ RequestsOK(listings', req')

LEMMA TablesUnchanged ==
    ASSUME NEW T \in [Ids -> OwnedRows \cup {Fresh, Gone}]
    PROVE  QuietTable(T, T) /\ TableStep(T, T)
    BY DEF QuietTable, TableStep, QuietStep

LEMMA IdleRequestsOK ==
    ASSUME NEW T, NEW code \in Codes
    PROVE  /\ IdleRequest \in RequestState /\ PendingOK(T, IdleRequest)
           /\ [IdleRequest EXCEPT !.pc = "done", !.resp = code] \in RequestState
           /\ PendingOK(T, [IdleRequest EXCEPT !.pc = "done", !.resp = code])
<1> DEFINE done == [IdleRequest EXCEPT !.pc = "done"]
           answered == [done EXCEPT !.resp = code]
<1>1. 0 \in Time
    BY StoreAssumption
<1>2. IdleRequest \in RequestState /\ PendingOK(T, IdleRequest)
    BY <1>1 DEF IdleRequest, RequestState, PendingOK, Codes
<1>3. done \in RequestState /\ done.op = IdleRequest.op
    BY <1>2 DEF RequestState
<1> HIDE DEF done
<1>4. answered \in RequestState /\ answered.op = done.op
    BY <1>3 DEF RequestState
<1>5. IdleRequest.op = "none"
    BY DEF IdleRequest
<1> HIDE DEF answered
<1>6. PendingOK(T, answered)
    BY <1>3, <1>4, <1>5 DEF PendingOK
<1> QED
    BY <1>2, <1>4, <1>6 DEF answered, done

LEMMA RequestsSet ==
    ASSUME NEW T \in [Ids -> OwnedRows \cup {Fresh, Gone}], NEW U, TableStep(T, U),
           NEW R, RequestsOK(T, R), NEW r \in Requests,
           NEW q \in RequestState, PendingOK(U, q)
    PROVE  RequestsOK(U, [R EXCEPT ![r] = q])
    BY TableStepKeepsPending DEF RequestsOK

LEMMA RequestsKept ==
    ASSUME NEW T \in [Ids -> OwnedRows \cup {Fresh, Gone}], NEW U, TableStep(T, U),
           NEW R, RequestsOK(T, R)
    PROVE  RequestsOK(U, R)
    BY TableStepKeepsPending DEF RequestsOK

LEMMA RequestMoves ==
    ASSUME NEW T, NEW q \in RequestState, PendingOK(T, q),
           NEW pc \in {"purge", "dup", "write", "clash"}, NEW now \in Time
    PROVE  /\ [q EXCEPT !.pc = pc, !.now = now] \in RequestState
           /\ PendingOK(T, [q EXCEPT !.pc = pc, !.now = now])
<1>1. [q EXCEPT !.pc = pc, !.now = now] \in RequestState
    BY DEF RequestState
<1>2. /\ [q EXCEPT !.pc = pc, !.now = now].op = q.op
      /\ [q EXCEPT !.pc = pc, !.now = now].args = q.args
      /\ [q EXCEPT !.pc = pc, !.now = now].snap = q.snap
      /\ [q EXCEPT !.pc = pc, !.now = now].id = q.id
      /\ [q EXCEPT !.pc = pc, !.now = now].signer = q.signer
    OBVIOUS
<1> QED
    BY <1>1, <1>2 DEF PendingOK

LEMMA InvFacts ==
    ASSUME OwnershipInv
    PROVE  /\ listings \in [Ids -> OwnedRows \cup {Fresh, Gone}]
           /\ doNotImport \subseteq Sources \X Keys /\ clock \in Time
           /\ lastPurge \in Time \cup {NoTime}
           /\ RequestsOK(listings, req)
           /\ TableStep(listings, listings)
    BY TablesUnchanged
    DEF OwnershipInv, TypeOK, StoreTypeOK, PurgeTypeOK, RoutesTypeOK, RequestsOK

(* A handler that answers, or goes to its next await, leaves the requests  *)
(* in order whatever it just did to the table.                             *)
LEMMA Responds ==
    ASSUME OwnershipInv, NEW r \in Requests, NEW code \in Codes, Respond(r, code),
           TableStep(listings, listings')
    PROVE  RequestsOK(listings', req')
    BY InvFacts, IdleRequestsOK, RequestsSet DEF Respond

LEMMA GoesTo ==
    ASSUME OwnershipInv, NEW r \in Requests, NEW pc \in {"purge", "dup", "write", "clash"},
           Goto(r, pc), TableStep(listings, listings')
    PROVE  RequestsOK(listings', req')
<1>1. req[r] \in RequestState /\ PendingOK(listings', req[r]) /\ clock \in Time
    BY InvFacts, RequestsKept DEF RequestsOK
<1>2. /\ [req[r] EXCEPT !.pc = pc, !.now = clock] \in RequestState
      /\ PendingOK(listings', [req[r] EXCEPT !.pc = pc, !.now = clock])
    BY <1>1, RequestMoves
<1>3. req' = [req EXCEPT ![r] = [req[r] EXCEPT !.pc = pc, !.now = clock]]
    BY InvFacts DEF Goto, RequestsOK
<1> QED
    BY <1>2, <1>3, InvFacts, RequestsSet

(* A signed handler that passed its checks on listings[id]. *)
LEMMA Admits ==
    ASSUME OwnershipInv, NEW r \in Requests, NEW op \in OpNames \ {"create"}, NEW id \in Ids,
           NEW w \in Wallets, NEW args, NEW pc \in {"dup", "write"},
           Exists(id), Admit(r, op, id, w, args, pc),
           args \in IF op = "patch" THEN Patches ELSE IF op = "delete" THEN {DeactivatePatch} ELSE {NoArgs},
           op = "claim" => listings[id].payment_wallet \in Wallets,
           op \in {"patch", "delete", "heartbeat"} => listings[id].submitted_by = w,
           UNCHANGED <<storeVars, lastPurge>>
    PROVE  Advance /\ QuietTable(listings, listings')
<1> DEFINE q == [pc |-> pc, op |-> op, id |-> id, signer |-> w, args |-> args,
                 snap |-> SnapshotOf(listings[id]), now |-> clock, resp |-> 0]
<1>1. listings[id] \in Row
    BY InvFacts, OwnedRowIsRow DEF Exists
<1>2. SnapshotOf(listings[id]) \in Snapshot
    BY <1>1 DEF SnapshotOf, Snapshot, Row
<1>3. q \in RequestState
    BY <1>2, InvFacts DEF RequestState, Codes
<1>4. SnapshotOf(listings[id]).payment_wallet = listings[id].payment_wallet
    BY DEF SnapshotOf
<1>5. PendingOK(listings, q)
    BY <1>2, <1>4 DEF PendingOK, Exists
<1>6. req' = [req EXCEPT ![r] = q]
    BY DEF Admit
<1> HIDE DEF q
<1>7. RequestsOK(listings, req')
    BY <1>3, <1>5, <1>6, InvFacts, RequestsSet
<1> QED
    BY <1>7, InvFacts, TablesUnchanged DEF Advance, storeVars

-----------------------------------------------------------------------------
(* The actions of the routes. *)

LEMMA RefusalAdvances ==
    ASSUME OwnershipInv, NEW r \in Requests, NEW code \in Codes, Respond(r, code),
           UNCHANGED <<storeVars, lastPurge>>
    PROVE  Advance /\ QuietTable(listings, listings')
    BY InvFacts, TablesUnchanged, Responds DEF Advance, storeVars

LEMMA ArrivalAdvances ==
    ASSUME OwnershipInv, NEW r \in Requests, Arrival(r)
    PROVE  Advance /\ QuietTable(listings, listings')
<1> USE DEF Codes
<1>1. ASSUME NEW p \in Payloads, CreateRefused(r, p)
      PROVE  Advance /\ QuietTable(listings, listings')
    BY <1>1, RefusalAdvances DEF CreateRefused
<1>2. ASSUME NEW p \in Payloads, CreateStart(r, p)
      PROVE  Advance /\ QuietTable(listings, listings')
  <2> DEFINE q0 == [IdleRequest EXCEPT !.pc = "purge"]
             q1 == [q0 EXCEPT !.op = "create"]
             q2 == [q1 EXCEPT !.args = p]
  <2>1. IdleRequest \in RequestState
      BY IdleRequestsOK
  <2>2. q0 \in RequestState
      BY <2>1 DEF RequestState
  <2> HIDE DEF q0
  <2>3. q1 \in RequestState /\ q1.op = "create"
      BY <2>2 DEF RequestState, OpNames
  <2> HIDE DEF q1
  <2>4. q2 \in RequestState /\ q2.op = "create" /\ q2.args = p
      BY <2>3 DEF RequestState
  <2>5. req' = [req EXCEPT ![r] = q2]
      BY <1>2 DEF CreateStart, q0, q1
  <2> HIDE DEF q2
  <2>6. p.submitted_by \in Wallets
      BY <1>2, RoutesAssumption DEF CreateStart, is_reserved_address, PayloadType
  <2>7. PendingOK(listings, q2)
      BY <2>4, <2>6 DEF PendingOK
  <2>8. RequestsOK(listings, req')
      BY <2>4, <2>5, <2>7, InvFacts, RequestsSet
  <2> QED
      BY <1>2, <2>8, InvFacts, TablesUnchanged DEF CreateStart, Advance, storeVars
<1>3. ASSUME NEW id \in Ids, NEW w \in Wallets, NEW patch \in Patches,
             PatchRefused(r, id, w, patch)
      PROVE  Advance /\ QuietTable(listings, listings')
    BY <1>3, RefusalAdvances DEF PatchRefused, NotFound, Unauthorized
<1>4. ASSUME NEW id \in Ids, NEW w \in Wallets, NEW patch \in Patches,
             PatchRead(r, id, w, patch)
      PROVE  Advance /\ QuietTable(listings, listings')
  <2>1. \E pc \in {"dup", "write"} : Admit(r, "patch", id, w, patch, pc)
      BY <1>4 DEF PatchRead
  <2> QED
      BY <1>4, <2>1, Admits DEF PatchRead, Verified, OpNames
<1>5. ASSUME NEW id \in Ids, NEW w \in Wallets,
             \/ DeleteRefused(r, id, w) \/ ClaimRefused(r, id, w)
             \/ RemoveRefused(r, id, w) \/ HeartbeatRefused(r, id, w)
      PROVE  Advance /\ QuietTable(listings, listings')
    BY <1>5, RefusalAdvances
    DEF DeleteRefused, ClaimRefused, RemoveRefused, HeartbeatRefused, NotFound, Unauthorized
<1>6. ASSUME NEW id \in Ids, NEW w \in Wallets, DeleteRead(r, id, w)
      PROVE  Advance /\ QuietTable(listings, listings')
    BY <1>6, Admits DEF DeleteRead, Verified, OpNames
<1>7. ASSUME NEW id \in Ids, NEW w \in Wallets, ClaimRead(r, id, w)
      PROVE  Advance /\ QuietTable(listings, listings')
    BY <1>7, Admits DEF ClaimRead, Verified, OpNames
<1>8. ASSUME NEW id \in Ids, NEW w \in Wallets, RemoveRead(r, id, w)
      PROVE  Advance /\ QuietTable(listings, listings')
    BY <1>8, Admits DEF RemoveRead, OpNames
<1>9. ASSUME NEW id \in Ids, NEW w \in Wallets, HeartbeatRead(r, id, w)
      PROVE  Advance /\ QuietTable(listings, listings')
    BY <1>9, Admits DEF HeartbeatRead, Verified, OpNames
<1> QED
    BY <1>1, <1>2, <1>3, <1>4, <1>5, <1>6, <1>7, <1>8, <1>9 DEF Arrival

(* The purge takes rows away and nothing else. *)
LEMMA PurgeIsQuiet ==
    ASSUME OwnershipInv, NEW D \in PurgeSets
    PROVE  QuietTable(listings, Purged(D))
<1>1. D \subseteq RowsOf(listings)
    BY DEF PurgeSets, Expired
<1> QED
    BY <1>1, InvFacts DEF RowsOf, Purged, QuietTable, QuietStep

LEMMA MaybePurgeAdvances ==
    ASSUME OwnershipInv, MaybePurge
    PROVE  /\ QuietTable(listings, listings')
           /\ doNotImport' \subseteq Sources \X Keys /\ clock' \in Time
           /\ lastPurge' \in Time \cup {NoTime}
    BY InvFacts, PurgeIsQuiet, TablesUnchanged DEF MaybePurge, PurgeOrFail, storeVars

LEMMA PurgingCreateAdvances ==
    ASSUME OwnershipInv, NEW r \in Requests, CreatePurge(r)
    PROVE  Advance /\ QuietTable(listings, listings')
<1>1. TableStep(listings, listings')
    BY MaybePurgeAdvances, QuietTableSteps DEF CreatePurge
<1>2. Goto(r, "dup") \/ Goto(r, "write")
    BY DEF CreatePurge
<1>3. RequestsOK(listings', req')
    BY <1>1, <1>2, GoesTo
<1> QED
    BY <1>1, <1>3, MaybePurgeAdvances DEF CreatePurge, Advance

(* A statement of a handler that wrote the table, or let it be. *)
LEMMA StatementAdvances ==
    ASSUME OwnershipInv, NEW r \in Requests, TableStep(listings, listings'),
           \/ \E code \in Codes : Respond(r, code)
           \/ \E pc \in {"purge", "dup", "write", "clash"} : Goto(r, pc),
           doNotImport' \subseteq Sources \X Keys, UNCHANGED <<clock, lastPurge>>
    PROVE  Advance
    BY InvFacts, Responds, GoesTo DEF Advance

LEMMA QuietHandlerAdvances ==
    ASSUME OwnershipInv, NEW r \in Requests,
           \/ FindDuplicate(r) \/ CreateInsert(r) \/ ReportClash(r)
           \/ ClaimWrite(r) \/ RemoveWrite(r)
    PROVE  Advance /\ QuietTable(listings, listings')
<1> USE DEF Codes
<1>1. QuietTable(listings, listings) /\ TableStep(listings, listings)
    BY InvFacts, TablesUnchanged
<1>2. req[r] \in RequestState /\ PendingOK(listings, req[r])
    BY InvFacts DEF RequestsOK
<1>3. req[r].now \in Time
    BY <1>2 DEF RequestState
<1>4. CASE FindDuplicate(r) \/ ReportClash(r)
    BY <1>1, <1>4, StatementAdvances, InvFacts DEF FindDuplicate, ReportClash, storeVars
<1>5. CASE CreateInsert(r)
  <2> DEFINE row == CreatedRow(req[r].args, req[r].now)
             T == [listings EXCEPT ![NewId] = row]
  <2>1. NewId \in Ids /\ listings[NewId] = Fresh
      BY <1>5, NewIdIsFresh DEF CreateInsert
  <2>2. req[r].args \in Payloads /\ req[r].args.submitted_by \in Wallets
      BY <1>2, <1>5 DEF CreateInsert, At, PendingOK
  <2>3. QuietStep(Fresh, row) /\ row \in OwnedRows
      BY <1>3, <2>2, QuietWrites
  <2>4. QuietTable(listings, T)
      BY <2>1, <2>3, InvFacts, SetRowQuiet
  <2>5. \/ listings' = T /\ Respond(r, 201)
        \/ listings' = listings /\ Goto(r, "clash")
      BY <1>5 DEF CreateInsert
  <2>6. QuietTable(listings, listings')
      BY <1>1, <2>4, <2>5
  <2> QED
      BY <1>5, <2>5, <2>6, QuietTableSteps, StatementAdvances, InvFacts DEF CreateInsert
<1>6. CASE ClaimWrite(r)
  <2> DEFINE id == req[r].id
             row == ClaimedRow(listings[id], Snap(r).payment_wallet, req[r].now)
             T == [listings EXCEPT ![id] = row]
  <2>1. id \in Ids /\ Snap(r).payment_wallet \in Wallets
      BY <1>2, <1>6 DEF ClaimWrite, At, PendingOK, Snap
  <2>2. \/ Exists(id) /\ ~listings[id].claimed /\ listings' = T /\ Respond(r, 200)
        \/ listings' = listings /\ \E code \in Codes : Respond(r, code)
    <3>1. [listings EXCEPT ![id] = ClaimedRow(@, Snap(r).payment_wallet, req[r].now)] = T
        BY <2>1, InvFacts
    <3> QED
        BY <1>6, <3>1 DEF ClaimWrite
  <2>3. ASSUME Exists(id), ~listings[id].claimed
        PROVE  QuietTable(listings, T)
    <3>1. listings[id] \in OwnedRows
        BY <2>1, <2>3, InvFacts DEF Exists
    <3>2. QuietStep(listings[id], row) /\ row \in OwnedRows
        BY <1>3, <2>1, <2>3, <3>1, QuietWrites
    <3> QED
        BY <2>1, <3>2, InvFacts, SetRowQuiet
  <2>4. QuietTable(listings, listings')
      BY <1>1, <2>2, <2>3
  <2> QED
      BY <1>6, <2>2, <2>4, QuietTableSteps, StatementAdvances, InvFacts DEF ClaimWrite
<1>7. CASE RemoveWrite(r)
  <2> DEFINE id == req[r].id
             entry == <<listings[id].source, Normalize[listings[id].endpoint_url]>>
  <2>1. id \in Ids
      BY <1>2, <1>7 DEF RemoveWrite, At, PendingOK
  <2>2. \/ /\ Exists(id) /\ listings[id].source # NoSource
           /\ listings' = [listings EXCEPT ![id] = Gone]
           /\ doNotImport' = doNotImport \cup {entry} /\ Respond(r, 200)
        \/ UNCHANGED <<listings, doNotImport>> /\ Respond(r, 404)
      BY <1>7 DEF RemoveWrite
  <2>3. ASSUME Exists(id), listings[id].source # NoSource
        PROVE  entry \in Sources \X Keys /\ QuietTable(listings, [listings EXCEPT ![id] = Gone])
    <3>1. listings[id] \in OwnedRows /\ listings[id] \in Row
        BY <2>1, <2>3, InvFacts, OwnedRowIsRow DEF Exists
    <3>2. entry \in Sources \X Keys
        BY <2>3, <3>1, StoreAssumption DEF Row
    <3>3. QuietStep(listings[id], Gone)
        BY <2>3 DEF Exists, QuietStep
    <3> QED
        BY <2>1, <3>2, <3>3, InvFacts, SetRowQuiet
  <2>4. QuietTable(listings, listings') /\ doNotImport' \subseteq Sources \X Keys
      BY <1>1, <2>2, <2>3, InvFacts
  <2>5. UNCHANGED <<clock, lastPurge>>
      BY <1>7 DEF RemoveWrite
  <2>6. \E code \in Codes : Respond(r, code)
      BY <2>2
  <2>7. TableStep(listings, listings')
      BY <2>4, QuietTableSteps
  <2> QED
      BY <2>4, <2>5, <2>6, <2>7, StatementAdvances
<1> QED
    BY <1>4, <1>5, <1>6, <1>7

(* The three writes of an owner, and what they need of the snapshot: the   *)
(* wallet that signed still owns the claimed row.                          *)
LEMMA OwnerHandlerAdvances ==
    ASSUME OwnershipInv, NEW r \in Requests,
           PatchWrite(r) \/ DeleteWrite(r) \/ HeartbeatWrite(r)
    PROVE  /\ Advance
           /\ \/ listings' = listings
              \/ /\ Exists(req[r].id) /\ listings[req[r].id].submitted_by = req[r].signer
                 /\ \A i \in Ids : i # req[r].id => listings'[i] = listings[i]
                 /\ req'[r].pc = "done"
<1> USE DEF Codes
<1> DEFINE id == req[r].id
<1>1. TableStep(listings, listings)
    BY InvFacts
<1>2. /\ req[r] \in RequestState /\ PendingOK(listings, req[r])
      /\ req \in [Requests -> RequestState] /\ req[r].now \in Time
    BY InvFacts DEF RequestsOK, RequestState
<1>3. req[r].op \in {"patch", "delete", "heartbeat"} /\ id \in Ids
    BY <1>2 DEF PatchWrite, DeleteWrite, HeartbeatWrite, At, PendingOK
<1>4. ASSUME Exists(id)
      PROVE  listings[id] \in OwnedRows /\ listings[id].claimed /\ listings[id].submitted_by = req[r].signer
  <2>1. listings[id].submitted_by = req[r].signer /\ req[r].signer \in Wallets
      BY <1>2, <1>3, <1>4 DEF PendingOK, Exists
  <2>2. listings[id] \in OwnedRows
      BY <1>3, <1>4, InvFacts DEF Exists
  <2> QED
      BY <2>1, <2>2, StoreAssumption DEF OwnedRows
<1>5. ASSUME NEW code \in Codes, Respond(r, code)
      PROVE  req'[r].pc = "done"
    BY <1>2, <1>5 DEF Respond, IdleRequest
<1>6. CASE PatchWrite(r) \/ DeleteWrite(r)
  <2> DEFINE row == UpdatedRow(listings[id], req[r].args, req[r].now)
             T == [listings EXCEPT ![id] = row]
  <2>1. [listings EXCEPT ![id] = UpdatedRow(@, req[r].args, req[r].now)] = T
      BY <1>3, InvFacts
  <2>2. \/ Exists(id) /\ listings' = T /\ Respond(r, 200)
        \/ listings' = listings /\ (Respond(r, 500) \/ Goto(r, "clash"))
      BY <1>6, <2>1 DEF PatchWrite, DeleteWrite
  <2>3. req[r].args \in Patches \cup {DeactivatePatch}
      BY <1>2, <1>6 DEF PatchWrite, DeleteWrite, At, PendingOK
  <2>4. ASSUME Exists(id)
        PROVE  TableStep(listings, T)
    <3>1. OwnerStep(listings[id], row)
        BY <1>2, <1>4, <2>3, <2>4, OwnerWrites
    <3>2. row \in OwnedRows
        BY <3>1 DEF OwnerStep
    <3> QED
        BY <1>3, <3>1, <3>2, InvFacts, SetRowByOwner
  <2>5. TableStep(listings, listings')
      BY <1>1, <2>2, <2>4
  <2>6. doNotImport' = doNotImport /\ UNCHANGED <<clock, lastPurge>>
      BY <1>6 DEF PatchWrite, DeleteWrite
  <2>7. Advance
      BY <2>2, <2>5, <2>6, StatementAdvances, InvFacts
  <2>8. \A i \in Ids : i # id => T[i] = listings[i]
      BY <1>3, InvFacts
  <2> HIDE DEF T
  <2> QED
      BY <1>4, <1>5, <2>2, <2>7, <2>8
<1>7. CASE HeartbeatWrite(r)
  <2> DEFINE row == [listings[id] EXCEPT !.last_seen_at = req[r].now]
             T == [listings EXCEPT ![id] = row]
  <2>1. [listings EXCEPT ![id] = [@ EXCEPT !.last_seen_at = req[r].now]] = T
      BY <1>3, InvFacts
  <2>2. \/ Exists(id) /\ listings' = T /\ Respond(r, 200)
        \/ listings' = listings /\ Respond(r, 429)
      BY <1>7, <2>1 DEF HeartbeatWrite
  <2>3. ASSUME Exists(id)
        PROVE  TableStep(listings, T)
    <3>1. OwnerStep(listings[id], row)
        BY <1>2, <1>4, <2>3, OwnerWrites
    <3>2. row \in OwnedRows
        BY <3>1 DEF OwnerStep
    <3> QED
        BY <1>3, <3>1, <3>2, InvFacts, SetRowByOwner
  <2>4. TableStep(listings, listings')
      BY <1>1, <2>2, <2>3
  <2>5. doNotImport' = doNotImport /\ UNCHANGED <<clock, lastPurge>>
      BY <1>7 DEF HeartbeatWrite
  <2>6. Advance
      BY <2>2, <2>4, <2>5, StatementAdvances, InvFacts
  <2>7. \A i \in Ids : i # id => T[i] = listings[i]
      BY <1>3, InvFacts
  <2> HIDE DEF T
  <2> QED
      BY <1>4, <1>5, <2>2, <2>6, <2>7
<1> QED
    BY <1>6, <1>7

-----------------------------------------------------------------------------
(* The actions of an import. *)

LEMMA SyncSet ==
    ASSUME ImportTypeOK, NEW p \in Syncs, NEW q \in SyncState, sync' = [sync EXCEPT ![p] = q],
           importRunning' \in BOOLEAN
    PROVE  ImportTypeOK'
    BY DEF ImportTypeOK

LEMMA IdleSyncOK == IdleSync \in SyncState
<1>1. 0 \in Time
    BY StoreAssumption
<1> QED
    BY <1>1 DEF IdleSync, SyncState

LEMMA EndKeepsType ==
    ASSUME ImportTypeOK, NEW p \in Syncs, End(p)
    PROVE  ImportTypeOK'
    BY IdleSyncOK, SyncSet DEF End, ImportTypeOK

LEMMA BatchRows ==
    ASSUME NEW batch \in Batches
    PROVE  /\ ValidRows(batch) \subseteq PlannedRows
           /\ \A allow \in BOOLEAN : SourcesInSync(batch, allow) \subseteq Sources
           /\ batch.dry_run \in BOOLEAN /\ batch.mark_missing \in BOOLEAN
<1>1. batch \in BatchType
    BY ImportAssumption
<1>2. ASSUME NEW rec \in batch.recs, ResolvedSource(batch, rec) # NoSource
      PROVE  ResolvedSource(batch, rec) \in Sources /\ rec \in RecordType
    BY <1>1, <1>2 DEF BatchType, ResolvedSource, RecordType
<1>3. ValidRows(batch) \subseteq PlannedRows
    BY <1>2 DEF ValidRows, PlannedRows
<1>4. ASSUME NEW allow \in BOOLEAN
      PROVE  SourcesInSync(batch, allow) \subseteq Sources
    BY <1>1, <1>3 DEF SourcesInSync, PlannedRows, BatchType
<1> QED
    BY <1>1, <1>3, <1>4 DEF BatchType

LEMMA ReadBatchKeepsType ==
    ASSUME ImportTypeOK, clock \in Time, NEW p \in Syncs, NEW batch \in Batches, ReadBatch(p, batch)
    PROVE  ImportTypeOK'
<1> DEFINE sources == SourcesInSync(batch, p \in Scripts)
           q1 == [IdleSync EXCEPT !.pc = "plan"]
           q2 == [q1 EXCEPT !.dry_run = batch.dry_run]
           q3 == [q2 EXCEPT !.mark_missing = batch.mark_missing]
           q4 == [q3 EXCEPT !.rows = ValidRows(batch)]
           q5 == [q4 EXCEPT !.sources = sources]
           q6 == [q5 EXCEPT !.toPlan = sources]
           q7 == [q6 EXCEPT !.now = clock]
<1>1. /\ ValidRows(batch) \subseteq PlannedRows /\ sources \subseteq Sources
      /\ batch.dry_run \in BOOLEAN /\ batch.mark_missing \in BOOLEAN
  <2>1. (p \in Scripts) \in BOOLEAN
      OBVIOUS
  <2> QED
      BY <2>1, BatchRows, Zenon
<1>2. sync' = [sync EXCEPT ![p] = q7] /\ importRunning' = importRunning
    BY DEF ReadBatch
<1> HIDE DEF sources
<1>3. q1 \in SyncState
    BY IdleSyncOK DEF SyncState
<1> HIDE DEF q1
<1>4. q2 \in SyncState
    BY <1>1, <1>3 DEF SyncState
<1> HIDE DEF q2
<1>5. q3 \in SyncState
    BY <1>1, <1>4 DEF SyncState
<1> HIDE DEF q3
<1>6. q4 \in SyncState
    BY <1>1, <1>5 DEF SyncState
<1> HIDE DEF q4
<1>7. q5 \in SyncState
    BY <1>1, <1>6 DEF SyncState
<1> HIDE DEF q5
<1>8. q6 \in SyncState
    BY <1>1, <1>7 DEF SyncState
<1> HIDE DEF q6
<1>9. q7 \in SyncState
    BY <1>8 DEF SyncState
<1> QED
    BY <1>2, <1>9, SyncSet DEF ImportTypeOK

LEMMA SyncColumn ==
    ASSUME NEW S \in [Syncs -> SyncState], NEW p \in Syncs
    PROVE  /\ \A v \in SUBSET Sources : /\ [S EXCEPT ![p].toPlan = v] \in [Syncs -> SyncState]
                                       /\ [S EXCEPT ![p].toMark = v] \in [Syncs -> SyncState]
           /\ \A v \in SUBSET PlannedRows : [S EXCEPT ![p].toWrite = v] \in [Syncs -> SyncState]
           /\ \A v \in SUBSET (Sources \X Keys) : [S EXCEPT ![p].blocked = v] \in [Syncs -> SyncState]
           /\ [S EXCEPT ![p].pc = "apply"] \in [Syncs -> SyncState]
    BY DEF SyncState

LEMMA PlanKeepsType ==
    ASSUME ImportTypeOK, NEW p \in Syncs, NEW src \in Sources, PlanSource(p, src)
    PROVE  /\ ImportTypeOK'
           /\ sync'[p].pc = sync[p].pc /\ \A q \in Syncs : q # p => sync'[q] = sync[q]
<1> DEFINE mine == {row \in sync[p].rows : row.source = src}
           dni == {<<src, KeyOf(row)>> : row \in mine} \cap doNotImport
           free == {row \in mine : <<src, KeyOf(row)>> \notin dni}
<1>1. sync \in [Syncs -> SyncState]
    BY DEF ImportTypeOK
<1>2. mine \subseteq PlannedRows
    BY <1>1 DEF SyncState
<1>3. \A row \in PlannedRows : KeyOf(row) \in Keys
    BY StoreAssumption DEF PlannedRows, RecordType, KeyOf
<1>4. free \subseteq PlannedRows /\ dni \subseteq Sources \X Keys
    BY <1>2, <1>3
<1>5. PICK latest \in SUBSET free :
        sync' = [sync EXCEPT ![p].toPlan = @ \ {src}, ![p].toWrite = @ \cup latest,
                             ![p].blocked = @ \cup dni]
    BY DEF PlanSource
<1> HIDE DEF mine, dni, free
<1> DEFINE S1 == [sync EXCEPT ![p].toPlan = @ \ {src}]
           S2 == [S1 EXCEPT ![p].toWrite = @ \cup latest]
           S3 == [S2 EXCEPT ![p].blocked = @ \cup dni]
<1>6. sync' = S3
    BY <1>5
<1>7. S1 \in [Syncs -> SyncState]
  <2>1. sync[p].toPlan \ {src} \in SUBSET Sources
      BY <1>1 DEF SyncState
  <2> QED
      BY <1>1, <2>1, SyncColumn
<1> HIDE DEF S1
<1>8. S2 \in [Syncs -> SyncState]
  <2>1. S1[p].toWrite \cup latest \in SUBSET PlannedRows
      BY <1>4, <1>7 DEF SyncState
  <2> QED
      BY <1>7, <2>1, SyncColumn
<1> HIDE DEF S2
<1>9. S3 \in [Syncs -> SyncState]
  <2>1. S2[p].blocked \cup dni \in SUBSET (Sources \X Keys)
      BY <1>4, <1>8 DEF SyncState
  <2> QED
      BY <1>8, <2>1, SyncColumn
<1>10. S3[p].pc = S2[p].pc /\ \A q \in Syncs : q # p => S3[q] = S2[q]
    BY <1>8 DEF SyncState
<1> HIDE DEF S3
<1>11. S2[p].pc = S1[p].pc /\ \A q \in Syncs : q # p => S2[q] = S1[q]
    BY <1>7 DEF S2, SyncState
<1>12. S1[p].pc = sync[p].pc /\ \A q \in Syncs : q # p => S1[q] = sync[q]
    BY <1>1 DEF S1, SyncState
<1> QED
    BY <1>6, <1>9, <1>10, <1>11, <1>12 DEF PlanSource, ImportTypeOK

LEMMA FinishPlanKeepsType ==
    ASSUME ImportTypeOK, NEW p \in Syncs, FinishPlan(p)
    PROVE  ImportTypeOK'
<1> DEFINE marks == IF sync[p].mark_missing THEN sync[p].sources ELSE {}
           S1 == [sync EXCEPT ![p].pc = "apply"]
           S2 == [S1 EXCEPT ![p].toMark = marks]
<1>1. CASE End(p)
    BY <1>1, EndKeepsType
<1>2. CASE sync' = S2 /\ importRunning' = importRunning
  <2>1. marks \in SUBSET Sources
      BY DEF ImportTypeOK, SyncState
  <2>2. S1 \in [Syncs -> SyncState]
      BY SyncColumn DEF ImportTypeOK
  <2> HIDE DEF S1, marks
  <2>3. S2 \in [Syncs -> SyncState]
      BY <2>1, <2>2, SyncColumn
  <2> QED
      BY <1>2, <2>3 DEF ImportTypeOK
<1> QED
    BY <1>1, <1>2 DEF FinishPlan

(* INSERT ... ON CONFLICT leaves the table with one new unclaimed row, or  *)
(* with the rows that held the slot refreshed.                             *)
LEMMA UpsertIsQuiet ==
    ASSUME OwnershipInv, NEW row \in PlannedRows, NEW now \in Time,
           HasNewId \/ SourceConflict(row.source, row.rec) # {}
    PROVE  QuietTable(listings, UpsertedTable(row, now))
<1> DEFINE held == SourceConflict(row.source, row.rec)
<1>1. row.rec \in RecordType /\ row.source \in Sources
    BY DEF PlannedRows
<1>2. CASE held = {}
  <2> DEFINE new == ImportedRow(row.rec, row.source, now)
  <2>1. NewId \in Ids /\ listings[NewId] = Fresh
      BY <1>2, NewIdIsFresh
  <2>2. QuietStep(Fresh, new) /\ new \in OwnedRows
      BY <1>1, QuietWrites
  <2> HIDE DEF new
  <2>3. QuietTable(listings, [listings EXCEPT ![NewId] = new])
      BY <2>1, <2>2, InvFacts, SetRowQuiet
  <2> QED
      BY <1>2, <2>3 DEF new, UpsertedTable
<1>3. CASE held # {}
  <2>1. held \subseteq RowsOf(listings)
      BY DEF SourceConflict
  <2>2. ASSUME NEW i \in held
        PROVE  /\ RefreshedRow(listings[i], row.rec) \in OwnedRows
               /\ QuietStep(listings[i], RefreshedRow(listings[i], row.rec))
    <3>1. listings[i] \in OwnedRows
        BY <2>1, <2>2, InvFacts DEF RowsOf
    <3> QED
        BY <1>1, <3>1, QuietWrites
  <2> HIDE DEF held
  <2>3. ASSUME NEW i \in Ids
        PROVE  LET b == IF i \in held THEN RefreshedRow(listings[i], row.rec) ELSE listings[i]
               IN  QuietStep(listings[i], b) /\ b \in OwnedRows \cup {Fresh, Gone}
      BY <2>2, InvFacts DEF QuietStep
  <2>4. QuietTable(listings, [i \in Ids |-> IF i \in held THEN RefreshedRow(listings[i], row.rec)
                                                          ELSE listings[i]])
      BY <2>3 DEF QuietTable
  <2> QED
      BY <1>3, <2>4 DEF held, UpsertedTable
<1> QED
    BY <1>2, <1>3

LEMMA UpsertAdvances ==
    ASSUME OwnershipInv, NEW p \in Syncs, NEW row \in sync[p].toWrite, Upsert(p, row)
    PROVE  QuietTable(listings, listings') /\ ImportTypeOK' /\ UNCHANGED <<doNotImport, clock>>
<1>1. ImportTypeOK /\ sync[p] \in SyncState
    BY DEF OwnershipInv, TypeOK, ImportTypeOK
<1>2. row \in PlannedRows /\ sync[p].now \in Time /\ sync[p].toWrite \ {row} \in SUBSET PlannedRows
    BY <1>1 DEF SyncState
<1>3. \/ /\ listings' = UpsertedTable(row, sync[p].now)
         /\ sync' = [sync EXCEPT ![p].toWrite = @ \ {row}] /\ importRunning' = importRunning
      \/ End(p) /\ listings' = listings
    BY DEF Upsert
<1>4. QuietTable(listings, UpsertedTable(row, sync[p].now))
    BY <1>2, UpsertIsQuiet DEF Upsert
<1>5. QuietTable(listings, listings')
    BY <1>3, <1>4, InvFacts, TablesUnchanged
<1>6. [sync EXCEPT ![p].toWrite = @ \ {row}] \in [Syncs -> SyncState]
    BY <1>1, <1>2, SyncColumn DEF ImportTypeOK
<1>7. ImportTypeOK'
    BY <1>1, <1>3, <1>6, EndKeepsType DEF ImportTypeOK
<1> QED
    BY <1>5, <1>7 DEF Upsert

LEMMA MarkMissingAdvances ==
    ASSUME OwnershipInv, NEW p \in Syncs, NEW src \in Sources, MarkMissing(p, src)
    PROVE  QuietTable(listings, listings') /\ ImportTypeOK' /\ UNCHANGED <<doNotImport, clock>>
<1> DEFINE gone == MissingFrom(src, SeenKeys(p, src))
<1>1. ImportTypeOK /\ sync[p] \in SyncState
    BY DEF OwnershipInv, TypeOK, ImportTypeOK
<1>2. ASSUME NEW i \in gone
      PROVE  /\ [listings[i] EXCEPT !.missing = TRUE] \in OwnedRows
             /\ QuietStep(listings[i], [listings[i] EXCEPT !.missing = TRUE])
  <2>1. listings[i] \in OwnedRows
      BY <1>2, InvFacts DEF MissingFrom, RowsOf
  <2>2. 0 \in Time
      BY StoreAssumption
  <2> QED
      BY <2>1, <2>2, QuietWrites
<1>3. listings' = [i \in Ids |-> IF i \in gone THEN [listings[i] EXCEPT !.missing = TRUE] ELSE listings[i]]
    BY DEF MarkMissing
<1> HIDE DEF gone
<1>4. ASSUME NEW i \in Ids
      PROVE  QuietStep(listings[i], listings'[i]) /\ listings'[i] \in OwnedRows \cup {Fresh, Gone}
    BY <1>2, <1>3, InvFacts DEF QuietStep
<1>5. QuietTable(listings, listings')
    BY <1>3, <1>4 DEF QuietTable
<1>6. sync[p].toMark \ {src} \in SUBSET Sources
    BY <1>1 DEF SyncState
<1>7. [sync EXCEPT ![p].toMark = @ \ {src}] \in [Syncs -> SyncState]
    BY <1>1, <1>6, SyncColumn DEF ImportTypeOK
<1> QED
    BY <1>1, <1>5, <1>7 DEF MarkMissing, ImportTypeOK

LEMMA ImportAdvances ==
    ASSUME OwnershipInv, ImportNext
    PROVE  /\ QuietTable(listings, listings') /\ ImportTypeOK'
           /\ doNotImport' \subseteq Sources \X Keys /\ clock' \in Time
<1>1. ImportTypeOK /\ QuietTable(listings, listings) /\ clock \in Time
    BY InvFacts, TablesUnchanged DEF OwnershipInv, TypeOK
<1> SUFFICES ASSUME NEW p \in Syncs, SyncArrival(p) \/ SyncStep(p)
             PROVE  QuietTable(listings, listings') /\ ImportTypeOK' /\ UNCHANGED <<doNotImport, clock>>
    BY InvFacts DEF ImportNext
<1>2. CASE AcquireLock(p)
  <2> DEFINE q == [IdleSync EXCEPT !.pc = "body"]
  <2>1. q \in SyncState
      BY IdleSyncOK DEF SyncState
  <2> HIDE DEF q
  <2>2. sync' = [sync EXCEPT ![p] = q] /\ importRunning' \in BOOLEAN
      BY <1>2 DEF AcquireLock, q
  <2>3. ImportTypeOK'
      BY <1>1, <2>1, <2>2, SyncSet
  <2> QED
      BY <1>1, <1>2, <2>3 DEF AcquireLock, storeVars
<1>3. CASE BadBatch(p) \/ FinishSync(p) \/ SyncFails(p)
    BY <1>1, <1>3, EndKeepsType DEF BadBatch, FinishSync, SyncFails, storeVars
<1>4. ASSUME NEW batch \in Batches, ReadBatch(p, batch)
      PROVE  QuietTable(listings, listings') /\ ImportTypeOK' /\ UNCHANGED <<doNotImport, clock>>
    BY <1>1, <1>4, ReadBatchKeepsType DEF ReadBatch, storeVars
<1>5. ASSUME NEW src \in Sources, PlanSource(p, src)
      PROVE  QuietTable(listings, listings') /\ ImportTypeOK' /\ UNCHANGED <<doNotImport, clock>>
    BY <1>1, <1>5, PlanKeepsType DEF PlanSource, storeVars
<1>6. CASE FinishPlan(p)
    BY <1>1, <1>6, FinishPlanKeepsType DEF FinishPlan, storeVars
<1> QED
    BY <1>2, <1>3, <1>4, <1>5, <1>6, UpsertAdvances, MarkMissingAdvances DEF SyncArrival, SyncStep

-----------------------------------------------------------------------------
(* The board. *)

LEMMA RestartAdvances ==
    ASSUME OwnershipInv, Restart
    PROVE  Advance /\ QuietTable(listings, listings') /\ ImportTypeOK'
<1>1. QuietTable(listings, listings')
    BY InvFacts, PurgeIsQuiet, TablesUnchanged DEF Restart, RoutesRestart, StartupMaintenance, storeVars
<1>2. /\ doNotImport' \subseteq Sources \X Keys /\ clock' \in Time
      /\ lastPurge' \in Time \cup {NoTime}
    BY InvFacts DEF Restart, RoutesRestart, StartupMaintenance, storeVars
<1>3. RequestsOK(listings', req')
    BY StoreAssumption, IdleRequestsOK DEF Restart, RoutesRestart, RequestsOK, Codes
<1>4. ImportTypeOK'
    BY IdleSyncOK DEF Restart, ImportRestart, ImportTypeOK, OwnershipInv, TypeOK
<1> QED
    BY <1>1, <1>2, <1>3, <1>4, QuietTableSteps DEF Advance

LEMMA AdvanceKeepsInv ==
    ASSUME Advance, ImportTypeOK'
    PROVE  OwnershipInv'
<1>1. listings' \in [Ids -> OwnedRows \cup {Fresh, Gone}]
    BY DEF Advance, TableStep
<1>2. listings' \in [Ids -> Row \cup {Fresh, Gone}]
    BY <1>1 DEF OwnedRows
<1> QED
    BY <1>1, <1>2
    DEF Advance, RequestsOK, OwnershipInv, TypeOK, StoreTypeOK, PurgeTypeOK, RoutesTypeOK

LEMMA QuietAdvances ==
    ASSUME OwnershipInv, QuietTable(listings, listings'), UNCHANGED <<lastPurge, req>>,
           doNotImport' \subseteq Sources \X Keys, clock' \in Time
    PROVE  Advance
    BY InvFacts, QuietTableSteps, RequestsKept DEF Advance

(* Every step but the three owner's writes is quiet, and every step keeps  *)
(* the invariant.                                                          *)
LEMMA StepAdvances ==
    ASSUME OwnershipInv, [Next]_vars
    PROVE  /\ OwnershipInv'
           /\ \/ QuietTable(listings, listings')
              \/ \E r \in Requests : PatchWrite(r) \/ DeleteWrite(r) \/ HeartbeatWrite(r)
<1>1. ImportTypeOK /\ QuietTable(listings, listings)
    BY InvFacts, TablesUnchanged DEF OwnershipInv, TypeOK
<1>2. CASE UNCHANGED vars
  <2>1. Advance /\ ImportTypeOK'
      BY <1>1, <1>2, InvFacts, QuietAdvances DEF vars, ImportTypeOK
  <2> QED
      BY <1>1, <1>2, <2>1, AdvanceKeepsInv DEF vars
<1>3. CASE RoutesNext /\ UNCHANGED importVars
  <2>1. ImportTypeOK'
      BY <1>1, <1>3 DEF ImportTypeOK, importVars
  <2>2. ASSUME NEW r \in Requests, Arrival(r)
        PROVE  Advance /\ QuietTable(listings, listings')
      BY <2>2, ArrivalAdvances
  <2>3. ASSUME NEW r \in Requests, HandlerStep(r)
        PROVE  /\ Advance
               /\ \/ QuietTable(listings, listings')
                  \/ PatchWrite(r) \/ DeleteWrite(r) \/ HeartbeatWrite(r)
      BY <2>3, PurgingCreateAdvances, QuietHandlerAdvances, OwnerHandlerAdvances DEF HandlerStep
  <2>4. ASSUME NEW r \in Requests, Finish(r)
        PROVE  Advance /\ QuietTable(listings, listings')
    <3>1. req' = [req EXCEPT ![r] = IdleRequest] /\ UNCHANGED <<storeVars, lastPurge>>
        BY <2>4 DEF Finish
    <3>2. IdleRequest \in RequestState /\ PendingOK(listings, IdleRequest)
        BY IdleRequestsOK DEF Codes
    <3>3. RequestsOK(listings, req')
        BY <3>1, <3>2, InvFacts, RequestsSet
    <3> QED
        BY <1>1, <3>1, <3>3, InvFacts DEF Advance, storeVars
  <2>5. ASSUME Browse
        PROVE  Advance /\ QuietTable(listings, listings')
    <3>1. QuietTable(listings, listings') /\ TableStep(listings, listings')
        BY <2>5, MaybePurgeAdvances, QuietTableSteps DEF Browse
    <3>2. RequestsOK(listings', req)
        BY <3>1, InvFacts, RequestsKept
    <3> QED
        BY <2>5, <3>1, <3>2, MaybePurgeAdvances DEF Browse, Advance
  <2> QED
      BY <1>3, <2>1, <2>2, <2>3, <2>4, <2>5, AdvanceKeepsInv DEF RoutesNext
<1>4. CASE ImportNext /\ UNCHANGED <<lastPurge, req>>
    BY <1>4, ImportAdvances, QuietAdvances, AdvanceKeepsInv
<1>5. CASE Tick /\ UNCHANGED <<lastPurge, req, importVars>>
  <2>1. clock' \in Time /\ UNCHANGED <<listings, doNotImport>>
      BY <1>5, InvFacts, StoreAssumption DEF Tick
  <2>2. Advance /\ ImportTypeOK'
      BY <1>1, <1>5, <2>1, InvFacts, QuietAdvances DEF ImportTypeOK, importVars
  <2> QED
      BY <1>1, <2>1, <2>2, AdvanceKeepsInv
<1>6. CASE Restart
    BY <1>6, RestartAdvances, AdvanceKeepsInv
<1> QED
    BY <1>2, <1>3, <1>4, <1>5, <1>6 DEF Next

LEMMA InitEstablishesInv ==
    ASSUME Init
    PROVE  OwnershipInv
<1>1. 0 \in Time
    BY StoreAssumption
<1>2. \A r \in Requests : req[r] = IdleRequest
    BY DEF Init, RoutesInit
<1>3. IdleRequest \in RequestState /\ PendingOK(listings, IdleRequest)
    BY IdleRequestsOK DEF Codes
<1>4. req \in [Requests -> RequestState]
    BY <1>3 DEF Init, RoutesInit
<1> QED
    BY <1>1, <1>2, <1>3, <1>4, IdleSyncOK
    DEF Init, StoreInit, RoutesInit, ImportInit, OwnershipInv, TypeOK, StoreTypeOK, PurgeTypeOK,
        RoutesTypeOK, ImportTypeOK

(* The ownership invariant holds in every reachable state. *)
THEOREM OwnershipInvariant == Spec => []OwnershipInv
<1>1. Init => OwnershipInv
    BY InitEstablishesInv
<1>2. OwnershipInv /\ [Next]_vars => OwnershipInv'
    BY StepAdvances
<1> QED
    BY <1>1, <1>2, PTL DEF Spec

(* Tables, handlers and imports are always in the states declared for them. *)
THEOREM TypeCorrectness == Spec => []TypeOK
<1>1. OwnershipInv => TypeOK
    BY DEF OwnershipInv
<1> QED
    BY <1>1, OwnershipInvariant, PTL

(* No PATCH, DELETE or heartbeat ever lands on an unclaimed import. *)
THEOREM UnclaimedStaysUntouched == Spec => []UnclaimedUntouched
<1>1. OwnershipInv => UnclaimedUntouched
    BY DEF OwnershipInv, UnclaimedUntouched, OwnedRows, Exists
<1> QED
    BY <1>1, OwnershipInvariant, PTL

(* A claimed row changes only by a write its owner of that moment signed. *)
THEOREM OnlyTheOwnerWrites == Spec => ClaimedWritesAreAuthorized
<1>1. OwnershipInv /\ [Next]_vars => [ClaimedWritesAuthorized]_vars
  <2> SUFFICES ASSUME OwnershipInv, [Next]_vars
               PROVE  ClaimedWritesAuthorized
      OBVIOUS
  <2> SUFFICES ASSUME NEW i \in Ids, Exists(i), Exists(i)', listings[i].claimed,
                      OwnerView(listings[i])' # OwnerView(listings[i])
               PROVE  \E r \in Requests :
                        /\ req[r].pc = "write" /\ req'[r].pc = "done"
                        /\ req[r].op \in {"patch", "delete", "heartbeat"}
                        /\ req[r].id = i
                        /\ req[r].signer = listings[i].submitted_by
      BY DEF ClaimedWritesAuthorized
  <2>1. OwnerView(listings'[i]) # OwnerView(listings[i])
      BY DEF OwnerView
  <2>2. ~QuietTable(listings, listings')
      BY <2>1 DEF QuietTable, QuietStep, Exists
  <2>3. PICK r \in Requests : PatchWrite(r) \/ DeleteWrite(r) \/ HeartbeatWrite(r)
      BY <2>2, StepAdvances
  <2>4. req[r].pc = "write" /\ req[r].op \in {"patch", "delete", "heartbeat"}
      BY <2>3 DEF PatchWrite, DeleteWrite, HeartbeatWrite, At
  <2> QED
      BY <2>1, <2>3, <2>4, OwnerHandlerAdvances
<1> QED
    BY <1>1, OwnershipInvariant, PTL DEF Spec, ClaimedWritesAreAuthorized

-----------------------------------------------------------------------------
(* The import lock. *)

(* A step of one sync leaves the lock exact: it moves on without touching  *)
(* the lock, or ends and gives back what it held, or is a call that takes  *)
(* a free lock.                                                            *)
LEMMA SyncKeepsLock ==
    ASSUME ImportTypeOK, ImportLockExact, NEW p \in Syncs, NEW s \in SyncState,
           sync' = [sync EXCEPT ![p] = s],
           \/ sync[p].pc # "idle" /\ s.pc # "idle" /\ importRunning' = importRunning
           \/ p \notin EndpointCalls /\ importRunning' = importRunning
           \/ s.pc = "idle" /\ sync[p].pc # "idle" /\ importRunning' = (importRunning /\ p \notin EndpointCalls)
           \/ p \in EndpointCalls /\ s.pc # "idle" /\ ~importRunning /\ importRunning' = TRUE
    PROVE  ImportLockExact'
<1>1. /\ sync'[p] = s /\ \A q \in Syncs : q # p => sync'[q] = sync[q]
      /\ EndpointCalls \subseteq Syncs
    BY DEF ImportTypeOK, Syncs
<1>2. importRunning \in BOOLEAN
    BY DEF ImportTypeOK
<1>3. importRunning <=> \E q \in EndpointCalls : sync[q].pc # "idle"
    BY DEF ImportLockExact
<1>4. ASSUME NEW q \in EndpointCalls, NEW r \in EndpointCalls,
             sync[q].pc # "idle", sync[r].pc # "idle"
      PROVE  q = r
    BY <1>4 DEF ImportLockExact
<1>5. importRunning' <=> \E q \in EndpointCalls : sync'[q].pc # "idle"
  <2>1. CASE p \notin EndpointCalls
      BY <1>1, <1>2, <1>3, <2>1
  <2>2. CASE p \in EndpointCalls /\ s.pc # "idle"
    <3>1. importRunning' = TRUE
        BY <1>2, <1>3, <2>2
    <3> QED
        BY <1>1, <2>2, <3>1
  <2>3. CASE p \in EndpointCalls /\ s.pc = "idle"
    <3>1. importRunning' = FALSE /\ sync[p].pc # "idle"
        BY <1>2, <2>3
    <3> QED
        BY <1>1, <1>4, <2>3, <3>1
  <2> QED
      BY <2>1, <2>2, <2>3
<1>6. ASSUME NEW q \in EndpointCalls, NEW r \in EndpointCalls,
             sync'[q].pc # "idle", sync'[r].pc # "idle", q # r
      PROVE  FALSE
  <2>1. p \in EndpointCalls /\ s.pc # "idle" /\ \E x \in EndpointCalls : x # p /\ sync[x].pc # "idle"
      BY <1>1, <1>4, <1>6
  <2>2. sync[p].pc # "idle"
      BY <1>2, <1>3, <2>1
  <2> QED
      BY <1>4, <2>1, <2>2
<1> QED
    BY <1>5, <1>6 DEF ImportLockExact

(* Every step of the imports is one of those three.                        *)
LEMMA ImportNextKeepsLock ==
    ASSUME OwnershipInv, ImportLockExact, ImportNext
    PROVE  ImportLockExact'
<1>1. ImportTypeOK /\ ImportTypeOK'
    BY ImportAdvances DEF OwnershipInv, TypeOK
<1> SUFFICES ASSUME NEW p \in Syncs, SyncArrival(p) \/ SyncStep(p)
             PROVE  ImportLockExact'
    BY DEF ImportNext
<1>2. sync'[p] \in SyncState /\ IdleSync \in SyncState /\ IdleSync.pc = "idle"
    BY <1>1, IdleSyncOK DEF ImportTypeOK, IdleSync
<1>3. ASSUME End(p), sync[p].pc # "idle"
      PROVE  ImportLockExact'
    BY <1>1, <1>2, <1>3, SyncKeepsLock DEF End
<1>4. ASSUME NEW s, sync' = [sync EXCEPT ![p] = s], importRunning' = importRunning,
             s.pc # "idle", p \in EndpointCalls => sync[p].pc # "idle"
      PROVE  ImportLockExact'
  <2>1. sync'[p] = s
      BY <1>1, <1>4 DEF ImportTypeOK
  <2> QED
      BY <1>1, <1>2, <1>4, <2>1, SyncKeepsLock
<1>5. CASE AcquireLock(p)
  <2>1. sync'[p] = [IdleSync EXCEPT !.pc = "body"] /\ [IdleSync EXCEPT !.pc = "body"].pc = "body"
      BY <1>1, <1>5 DEF AcquireLock, ImportTypeOK, IdleSync
  <2> QED
      BY <1>1, <1>2, <1>5, <2>1, SyncKeepsLock DEF AcquireLock
<1>6. CASE BadBatch(p) \/ FinishSync(p) \/ SyncFails(p)
    BY <1>3, <1>6 DEF BadBatch, FinishSync, SyncFails
<1>7. ASSUME NEW batch \in Batches, ReadBatch(p, batch)
      PROVE  ImportLockExact'
  <2> DEFINE sources == SourcesInSync(batch, p \in Scripts)
             s == [IdleSync EXCEPT !.pc = "plan", !.dry_run = batch.dry_run,
                                   !.mark_missing = batch.mark_missing,
                                   !.rows = ValidRows(batch), !.sources = sources,
                                   !.toPlan = sources, !.now = clock]
  <2>1. s.pc = "plan"
      BY DEF IdleSync
  <2>2. sync' = [sync EXCEPT ![p] = s] /\ importRunning' = importRunning
      BY <1>7 DEF ReadBatch
  <2>3. p \in EndpointCalls => sync[p].pc = "body"
      BY <1>7 DEF ReadBatch
  <2> HIDE DEF s
  <2> QED
      BY <1>4, <2>1, <2>2, <2>3
<1>8. ASSUME NEW src \in Sources, PlanSource(p, src) \/ MarkMissing(p, src)
      PROVE  ImportLockExact'
  <2>1. /\ sync[p].pc \in {"plan", "apply"} /\ sync'[p].pc = sync[p].pc
        /\ importRunning' = importRunning
        /\ sync' = [sync EXCEPT ![p] = sync'[p]]
    <3>1. sync \in [Syncs -> SyncState] /\ sync' \in [Syncs -> SyncState]
        BY <1>1 DEF ImportTypeOK
    <3>2. CASE PlanSource(p, src)
      <4>1. sync'[p].pc = sync[p].pc /\ \A q \in Syncs : q # p => sync'[q] = sync[q]
          BY <1>1, <3>2, PlanKeepsType
      <4>2. sync[p].pc = "plan" /\ importRunning' = importRunning
          BY <3>2 DEF PlanSource
      <4> QED
          BY <3>1, <4>1, <4>2
    <3>3. CASE MarkMissing(p, src)
        BY <3>1, <3>3 DEF MarkMissing, SyncState
    <3> QED
        BY <1>8, <3>2, <3>3
  <2> QED
      BY <1>4, <2>1
<1>9. CASE FinishPlan(p)
  <2>1. CASE End(p)
      BY <1>3, <1>9, <2>1 DEF FinishPlan
  <2>2. CASE ~End(p)
    <3>1. /\ sync[p].pc = "plan" /\ sync'[p].pc = "apply" /\ importRunning' = importRunning
          /\ sync' = [sync EXCEPT ![p] = sync'[p]]
        BY <1>1, <1>9, <2>2 DEF FinishPlan, ImportTypeOK, SyncState
    <3> QED
        BY <1>4, <3>1
  <2> QED
      BY <2>1, <2>2
<1>10. ASSUME NEW row \in sync[p].toWrite, Upsert(p, row)
       PROVE  ImportLockExact'
  <2>1. CASE End(p)
      BY <1>3, <1>10, <2>1 DEF Upsert
  <2>2. CASE ~End(p)
    <3>1. /\ sync[p].pc = "apply" /\ sync'[p].pc = "apply" /\ importRunning' = importRunning
          /\ sync' = [sync EXCEPT ![p] = sync'[p]]
        BY <1>1, <1>10, <2>2 DEF Upsert, ImportTypeOK, SyncState
    <3> QED
        BY <1>4, <3>1
  <2> QED
      BY <2>1, <2>2
<1> QED
    BY <1>5, <1>6, <1>7, <1>8, <1>9, <1>10 DEF SyncArrival, SyncStep

(* The endpoint's lock is held exactly while one of its imports runs, and  *)
(* two never run at a time, through failures and restarts, beside any      *)
(* number of scripts that do not take it.                                  *)
THEOREM LockIsExact == Spec => []ImportLockExact
<1>1. Init => ImportLockExact
    BY DEF Init, ImportInit, ImportLockExact, IdleSync, Syncs
<1>2. OwnershipInv /\ ImportLockExact /\ [Next]_vars => ImportLockExact'
  <2> SUFFICES ASSUME OwnershipInv, ImportLockExact, [Next]_vars
               PROVE  ImportLockExact'
      OBVIOUS
  <2>1. CASE ImportNext
      BY <2>1, ImportNextKeepsLock
  <2>2. CASE UNCHANGED importVars
      BY <2>2 DEF ImportLockExact, importVars
  <2>3. CASE Restart
      BY <2>3 DEF Restart, ImportRestart, ImportLockExact, Syncs, IdleSync
  <2> QED
      BY <2>1, <2>2, <2>3 DEF Next, vars, importVars
<1> QED
    BY <1>1, <1>2, OwnershipInvariant, PTL DEF Spec

-----------------------------------------------------------------------------
(* The statements that may change the listings in one step, with what the  *)
(* handlers' checks let one know of the rows they touch.                   *)

SetsRow(id, row) == listings' = [listings EXCEPT ![id] = row]
Owned(id) == id \in Ids /\ listings[id] \in OwnedRows
OwnedAndClaimed(id) == Owned(id) /\ listings[id].claimed

Purges == \E D \in PurgeSets : listings' = Purged(D)
Inserts ==
    /\ HasNewId /\ Commits(listings')
    /\ \E p \in Payloads, now \in Time :
         p.submitted_by \in Wallets /\ SetsRow(NewId, CreatedRow(p, now))
Updates(r) ==
    /\ OwnedAndClaimed(req[r].id) /\ req[r].now \in Time
    /\ SetsRow(req[r].id, UpdatedRow(listings[req[r].id], req[r].args, req[r].now))
    /\ \/ req[r].op = "patch" /\ req[r].args \in Patches /\ Commits(listings')
       \/ req[r].op = "delete" /\ req[r].args = DeactivatePatch
Claims ==
    \E id \in Ids, w \in Wallets, now \in Time :
        /\ Owned(id) /\ ~listings[id].claimed /\ Commits(listings')
        /\ SetsRow(id, ClaimedRow(listings[id], w, now))
Removes ==
    \E id \in Ids :
        /\ Owned(id) /\ listings[id].source # NoSource /\ SetsRow(id, Gone)
        /\ <<listings[id].source, Normalize[listings[id].endpoint_url]>> \in doNotImport'
Beats ==
    \E id \in Ids, now \in Time :
        /\ OwnedAndClaimed(id) /\ HeartbeatAllowed(listings[id], now)
        /\ SetsRow(id, [listings[id] EXCEPT !.last_seen_at = now])
Upserts ==
    \E p \in Syncs, row \in PlannedRows, now \in Time :
        /\ row \in sync[p].toWrite /\ Upsert(p, row)
        /\ HasNewId \/ SourceConflict(row.source, row.rec) # {}
        /\ listings' = UpsertedTable(row, now) /\ Commits(listings')
Marks ==
    \E p \in Syncs, src \in Sources, gone \in SUBSET RowsOf(listings) :
        /\ MarkMissing(p, src)
        /\ listings' = [i \in Ids |-> IF i \in gone THEN [listings[i] EXCEPT !.missing = TRUE] ELSE listings[i]]

Statement ==
    \/ listings' = listings \/ Purges \/ Inserts \/ Claims \/ Removes \/ Beats \/ Upserts \/ Marks
    \/ \E r \in Requests : Updates(r)

(* A handler's statement changes its row only if it is there; PATCH,       *)
(* DELETE and heartbeat then find it claimed by the wallet that signed.    *)
LEMMA HandlersStatement ==
    ASSUME OwnershipInv, NEW r \in Requests, HandlerStep(r)
    PROVE  Statement
<1> DEFINE id == req[r].id
<1>1. /\ req[r] \in RequestState /\ PendingOK(listings, req[r]) /\ req[r].now \in Time
    BY InvFacts DEF RequestsOK, RequestState
<1>2. listings \in [Ids -> OwnedRows \cup {Fresh, Gone}]
    BY InvFacts
<1>3. CASE CreatePurge(r)
    BY <1>3 DEF CreatePurge, MaybePurge, PurgeOrFail, Purges, Statement, storeVars
<1>4. CASE FindDuplicate(r) \/ ReportClash(r)
    BY <1>4 DEF FindDuplicate, ReportClash, Statement, storeVars
<1>5. CASE CreateInsert(r)
  <2>1. req[r].args \in Payloads /\ req[r].args.submitted_by \in Wallets
      BY <1>1, <1>5 DEF CreateInsert, At, PendingOK
  <2> QED
      BY <1>1, <1>5, <2>1 DEF CreateInsert, Inserts, SetsRow, Statement
<1>6. ASSUME req[r].op \in {"patch", "delete", "heartbeat"}, Exists(id)
      PROVE  OwnedAndClaimed(id)
  <2>1. id \in Ids /\ listings[id].submitted_by \in Wallets
      BY <1>1, <1>6 DEF PendingOK, Exists
  <2>2. listings[id] \in OwnedRows
      BY <1>2, <1>6, <2>1 DEF Exists
  <2> QED
      BY <2>1, <2>2, StoreAssumption DEF OwnedAndClaimed, Owned, OwnedRows
<1>7. CASE PatchWrite(r) \/ DeleteWrite(r)
  <2>1. req[r].op \in {"patch", "delete"} /\ id \in Ids
      BY <1>1, <1>7 DEF PatchWrite, DeleteWrite, At, PendingOK
  <2>2. [listings EXCEPT ![id] = UpdatedRow(@, req[r].args, req[r].now)]
        = [listings EXCEPT ![id] = UpdatedRow(listings[id], req[r].args, req[r].now)]
      BY <1>2, <2>1
  <2>3. \/ listings' = listings
        \/ /\ Exists(id) /\ SetsRow(id, UpdatedRow(listings[id], req[r].args, req[r].now))
           /\ req[r].op = "patch" /\ Commits(listings')
        \/ /\ Exists(id) /\ SetsRow(id, UpdatedRow(listings[id], req[r].args, req[r].now))
           /\ req[r].op = "delete"
      BY <1>7, <2>2 DEF PatchWrite, DeleteWrite, SetsRow, At
  <2>4. /\ req[r].op = "patch" => req[r].args \in Patches
        /\ req[r].op = "delete" => req[r].args = DeactivatePatch
      BY <1>1 DEF PendingOK
  <2>5. listings' = listings \/ Updates(r)
      BY <1>1, <1>6, <2>1, <2>3, <2>4 DEF Updates
  <2> QED
      BY <2>5 DEF Statement
<1>8. CASE ClaimWrite(r)
  <2>1. id \in Ids /\ Snap(r).payment_wallet \in Wallets
      BY <1>1, <1>8 DEF ClaimWrite, At, PendingOK, Snap
  <2>2. [listings EXCEPT ![id] = ClaimedRow(@, Snap(r).payment_wallet, req[r].now)]
        = [listings EXCEPT ![id] = ClaimedRow(listings[id], Snap(r).payment_wallet, req[r].now)]
      BY <1>2, <2>1
  <2>3. \/ listings' = listings
        \/ /\ Exists(id) /\ ~listings[id].claimed /\ Commits(listings')
           /\ SetsRow(id, ClaimedRow(listings[id], Snap(r).payment_wallet, req[r].now))
      BY <1>8, <2>2 DEF ClaimWrite, SetsRow
  <2>4. Exists(id) => Owned(id)
      BY <1>2, <2>1 DEF Exists, Owned
  <2> QED
      BY <1>1, <2>1, <2>3, <2>4 DEF Claims, Statement
<1>9. CASE RemoveWrite(r)
  <2>1. id \in Ids
      BY <1>1, <1>9 DEF RemoveWrite, At, PendingOK
  <2>2. \/ listings' = listings
        \/ /\ Exists(id) /\ listings[id].source # NoSource /\ SetsRow(id, Gone)
           /\ <<listings[id].source, Normalize[listings[id].endpoint_url]>> \in doNotImport'
      BY <1>9 DEF RemoveWrite, SetsRow
  <2>3. Exists(id) => Owned(id)
      BY <1>2, <2>1 DEF Exists, Owned
  <2> QED
      BY <2>1, <2>2, <2>3 DEF Removes, Statement
<1>10. CASE HeartbeatWrite(r)
  <2>1. id \in Ids /\ req[r].op = "heartbeat"
      BY <1>1, <1>10 DEF HeartbeatWrite, At, PendingOK
  <2>2. [listings EXCEPT ![id] = [@ EXCEPT !.last_seen_at = req[r].now]]
        = [listings EXCEPT ![id] = [listings[id] EXCEPT !.last_seen_at = req[r].now]]
      BY <1>2, <2>1
  <2>3. \/ listings' = listings
        \/ /\ Exists(id) /\ HeartbeatAllowed(listings[id], req[r].now)
           /\ SetsRow(id, [listings[id] EXCEPT !.last_seen_at = req[r].now])
      BY <1>10, <2>2 DEF HeartbeatWrite, SetsRow
  <2> QED
      BY <1>1, <1>6, <2>1, <2>3 DEF Beats, Statement
<1> QED
    BY <1>3, <1>4, <1>5, <1>7, <1>8, <1>9, <1>10 DEF HandlerStep

LEMMA ImportsStatement ==
    ASSUME OwnershipInv, ImportNext
    PROVE  Statement
<1> SUFFICES ASSUME NEW p \in Syncs, SyncArrival(p) \/ SyncStep(p)
             PROVE  Statement
    BY DEF ImportNext
<1>1. sync[p] \in SyncState
    BY DEF OwnershipInv, TypeOK, ImportTypeOK
<1>2. ASSUME NEW row \in sync[p].toWrite, Upsert(p, row)
      PROVE  Statement
  <2>1. row \in PlannedRows /\ sync[p].now \in Time
      BY <1>1 DEF SyncState
  <2>2. \/ listings' = listings
        \/ /\ listings' = UpsertedTable(row, sync[p].now)
           /\ Commits(UpsertedTable(row, sync[p].now))
      BY <1>2 DEF Upsert
  <2> QED
      BY <1>2, <2>1, <2>2 DEF Upsert, Upserts, Statement
<1>3. ASSUME NEW src \in Sources, MarkMissing(p, src)
      PROVE  Statement
  <2>1. MissingFrom(src, SeenKeys(p, src)) \in SUBSET RowsOf(listings)
      BY DEF MissingFrom
  <2>2. Marks
      BY <1>3, <2>1 DEF MarkMissing, Marks
  <2> QED
      BY <2>2 DEF Statement
<1>4. AcquireLock(p) => listings' = listings
    BY DEF AcquireLock, storeVars
<1>5. ASSUME NEW batch \in Batches, ReadBatch(p, batch)
      PROVE  listings' = listings
    BY <1>5 DEF ReadBatch, storeVars
<1>6. ASSUME NEW src \in Sources, PlanSource(p, src)
      PROVE  listings' = listings
    BY <1>6 DEF PlanSource, storeVars
<1>7. BadBatch(p) \/ FinishPlan(p) \/ FinishSync(p) \/ SyncFails(p) => listings' = listings
    BY DEF BadBatch, FinishPlan, FinishSync, SyncFails, storeVars
<1>8. listings' = listings => Statement
    BY DEF Statement
<1> QED
    BY <1>2, <1>3, <1>4, <1>5, <1>6, <1>7, <1>8 DEF SyncArrival, SyncStep

LEMMA StepIsStatement ==
    ASSUME OwnershipInv, [Next]_vars
    PROVE  Statement
<1>1. UNCHANGED storeVars => Statement
    BY DEF Statement, storeVars
<1>2. ASSUME NEW r \in Requests, Arrival(r)
      PROVE  UNCHANGED storeVars
  <2>1. \A p : CreateRefused(r, p) \/ CreateStart(r, p) => UNCHANGED storeVars
      BY DEF CreateRefused, CreateStart
  <2>2. \A id, w, patch : PatchRefused(r, id, w, patch) \/ PatchRead(r, id, w, patch) => UNCHANGED storeVars
      BY DEF PatchRefused, PatchRead
  <2>3. \A id, w : DeleteRefused(r, id, w) \/ DeleteRead(r, id, w) \/ ClaimRefused(r, id, w)
                   \/ ClaimRead(r, id, w) => UNCHANGED storeVars
      BY DEF DeleteRefused, DeleteRead, ClaimRefused, ClaimRead
  <2>4. \A id, w : RemoveRefused(r, id, w) \/ RemoveRead(r, id, w) \/ HeartbeatRefused(r, id, w)
                   \/ HeartbeatRead(r, id, w) => UNCHANGED storeVars
      BY DEF RemoveRefused, RemoveRead, HeartbeatRefused, HeartbeatRead
  <2> QED
      BY <1>2, <2>1, <2>2, <2>3, <2>4, Zenon DEF Arrival
<1>3. Browse \/ Restart => Statement
    BY DEF Browse, MaybePurge, PurgeOrFail, Restart, RoutesRestart, StartupMaintenance, Purges,
           Statement, storeVars
<1>4. ASSUME NEW r \in Requests, Finish(r)
      PROVE  UNCHANGED storeVars
    BY <1>4 DEF Finish
<1>5. RoutesNext => Statement
    BY <1>1, <1>2, <1>3, <1>4, HandlersStatement DEF RoutesNext
<1>6. Tick \/ UNCHANGED vars => Statement
    BY DEF Tick, vars, Statement
<1> QED
    BY <1>3, <1>5, <1>6, ImportsStatement DEF Next

-----------------------------------------------------------------------------
(* The lifecycle: each statement is a step of ListingLifecycle. *)

Owners == [i \in Ids |-> OwnerOf(i)]

LEMMA OwnerOfRow ==
    ASSUME NEW i \in Ids
    PROVE  /\ listings[i] = Fresh => OwnerOf(i) = "unborn"
           /\ listings[i] = Gone => OwnerOf(i) = "removed"
           /\ listings[i] \in OwnedRows =>
                OwnerOf(i) = IF listings[i].claimed THEN listings[i].submitted_by ELSE "unclaimed"
           /\ listings'[i] = Gone => OwnerOf(i)' = "removed"
           /\ listings'[i] \in OwnedRows =>
                OwnerOf(i)' = IF listings'[i].claimed THEN listings'[i].submitted_by ELSE "unclaimed"
           /\ listings'[i] = listings[i] => OwnerOf(i)' = OwnerOf(i)
    BY OwnedRowIsRow, SentinelAssumption DEF OwnerOf

LEMMA OwnerOfOthers ==
    ASSUME OwnershipInv, NEW id \in Ids, NEW row, SetsRow(id, row)
    PROVE  /\ listings'[id] = row
           /\ \A i \in Ids \ {id} : OwnerOf(i)' = OwnerOf(i)
    BY InvFacts, OwnerOfRow DEF SetsRow

(* Setting a row whose owner stays, or a row's missing mark, is a stutter. *)
LEMMA OwnersStay ==
    ASSUME \A i \in Ids : OwnerOf(i)' = OwnerOf(i)
    PROVE  Owners' = Owners
    BY DEF Owners

LEMMA OwnerKept ==
    ASSUME NEW i \in Ids, listings[i] \in OwnedRows, listings'[i] \in OwnedRows,
           listings'[i].claimed = listings[i].claimed,
           listings'[i].submitted_by = listings[i].submitted_by
    PROVE  OwnerOf(i)' = OwnerOf(i)
    BY OwnerOfRow

(* One row is set: a new row is a publication or an import, an owned row   *)
(* with the same owner a stutter.                                          *)
LEMMA NewRowIsBirth ==
    ASSUME OwnershipInv, NEW id \in Ids, listings[id] = Fresh, NEW row \in OwnedRows, SetsRow(id, row)
    PROVE  IF row.claimed THEN Lifecycle!Publish(id, row.submitted_by) ELSE Lifecycle!Import(id)
<1>1. listings'[id] = row /\ \A i \in Ids \ {id} : OwnerOf(i)' = OwnerOf(i)
    BY OwnerOfOthers
<1>2. OwnerOf(id) = "unborn" /\ OwnerOf(id)' = IF row.claimed THEN row.submitted_by ELSE "unclaimed"
    BY <1>1, OwnerOfRow
<1>3. Owners' = [Owners EXCEPT ![id] = IF row.claimed THEN row.submitted_by ELSE "unclaimed"]
    BY <1>1, <1>2 DEF Owners
<1> QED
    BY <1>2, <1>3 DEF Lifecycle!Publish, Lifecycle!Import, Owners

LEMMA SameOwnerIsStutter ==
    ASSUME OwnershipInv, NEW id \in Ids, listings[id] \in OwnedRows, NEW row \in OwnedRows,
           row.claimed = listings[id].claimed, row.submitted_by = listings[id].submitted_by,
           SetsRow(id, row)
    PROVE  Owners' = Owners
<1>1. listings'[id] = row /\ \A i \in Ids \ {id} : OwnerOf(i)' = OwnerOf(i)
    BY OwnerOfOthers
<1>2. OwnerOf(id)' = OwnerOf(id)
    BY <1>1, OwnerKept
<1> QED
    BY <1>1, <1>2, OwnersStay

LEMMA RemovalIsRemove ==
    ASSUME OwnershipInv, NEW D \in SUBSET Ids,
           \A i \in D : listings[i] \in OwnedRows /\ listings'[i] = Gone,
           \A i \in Ids \ D : listings'[i] = listings[i]
    PROVE  Lifecycle!Remove(D)
<1>1. ASSUME NEW i \in D
      PROVE  Owners[i] \in Wallets \cup {"unclaimed"} /\ OwnerOf(i)' = "removed"
    BY OwnerOfRow DEF Owners, OwnedRows
<1>2. ASSUME NEW i \in Ids \ D
      PROVE  OwnerOf(i)' = Owners[i]
    BY OwnerOfRow DEF Owners
<1>3. Owners' = [i \in Ids |-> IF i \in D THEN "removed" ELSE Owners[i]]
    BY <1>1, <1>2 DEF Owners
<1> QED
    BY <1>1, <1>3 DEF Lifecycle!Remove, Owners

LEMMA StatementIsLifecycleStep ==
    ASSUME OwnershipInv, Statement
    PROVE  Lifecycle!Next \/ Owners' = Owners
<1>1. listings \in [Ids -> OwnedRows \cup {Fresh, Gone}]
    BY InvFacts
<1>2. CASE listings' = listings
    BY <1>2, OwnerOfRow, OwnersStay
<1>3. CASE Purges
  <2>1. PICK D \in PurgeSets : listings' = Purged(D)
      BY <1>3 DEF Purges
  <2>2. D \in SUBSET Ids /\ \A i \in D : listings[i] \in OwnedRows
      BY <1>1 DEF PurgeSets, Expired, RowsOf
  <2>3. Lifecycle!Remove(D)
      BY <2>1, <2>2, RemovalIsRemove DEF Purged
  <2> QED
      BY <2>2, <2>3 DEF Lifecycle!Next
<1>4. CASE Inserts
  <2>1. PICK p \in Payloads, now \in Time :
            p.submitted_by \in Wallets /\ SetsRow(NewId, CreatedRow(p, now))
      BY <1>4 DEF Inserts
  <2>2. PICK id \in Ids : id = NewId /\ listings[id] = Fresh
      BY <1>4, NewIdIsFresh DEF Inserts
  <2>3. CreatedRow(p, now) \in OwnedRows /\ CreatedRow(p, now).claimed
        /\ CreatedRow(p, now).submitted_by \in Wallets
      BY <2>1, QuietWrites, CreatedRowIsRow
  <2>4. Lifecycle!Publish(id, CreatedRow(p, now).submitted_by)
      BY <2>1, <2>2, <2>3, NewRowIsBirth
  <2> QED
      BY <2>3, <2>4 DEF Lifecycle!Next
<1>5. CASE Claims
  <2>1. PICK id \in Ids, w \in Wallets, now \in Time :
            Owned(id) /\ ~listings[id].claimed /\ SetsRow(id, ClaimedRow(listings[id], w, now))
      BY <1>5 DEF Claims
  <2>2. OwnerOf(id) = "unclaimed" /\ OwnerOf(id)' = w
      BY <2>1, OwnerOfOthers, OwnerOfRow, QuietWrites, OwnedRowIsRow, ClaimedRowIsRow DEF Owned
  <2>3. Owners' = [Owners EXCEPT ![id] = w]
      BY <2>1, <2>2, OwnerOfOthers DEF Owners
  <2>4. Lifecycle!Claim(id, w)
      BY <2>2, <2>3 DEF Lifecycle!Claim, Owners
  <2> QED
      BY <2>4 DEF Lifecycle!Next
<1>6. CASE Removes
  <2>1. PICK id \in Ids : Owned(id) /\ SetsRow(id, Gone)
      BY <1>6 DEF Removes
  <2>2. Lifecycle!Remove({id})
      BY <1>1, <2>1, RemovalIsRemove DEF Owned, SetsRow
  <2> QED
      BY <2>2 DEF Lifecycle!Next
<1>7. CASE Beats
  <2>1. PICK id \in Ids, now \in Time :
            OwnedAndClaimed(id) /\ SetsRow(id, [listings[id] EXCEPT !.last_seen_at = now])
      BY <1>7 DEF Beats
  <2>2. OwnerStep(listings[id], [listings[id] EXCEPT !.last_seen_at = now])
      BY <2>1, OwnerWrites DEF OwnedAndClaimed, Owned
  <2> QED
      BY <2>1, <2>2, SameOwnerIsStutter DEF OwnedAndClaimed, Owned, OwnerStep
<1>8. CASE Upserts
  <2>1. PICK row \in PlannedRows, now \in Time :
            /\ HasNewId \/ SourceConflict(row.source, row.rec) # {}
            /\ listings' = UpsertedTable(row, now)
      BY <1>8 DEF Upserts
  <2>2. row.rec \in RecordType /\ row.source \in Sources
      BY DEF PlannedRows
  <2>3. CASE SourceConflict(row.source, row.rec) = {}
    <3>1. PICK id \in Ids : id = NewId /\ listings[id] = Fresh
        BY <2>1, <2>3, NewIdIsFresh
    <3>2. SetsRow(id, ImportedRow(row.rec, row.source, now))
        BY <2>1, <2>3, <3>1 DEF UpsertedTable, SetsRow
    <3>3. ImportedRow(row.rec, row.source, now) \in OwnedRows /\ ~ImportedRow(row.rec, row.source, now).claimed
        BY <2>2, QuietWrites, ImportedRowIsRow
    <3>4. Lifecycle!Import(id)
        BY <3>1, <3>2, <3>3, NewRowIsBirth
    <3> QED
        BY <3>4 DEF Lifecycle!Next
  <2>4. CASE SourceConflict(row.source, row.rec) # {}
    <3>1. ASSUME NEW i \in SourceConflict(row.source, row.rec)
          PROVE  OwnerOf(i)' = OwnerOf(i)
      <4>1. i \in Ids /\ listings[i] \in OwnedRows
          BY <1>1 DEF SourceConflict, RowsOf
      <4>2. listings'[i] = RefreshedRow(listings[i], row.rec)
          BY <2>1, <2>4, <4>1 DEF UpsertedTable
      <4> QED
          BY <2>2, <4>1, <4>2, QuietWrites, OwnedRowIsRow, RefreshedRowKeepsOwner, OwnerKept
    <3>2. ASSUME NEW i \in Ids, i \notin SourceConflict(row.source, row.rec)
          PROVE  OwnerOf(i)' = OwnerOf(i)
      <4>1. listings'[i] = listings[i]
          BY <2>1, <2>4, <3>2 DEF UpsertedTable
      <4> QED
          BY <4>1, OwnerOfRow
    <3> QED
        BY <3>1, <3>2, OwnersStay
  <2> QED
      BY <2>3, <2>4
<1>9. CASE Marks
  <2>1. PICK gone \in SUBSET RowsOf(listings) :
            listings' = [i \in Ids |-> IF i \in gone THEN [listings[i] EXCEPT !.missing = TRUE] ELSE listings[i]]
      BY <1>9 DEF Marks
  <2>2. ASSUME NEW i \in Ids
        PROVE  OwnerOf(i)' = OwnerOf(i)
    <3>1. CASE i \in gone
      <4>1. listings[i] \in OwnedRows /\ listings'[i] = [listings[i] EXCEPT !.missing = TRUE]
          BY <1>1, <2>1, <3>1 DEF RowsOf
      <4>2. 0 \in Time
          BY StoreAssumption
      <4>3. listings'[i] \in OwnedRows
          BY <4>1, <4>2, QuietWrites
      <4>4. listings[i] \in Row
          BY <4>1, OwnedRowIsRow
      <4>5. /\ listings'[i].claimed = listings[i].claimed
            /\ listings'[i].submitted_by = listings[i].submitted_by
          BY <4>1, <4>4 DEF Row
      <4> QED
          BY <4>1, <4>3, <4>5, OwnerKept
    <3>2. CASE i \notin gone
        BY <2>1, <3>2, OwnerOfRow
    <3> QED
        BY <3>1, <3>2
  <2> QED
      BY <2>2, OwnersStay
<1>10. ASSUME NEW r \in Requests, Updates(r)
       PROVE  Owners' = Owners
  <2>1. PICK id \in Ids, now \in Time, patch \in Patches \cup {DeactivatePatch} :
            /\ listings[id] \in OwnedRows /\ listings[id].claimed
            /\ SetsRow(id, UpdatedRow(listings[id], patch, now))
      BY <1>10 DEF Updates, OwnedAndClaimed, Owned
  <2>2. OwnerStep(listings[id], UpdatedRow(listings[id], patch, now))
      BY <2>1, OwnerWrites
  <2> QED
      BY <2>1, <2>2, SameOwnerIsStutter DEF OwnerStep
<1> QED
    BY <1>2, <1>3, <1>4, <1>5, <1>6, <1>7, <1>8, <1>9, <1>10 DEF Statement

(* The board implements the listing's lifecycle: whatever handlers, syncs, *)
(* purges and restarts interleave, a listing gets its owner once, keeps it *)
(* and, removed, never comes back.                                         *)
THEOREM BoardImplementsLifecycle == Spec => LifecycleSpec
<1>1. Init => Lifecycle!Init
    BY OwnerOfRow DEF Init, StoreInit, Lifecycle!Init, OwnerOf
<1>2. OwnershipInv /\ [Next]_vars => [Lifecycle!Next]_Owners
    BY StepIsStatement, StatementIsLifecycleStep
<1>3. OwnershipInv /\ [Next]_vars => [Lifecycle!Next]_([i \in Ids |-> OwnerOf(i)])
    BY <1>2 DEF Owners
<1> QED
    BY <1>1, <1>3, OwnershipInvariant, PTL DEF Spec, LifecycleSpec, Lifecycle!Spec

-----------------------------------------------------------------------------
(* Duplicates: the stored key is the key of the URL, and the index sees    *)
(* every row that becomes an active offering.                              *)

KeyFollows(row) == row.endpoint_key = Normalize[row.endpoint_url]

(* Ui may guard less than Ti, never another slot. *)
SlotKept(a, b) == Guarded(b) => Guarded(a) /\ OfferingSlot(b) = OfferingSlot(a)

LEMMA UpdatedRowSlot ==
    ASSUME NEW row \in Row, NEW patch \in Patches \cup {DeactivatePatch}, NEW now \in Time, KeyFollows(row)
    PROVE  /\ KeyFollows(UpdatedRow(row, patch, now))
           /\ patch = DeactivatePatch => ~Guarded(UpdatedRow(row, patch, now))
<1>1. /\ UpdatedRow(row, patch, now).endpoint_url = Merged(patch, row, "endpoint_url")
      /\ UpdatedRow(row, patch, now).endpoint_key = MergedKey(patch, row)
      /\ UpdatedRow(row, patch, now).status = Merged(patch, row, "status")
    BY UpdatedRowKeepsOwner DEF UpdatedRow, Row
<1>2. patch = DeactivatePatch => Merged(patch, row, "status") = "inactive"
    BY DEF DeactivatePatch, Merged
<1> QED
    BY <1>1, <1>2 DEF KeyFollows, Merged, MergedKey, Guarded

LEMMA OtherRowsKey ==
    ASSUME NEW now \in Time
    PROVE  /\ \A p \in Payloads : KeyFollows(CreatedRow(p, now))
           /\ \A rec \in RecordType, src \in Sources : KeyFollows(ImportedRow(rec, src, now))
           /\ \A row \in Row, w \in Wallets : KeyFollows(row) => KeyFollows(ClaimedRow(row, w, now))
           /\ \A row \in Row : KeyFollows(row) =>
                LET b == [row EXCEPT !.last_seen_at = now] IN KeyFollows(b) /\ SlotKept(row, b)
           /\ \A row \in Row : KeyFollows(row) =>
                LET b == [row EXCEPT !.missing = TRUE] IN KeyFollows(b) /\ SlotKept(row, b)
<1>1. \A p \in Payloads : KeyFollows(CreatedRow(p, now))
    BY DEF CreatedRow, KeyFollows
<1>2. \A rec \in RecordType, src \in Sources : KeyFollows(ImportedRow(rec, src, now))
    BY DEF ImportedRow, KeyFollows
<1>3. \A row \in Row, w \in Wallets : KeyFollows(row) => KeyFollows(ClaimedRow(row, w, now))
    BY DEF ClaimedRow, KeyFollows, Row
<1>4. \A row \in Row : KeyFollows(row) =>
        LET b == [row EXCEPT !.last_seen_at = now] IN KeyFollows(b) /\ SlotKept(row, b)
    BY DEF KeyFollows, SlotKept, Guarded, OfferingSlot, Row
<1>5. \A row \in Row : KeyFollows(row) =>
        LET b == [row EXCEPT !.missing = TRUE] IN KeyFollows(b) /\ SlotKept(row, b)
    BY DEF KeyFollows, SlotKept, Guarded, OfferingSlot, Row
<1> QED
    BY <1>1, <1>2, <1>3, <1>4, <1>5

(* A conflict is on (source, key): the record's URL has the row's key.     *)
LEMMA RefreshedRowKey ==
    ASSUME NEW row \in Row, NEW rec \in RecordType, KeyFollows(row),
           row.endpoint_key = Normalize[rec.endpoint_url]
    PROVE  KeyFollows(RefreshedRow(row, rec))
<1>1. RefreshedRow(row, rec).endpoint_key = row.endpoint_key
    BY DEF RefreshedRow, Row
<1>2. RefreshedRow(row, rec).endpoint_url = IF row.claimed THEN row.endpoint_url ELSE rec.endpoint_url
    BY DEF RefreshedRow, Row
<1> QED
    BY <1>1, <1>2 DEF KeyFollows

LEMMA FewerOfferings ==
    ASSUME NEW T, NEW U, ActiveOfferingUniq(T),
           \A i \in RowsOf(U) : i \in RowsOf(T) /\ SlotKept(T[i], U[i])
    PROVE  ActiveOfferingUniq(U)
    BY DEF ActiveOfferingUniq, SlotKept

SlotInv == ActiveOfferingUniq(listings) /\ KeysFollowUrls

LEMMA StatementKeepsSlots ==
    ASSUME OwnershipInv, SlotInv, Statement
    PROVE  SlotInv'
<1>1. /\ listings \in [Ids -> OwnedRows \cup {Fresh, Gone}]
      /\ \A i \in Ids : listings[i] \in OwnedRows =>
           i \in RowsOf(listings) /\ listings[i] \in Row /\ KeyFollows(listings[i])
    BY InvFacts, OwnedRowIsRow DEF SlotInv, KeysFollowUrls, KeyFollows, RowsOf
<1>2. ASSUME \A i \in RowsOf(listings') : KeyFollows(listings'[i]),
             \/ Commits(listings')
             \/ \A i \in RowsOf(listings') : i \in RowsOf(listings) /\ SlotKept(listings[i], listings'[i])
      PROVE  SlotInv'
  <2>1. ActiveOfferingUniq(listings')
      BY <1>2, FewerOfferings DEF SlotInv, Commits
  <2> QED
      BY <1>2, <2>1 DEF SlotInv, KeysFollowUrls, KeyFollows
<1>3. ASSUME NEW id \in Ids, NEW row, SetsRow(id, row),
             row = Gone \/ KeyFollows(row),
             \/ Commits(listings')
             \/ row = Gone
             \/ listings[id] \in OwnedRows /\ SlotKept(listings[id], row)
      PROVE  SlotInv'
  <2>1. listings'[id] = row /\ \A i \in Ids \ {id} : listings'[i] = listings[i]
      BY <1>1, <1>3 DEF SetsRow
  <2>2. \A i \in RowsOf(listings') \ {id} : listings[i] \in OwnedRows /\ listings'[i] = listings[i]
      BY <1>1, <2>1 DEF RowsOf
  <2>3. \A i \in RowsOf(listings') : KeyFollows(listings'[i])
      BY <1>1, <1>3, <2>1, <2>2 DEF RowsOf
  <2>4. Commits(listings') \/ \A i \in RowsOf(listings') : i \in RowsOf(listings) /\ SlotKept(listings[i], listings'[i])
      BY <1>1, <1>3, <2>1, <2>2 DEF RowsOf, SlotKept
  <2> QED
      BY <1>2, <2>3, <2>4
<1>4. CASE listings' = listings
    BY <1>4 DEF SlotInv, KeysFollowUrls
<1>5. CASE Purges
  <2>1. PICK D \in PurgeSets : listings' = Purged(D)
      BY <1>5 DEF Purges
  <2>2. \A i \in RowsOf(listings') : listings'[i] = listings[i] /\ listings[i] \in OwnedRows
      BY <1>1, <2>1 DEF Purged, RowsOf
  <2>3. \A i \in RowsOf(listings') : i \in Ids
      BY DEF RowsOf
  <2> QED
      BY <1>1, <1>2, <2>2, <2>3 DEF SlotKept
<1>6. CASE Inserts
  <2>1. PICK p \in Payloads, now \in Time : SetsRow(NewId, CreatedRow(p, now))
      BY <1>6 DEF Inserts
  <2>2. PICK id \in Ids : id = NewId
      BY <1>6, NewIdIsFresh DEF Inserts
  <2>3. KeyFollows(CreatedRow(p, now))
      BY OtherRowsKey
  <2> QED
      BY <1>3, <1>6, <2>1, <2>2, <2>3 DEF Inserts
<1>7. CASE Claims
  <2>1. PICK id \in Ids, w \in Wallets, now \in Time :
            Owned(id) /\ Commits(listings') /\ SetsRow(id, ClaimedRow(listings[id], w, now))
      BY <1>7 DEF Claims
  <2>2. KeyFollows(ClaimedRow(listings[id], w, now))
      BY <1>1, <2>1, OtherRowsKey DEF Owned
  <2> QED
      BY <1>3, <2>1, <2>2
<1>8. CASE Removes
    BY <1>3, <1>8 DEF Removes
<1>9. CASE Beats
  <2>1. PICK id \in Ids, now \in Time :
            listings[id] \in OwnedRows /\ SetsRow(id, [listings[id] EXCEPT !.last_seen_at = now])
      BY <1>9 DEF Beats, OwnedAndClaimed, Owned
  <2> DEFINE b == [listings[id] EXCEPT !.last_seen_at = now]
  <2>2. KeyFollows(b) /\ SlotKept(listings[id], b)
      BY <1>1, <2>1, OtherRowsKey
  <2> HIDE DEF b
  <2>3. SetsRow(id, b)
      BY <2>1 DEF b
  <2> QED
      BY <1>3, <2>1, <2>2, <2>3
<1>10. CASE Upserts
  <2>1. PICK row \in PlannedRows, now \in Time :
            /\ HasNewId \/ SourceConflict(row.source, row.rec) # {}
            /\ listings' = UpsertedTable(row, now) /\ Commits(listings')
      BY <1>10 DEF Upserts
  <2>2. row.rec \in RecordType /\ row.source \in Sources
      BY DEF PlannedRows
  <2>3. CASE SourceConflict(row.source, row.rec) = {}
    <3>1. PICK id \in Ids : id = NewId
        BY <2>1, <2>3, NewIdIsFresh
    <3>2. SetsRow(id, ImportedRow(row.rec, row.source, now))
        BY <2>1, <2>3, <3>1 DEF UpsertedTable, SetsRow
    <3>3. KeyFollows(ImportedRow(row.rec, row.source, now))
        BY <2>2, OtherRowsKey
    <3> QED
        BY <1>3, <2>1, <3>2, <3>3
  <2>4. CASE SourceConflict(row.source, row.rec) # {}
    <3>1. ASSUME NEW i \in RowsOf(listings')
          PROVE  KeyFollows(listings'[i])
      <4>1. i \in Ids
          BY DEF RowsOf
      <4>2. CASE i \in SourceConflict(row.source, row.rec)
        <5>1. listings'[i] = RefreshedRow(listings[i], row.rec)
            BY <2>1, <2>4, <4>1, <4>2 DEF UpsertedTable
        <5>2. listings[i] \in OwnedRows /\ listings[i].endpoint_key = Normalize[row.rec.endpoint_url]
            BY <1>1, <4>1, <4>2 DEF SourceConflict, SourceSlot, RowsOf
        <5> QED
            BY <1>1, <2>2, <4>1, <5>1, <5>2, RefreshedRowKey
      <4>3. CASE i \notin SourceConflict(row.source, row.rec)
        <5>1. listings'[i] = listings[i]
            BY <2>1, <2>4, <4>1, <4>3 DEF UpsertedTable
        <5> QED
            BY <1>1, <4>1, <5>1 DEF RowsOf
      <4> QED
          BY <4>2, <4>3
    <3> QED
        BY <1>2, <2>1, <3>1
  <2> QED
      BY <2>3, <2>4
<1>11. CASE Marks
  <2>1. PICK gone \in SUBSET RowsOf(listings) :
            listings' = [i \in Ids |-> IF i \in gone THEN [listings[i] EXCEPT !.missing = TRUE] ELSE listings[i]]
      BY <1>11 DEF Marks
  <2>2. ASSUME NEW i \in RowsOf(listings')
        PROVE  i \in RowsOf(listings) /\ SlotKept(listings[i], listings'[i]) /\ KeyFollows(listings'[i])
    <3>1. i \in Ids
        BY DEF RowsOf
    <3>2. CASE i \in gone
      <4>1. listings[i] \in OwnedRows /\ listings'[i] = [listings[i] EXCEPT !.missing = TRUE]
          BY <1>1, <2>1, <3>1, <3>2 DEF RowsOf
      <4>2. 0 \in Time
          BY StoreAssumption
      <4>3. SlotKept(listings[i], [listings[i] EXCEPT !.missing = TRUE])
            /\ KeyFollows([listings[i] EXCEPT !.missing = TRUE])
          BY <1>1, <3>1, <4>1, <4>2, OtherRowsKey
      <4> QED
          BY <1>1, <3>1, <4>1, <4>3
    <3>3. CASE i \notin gone
        BY <1>1, <2>1, <3>1, <3>3 DEF RowsOf, SlotKept
    <3> QED
        BY <3>2, <3>3
  <2> QED
      BY <1>2, <2>2
<1>12. ASSUME NEW r \in Requests, Updates(r)
       PROVE  SlotInv'
  <2>1. PICK id \in Ids, now \in Time, patch \in Patches \cup {DeactivatePatch} :
            /\ listings[id] \in OwnedRows /\ SetsRow(id, UpdatedRow(listings[id], patch, now))
            /\ Commits(listings') \/ patch = DeactivatePatch
      BY <1>12 DEF Updates, OwnedAndClaimed, Owned
  <2>2. /\ KeyFollows(UpdatedRow(listings[id], patch, now))
        /\ patch = DeactivatePatch => ~Guarded(UpdatedRow(listings[id], patch, now))
      BY <1>1, <2>1, UpdatedRowSlot
  <2> QED
      BY <1>3, <2>1, <2>2 DEF SlotKept
<1> QED
    BY <1>4, <1>5, <1>6, <1>7, <1>8, <1>9, <1>10, <1>11, <1>12 DEF Statement

(* The index and the keys are in order in every reachable state. *)
THEOREM SlotsInvariant == Spec => []SlotInv
<1>1. Init => SlotInv
    BY DEF Init, StoreInit, SlotInv, ActiveOfferingUniq, KeysFollowUrls, RowsOf
<1>2. OwnershipInv /\ SlotInv /\ [Next]_vars => SlotInv'
    BY StepIsStatement, StatementKeepsSlots
<1> QED
    BY <1>1, <1>2, OwnershipInvariant, PTL DEF Spec

(* Every listing is known by the key of its URL. *)
THEOREM KeysAlwaysFollow == Spec => []KeysFollowUrls
<1>1. SlotInv => KeysFollowUrls
    BY DEF SlotInv
<1> QED
    BY <1>1, SlotsInvariant, PTL

(* No two active offerings of one owner ever normalize alike, although the *)
(* handlers look for a duplicate long before they write, and a DELETE, a   *)
(* heartbeat and the marking never ask the index.                          *)
THEOREM NeverTwoOfferings == Spec => []OneActiveOffering
<1>1. SlotInv => OneActiveOffering
    BY DEF SlotInv, ActiveOfferingUniq, OneActiveOffering, KeysFollowUrls, OfferingSlot
<1> QED
    BY <1>1, SlotsInvariant, PTL

(* A row that is not taken away stays a row, of the same scope; its        *)
(* last_seen_at moves only by an allowed heartbeat.                        *)
StaysRow(a, b) ==
    /\ b \in OwnedRows /\ b.is_test = a.is_test
    /\ \/ b.last_seen_at = a.last_seen_at
       \/ \E now \in Time : HeartbeatAllowed(a, now) /\ b.last_seen_at = now

LEMMA RowWritesStay ==
    ASSUME NEW row \in OwnedRows, NEW now \in Time
    PROVE  /\ StaysRow(row, row)
           /\ \A w \in Wallets : ~row.claimed => StaysRow(row, ClaimedRow(row, w, now))
           /\ row.claimed => \A patch \in Patches \cup {DeactivatePatch} :
                StaysRow(row, UpdatedRow(row, patch, now))
           /\ row.claimed /\ HeartbeatAllowed(row, now) => StaysRow(row, [row EXCEPT !.last_seen_at = now])
           /\ \A rec \in RecordType : StaysRow(row, RefreshedRow(row, rec))
           /\ StaysRow(row, [row EXCEPT !.missing = TRUE])
<1>1. row \in Row
    BY OwnedRowIsRow
<1>2. StaysRow(row, row)
    BY DEF StaysRow
<1>3. ASSUME NEW w \in Wallets, ~row.claimed
      PROVE  StaysRow(row, ClaimedRow(row, w, now))
  <2>1. ClaimedRow(row, w, now) \in OwnedRows
      BY <1>3, QuietWrites
  <2>2. /\ ClaimedRow(row, w, now).is_test = row.is_test
        /\ ClaimedRow(row, w, now).last_seen_at = row.last_seen_at
      BY <1>1 DEF ClaimedRow, Row
  <2> QED
      BY <2>1, <2>2 DEF StaysRow
<1>4. ASSUME row.claimed, NEW patch \in Patches \cup {DeactivatePatch}
      PROVE  StaysRow(row, UpdatedRow(row, patch, now))
  <2>1. UpdatedRow(row, patch, now) \in OwnedRows
      BY <1>4, OwnerWrites DEF OwnerStep
  <2> QED
      BY <1>1, <2>1, UpdatedRowKeepsOwner DEF StaysRow
<1>5. ASSUME row.claimed, HeartbeatAllowed(row, now)
      PROVE  StaysRow(row, [row EXCEPT !.last_seen_at = now])
  <2> DEFINE b == [row EXCEPT !.last_seen_at = now]
  <2>1. b \in OwnedRows
      BY <1>5, OwnerWrites DEF OwnerStep
  <2>2. b.is_test = row.is_test /\ b.last_seen_at = now
      BY <1>1 DEF Row
  <2> HIDE DEF b
  <2>3. StaysRow(row, b)
      BY <1>5, <2>1, <2>2 DEF StaysRow
  <2> QED
      BY <2>3 DEF b
<1>6. ASSUME NEW rec \in RecordType
      PROVE  StaysRow(row, RefreshedRow(row, rec))
  <2>1. RefreshedRow(row, rec) \in OwnedRows
      BY QuietWrites
  <2>2. RefreshedRow(row, rec).is_test = row.is_test
      BY <1>1 DEF RefreshedRow, Row
  <2> QED
      BY <1>1, <2>1, <2>2, RefreshedRowKeepsOwner DEF StaysRow
<1>7. StaysRow(row, [row EXCEPT !.missing = TRUE])
  <2> DEFINE b == [row EXCEPT !.missing = TRUE]
  <2>1. b \in OwnedRows
      BY QuietWrites
  <2>2. b.is_test = row.is_test /\ b.last_seen_at = row.last_seen_at
      BY <1>1 DEF Row
  <2> HIDE DEF b
  <2>3. StaysRow(row, b)
      BY <2>1, <2>2 DEF StaysRow
  <2> QED
      BY <2>3 DEF b
<1> QED
    BY <1>2, <1>3, <1>4, <1>5, <1>6, <1>7

LEMMA RowsStay ==
    ASSUME OwnershipInv, Statement, ~Purges, ~Removes, NEW i \in Ids, listings[i] \in OwnedRows
    PROVE  StaysRow(listings[i], listings'[i])
<1>1. listings \in [Ids -> OwnedRows \cup {Fresh, Gone}] /\ listings[i] \notin {Fresh, Gone}
    BY InvFacts, OwnedRowIsRow
<1>2. 0 \in Time
    BY StoreAssumption
<1>3. StaysRow(listings[i], listings[i]) /\ StaysRow(listings[i], [listings[i] EXCEPT !.missing = TRUE])
    BY <1>2, RowWritesStay
<1>4. ASSUME NEW id \in Ids, NEW row, SetsRow(id, row), i = id => StaysRow(listings[i], row)
      PROVE  StaysRow(listings[i], listings'[i])
    BY <1>1, <1>3, <1>4 DEF SetsRow
<1>5. CASE listings' = listings
    BY <1>3, <1>5
<1>6. CASE Inserts
  <2>1. PICK id \in Ids : id = NewId /\ listings[id] = Fresh
      BY <1>6, NewIdIsFresh DEF Inserts
  <2> QED
      BY <1>1, <1>4, <1>6, <2>1 DEF Inserts
<1>7. CASE Claims
    BY <1>4, <1>7, RowWritesStay DEF Claims
<1>8. CASE Beats
    BY <1>4, <1>8, RowWritesStay DEF Beats, OwnedAndClaimed
<1>9. CASE Upserts
  <2>1. PICK row \in PlannedRows, now \in Time :
            /\ HasNewId \/ SourceConflict(row.source, row.rec) # {}
            /\ listings' = UpsertedTable(row, now)
      BY <1>9 DEF Upserts
  <2>2. CASE SourceConflict(row.source, row.rec) = {}
    <3>1. PICK id \in Ids : id = NewId /\ listings[id] = Fresh
        BY <2>1, <2>2, NewIdIsFresh
    <3>2. SetsRow(id, ImportedRow(row.rec, row.source, now))
        BY <2>1, <2>2, <3>1 DEF UpsertedTable, SetsRow
    <3> QED
        BY <1>1, <1>4, <3>1, <3>2
  <2>3. CASE SourceConflict(row.source, row.rec) # {}
    <3>1. listings'[i] = IF i \in SourceConflict(row.source, row.rec)
                         THEN RefreshedRow(listings[i], row.rec) ELSE listings[i]
        BY <2>1, <2>3 DEF UpsertedTable
    <3>2. StaysRow(listings[i], RefreshedRow(listings[i], row.rec))
        BY <2>1, RowWritesStay DEF PlannedRows
    <3> QED
        BY <1>3, <3>1, <3>2
  <2> QED
      BY <2>2, <2>3
<1>10. CASE Marks
    BY <1>3, <1>10 DEF Marks
<1>11. ASSUME NEW r \in Requests, Updates(r)
       PROVE  StaysRow(listings[i], listings'[i])
  <2>1. PICK id \in Ids, now \in Time, patch \in Patches \cup {DeactivatePatch} :
            listings[id].claimed /\ SetsRow(id, UpdatedRow(listings[id], patch, now))
      BY <1>11 DEF Updates, OwnedAndClaimed, Owned
  <2> QED
      BY <1>4, <2>1, RowWritesStay
<1> QED
    BY <1>5, <1>6, <1>7, <1>8, <1>9, <1>10, <1>11 DEF Statement

(* Nothing but an expired test listing or a recorded import disappears.    *)
THEOREM RemovalsLeaveARecord == Spec => RemovalsAreRecorded
<1>1. OwnershipInv /\ SlotInv /\ [Next]_vars => [RemovalsRecorded]_vars
  <2> SUFFICES ASSUME OwnershipInv, SlotInv, Statement
               PROVE  RemovalsRecorded
      BY StepIsStatement
  <2> SUFFICES ASSUME NEW i \in Ids, Exists(i), ~Exists(i)'
               PROVE  \/ listings[i].is_test /\ listings[i].created_at + TestTTL < clock
                      \/ /\ listings[i].source # NoSource
                         /\ <<listings[i].source, listings[i].endpoint_key>> \in doNotImport'
      BY DEF RemovalsRecorded
  <2>1. listings[i] \in OwnedRows /\ listings[i] \in Row /\ KeyFollows(listings[i])
      BY InvFacts, OwnedRowIsRow DEF Exists, SlotInv, KeysFollowUrls, KeyFollows, RowsOf
  <2>2. listings'[i] \in {Fresh, Gone}
      BY DEF Exists
  <2>3. CASE Purges
    <3>1. i \in Expired
        BY <2>1, <2>2, <2>3, OwnedRowIsRow DEF Purges, Purged, PurgeSets
    <3>2. listings[i].created_at \in Int /\ clock \in Int /\ TestTTL \in Int
        BY <2>1, InvFacts, StoreAssumption DEF Row
    <3> QED
        BY <3>1, <3>2 DEF Expired
  <2>4. CASE Removes
    <3>1. PICK id \in Ids : /\ listings[id].source # NoSource /\ SetsRow(id, Gone)
                            /\ <<listings[id].source, Normalize[listings[id].endpoint_url]>> \in doNotImport'
        BY <2>4 DEF Removes
    <3>2. i = id
        BY <2>1, <2>2, <3>1, InvFacts, OwnedRowIsRow DEF SetsRow
    <3> QED
        BY <2>1, <3>1, <3>2 DEF KeyFollows
  <2>5. CASE ~Purges /\ ~Removes
      BY <2>1, <2>2, <2>5, RowsStay, OwnedRowIsRow DEF StaysRow
  <2> QED
      BY <2>3, <2>4, <2>5
<1> QED
    BY <1>1, OwnershipInvariant, SlotsInvariant, PTL DEF Spec, RemovalsAreRecorded

(* Two recorded heartbeats of a listing are an interval apart, although    *)
(* the handler took its time before the UPDATE compared with it.           *)
THEOREM HeartbeatsStayApart == Spec => HeartbeatsAreSpaced
<1>1. OwnershipInv /\ [Next]_vars => [HeartbeatSpaced]_vars
  <2> SUFFICES ASSUME OwnershipInv, Statement,
                      NEW i \in Ids, Exists(i), Exists(i)', listings[i].last_seen_at # listings'[i].last_seen_at
               PROVE  \/ listings[i].last_seen_at = NoTime
                      \/ listings'[i].last_seen_at >= listings[i].last_seen_at + HeartbeatInterval
      BY StepIsStatement DEF HeartbeatSpaced
  <2>1. listings[i] \in OwnedRows /\ listings[i] \in Row /\ listings'[i] \notin {Fresh, Gone}
      BY InvFacts, OwnedRowIsRow DEF Exists
  <2>2. CASE Purges \/ Removes
    <3>1. listings'[i] = listings[i] \/ listings'[i] = Gone
        BY <2>1, <2>2, InvFacts DEF Purges, Purged, Removes, SetsRow
    <3> QED
        BY <2>1, <3>1
  <2>3. CASE ~Purges /\ ~Removes
    <3>1. PICK now \in Time : HeartbeatAllowed(listings[i], now) /\ listings'[i].last_seen_at = now
        BY <2>1, <2>3, RowsStay DEF StaysRow
    <3>2. listings[i].last_seen_at \in Int /\ now \in Int /\ HeartbeatInterval \in Int
        BY <2>1, StoreAssumption DEF Row
    <3> QED
        BY <3>1, <3>2 DEF HeartbeatAllowed
  <2> QED
      BY <2>2, <2>3
<1> QED
    BY <1>1, OwnershipInvariant, PTL DEF Spec, HeartbeatsAreSpaced

-----------------------------------------------------------------------------
(* The test prefix: a PATCH in flight that carries a name carries one that *)
(* fits the row it will be written to, because no statement moves a row    *)
(* between test and real.                                                  *)

NameFits(T, q) ==
    q.op = "patch" /\ "test_name" \in DOMAIN q.args
    => T[q.id] = Gone \/ T[q.id].is_test = q.args["test_name"]

SamePatch(a, b) == b.op = "patch" => b.op = a.op /\ b.id = a.id /\ b.args = a.args

NamesInv == TestNamesKept /\ \A r \in Requests : NameFits(listings, req[r])

LEMMA RequestMovesOn ==
    ASSUME OwnershipInv, NEW r \in Requests
    PROVE  /\ \A code : Respond(r, code) => \A s \in Requests : SamePatch(req[s], req'[s])
           /\ \A pc : Goto(r, pc) => \A s \in Requests : SamePatch(req[s], req'[s])
           /\ \A op, id, w, args, pc : Admit(r, op, id, w, args, pc) /\ op # "patch" =>
                \A s \in Requests : SamePatch(req[s], req'[s])
<1>1. req \in [Requests -> RequestState]
    BY InvFacts DEF RequestsOK
<1>2. ASSUME NEW code, Respond(r, code), NEW s \in Requests
      PROVE  SamePatch(req[s], req'[s])
  <2> DEFINE q1 == [IdleRequest EXCEPT !.pc = "done"]
             q2 == [q1 EXCEPT !.resp = code]
  <2>1. q2.op = "none"
      BY DEF IdleRequest
  <2>2. req' = [req EXCEPT ![r] = q2]
      BY <1>2 DEF Respond
  <2> HIDE DEF q2
  <2> QED
      BY <1>1, <2>1, <2>2 DEF SamePatch
<1>3. ASSUME NEW pc, Goto(r, pc), NEW s \in Requests
      PROVE  SamePatch(req[s], req'[s])
  <2> DEFINE q2 == [req[r] EXCEPT !.pc = pc, !.now = clock]
  <2>1. q2.op = req[r].op /\ q2.id = req[r].id /\ q2.args = req[r].args
      OBVIOUS
  <2>2. req' = [req EXCEPT ![r] = q2]
      BY <1>1, <1>3 DEF Goto
  <2> HIDE DEF q2
  <2> QED
      BY <1>1, <2>1, <2>2 DEF SamePatch
<1>4. ASSUME NEW op, NEW id, NEW w, NEW args, NEW pc, Admit(r, op, id, w, args, pc), op # "patch",
             NEW s \in Requests
      PROVE  SamePatch(req[s], req'[s])
    BY <1>1, <1>4 DEF Admit, SamePatch
<1> QED
    BY <1>2, <1>3, <1>4

(* A handler's statement answers its request or goes on to the next one.    *)
LEMMA HandlerAnswers ==
    ASSUME NEW r \in Requests, HandlerStep(r)
    PROVE  (\E code \in Codes : Respond(r, code)) \/ (\E pc \in {"dup", "write", "clash"} : Goto(r, pc))
<1>1. {200, 201, 404, 409, 429, 500} \subseteq Codes
    BY DEF Codes
<1>2. CASE CreatePurge(r)
    BY <1>2 DEF CreatePurge
<1>3. CASE FindDuplicate(r) \/ ReportClash(r)
    BY <1>1, <1>3 DEF FindDuplicate, ReportClash
<1>4. CASE CreateInsert(r)
    BY <1>1, <1>4 DEF CreateInsert
<1>5. CASE PatchWrite(r)
    BY <1>1, <1>5 DEF PatchWrite
<1>6. CASE DeleteWrite(r)
    BY <1>1, <1>6 DEF DeleteWrite
<1>7. CASE ClaimWrite(r)
    BY <1>1, <1>7 DEF ClaimWrite
<1>8. CASE RemoveWrite(r)
    BY <1>1, <1>8 DEF RemoveWrite
<1>9. CASE HeartbeatWrite(r)
    BY <1>1, <1>9 DEF HeartbeatWrite
<1> QED
    BY <1>2, <1>3, <1>4, <1>5, <1>6, <1>7, <1>8, <1>9 DEF HandlerStep

LEMMA PatchesAreRead ==
    ASSUME OwnershipInv, [Next]_vars, NEW s \in Requests
    PROVE  \/ SamePatch(req[s], req'[s])
           \/ \E id \in Ids, w \in Wallets, patch \in Patches : PatchRead(s, id, w, patch)
<1>1. req \in [Requests -> RequestState]
    BY InvFacts DEF RequestsOK
<1>2. IdleRequest.op = "none"
    BY DEF IdleRequest
<1>3. req' = req => SamePatch(req[s], req'[s])
    BY DEF SamePatch
<1>4. ASSUME NEW r \in Requests, NEW p \in Payloads, CreateRefused(r, p) \/ CreateStart(r, p)
      PROVE  SamePatch(req[s], req'[s])
  <2>1. CASE CreateRefused(r, p)
      BY <2>1, RequestMovesOn DEF CreateRefused
  <2>2. CASE CreateStart(r, p)
    <3> DEFINE q1 == [IdleRequest EXCEPT !.pc = "purge"]
               q2 == [q1 EXCEPT !.op = "create"]
               q3 == [q2 EXCEPT !.args = p]
    <3>1. q3.op = "create"
        BY DEF IdleRequest
    <3>2. req' = [req EXCEPT ![r] = q3]
        BY <2>2 DEF CreateStart
    <3> HIDE DEF q3
    <3> QED
        BY <1>1, <3>1, <3>2 DEF SamePatch
  <2> QED
      BY <1>4, <2>1, <2>2
<1>5. ASSUME NEW r \in Requests, NEW id \in Ids, NEW w \in Wallets, NEW patch \in Patches,
             PatchRefused(r, id, w, patch)
      PROVE  SamePatch(req[s], req'[s])
    BY <1>5, RequestMovesOn DEF PatchRefused, NotFound, Unauthorized
<1>6. ASSUME NEW r \in Requests, NEW id \in Ids, NEW w \in Wallets, NEW patch \in Patches,
             PatchRead(r, id, w, patch), r # s
      PROVE  SamePatch(req[s], req'[s])
    BY <1>1, <1>6 DEF PatchRead, Admit, SamePatch
<1>7. ASSUME NEW r \in Requests, NEW id \in Ids, NEW w \in Wallets,
             \/ DeleteRefused(r, id, w) \/ ClaimRefused(r, id, w)
             \/ RemoveRefused(r, id, w) \/ HeartbeatRefused(r, id, w)
      PROVE  SamePatch(req[s], req'[s])
    BY <1>7, RequestMovesOn
    DEF DeleteRefused, ClaimRefused, RemoveRefused, HeartbeatRefused, NotFound, Unauthorized
<1>8. ASSUME NEW r \in Requests, NEW id \in Ids, NEW w \in Wallets,
             DeleteRead(r, id, w) \/ ClaimRead(r, id, w) \/ RemoveRead(r, id, w) \/ HeartbeatRead(r, id, w)
      PROVE  SamePatch(req[s], req'[s])
    BY <1>8, RequestMovesOn DEF DeleteRead, ClaimRead, RemoveRead, HeartbeatRead
<1>9. ASSUME NEW r \in Requests, HandlerStep(r)
      PROVE  SamePatch(req[s], req'[s])
  <2>1. (\E code \in Codes : Respond(r, code)) \/ (\E pc \in {"dup", "write", "clash"} : Goto(r, pc))
      BY <1>9, HandlerAnswers
  <2> QED
      BY <2>1, RequestMovesOn
<1>10. ASSUME NEW r \in Requests, Finish(r)
       PROVE  SamePatch(req[s], req'[s])
    BY <1>1, <1>2, <1>10 DEF Finish, SamePatch
<1>11. Restart => SamePatch(req[s], req'[s])
    BY <1>2 DEF Restart, RoutesRestart, SamePatch
<1>12. Browse \/ UNCHANGED req \/ UNCHANGED vars => SamePatch(req[s], req'[s])
    BY <1>3 DEF Browse, vars
<1>13. ASSUME NEW r \in Requests, Arrival(r)
       PROVE  \/ SamePatch(req[s], req'[s])
              \/ \E id \in Ids, w \in Wallets, patch \in Patches : PatchRead(s, id, w, patch)
    BY <1>4, <1>5, <1>6, <1>7, <1>8, <1>13 DEF Arrival
<1> QED
  <2>1. CASE RoutesNext
      BY <1>9, <1>10, <1>12, <1>13, <2>1 DEF RoutesNext
  <2>2. CASE UNCHANGED req \/ UNCHANGED vars \/ Restart
      BY <1>11, <1>12, <2>2
  <2> QED
      BY <2>1, <2>2 DEF Next

(* What a PATCH in flight carries still fits after any step.               *)
LEMMA FitsStay ==
    ASSUME OwnershipInv, [Next]_vars, NEW s \in Requests, NameFits(listings, req[s])
    PROVE  NameFits(listings', req'[s])
<1>1. Statement /\ listings \in [Ids -> OwnedRows \cup {Fresh, Gone}] /\ PendingOK(listings, req[s])
    BY StepIsStatement, InvFacts DEF RequestsOK
<1>2. ASSUME NEW i \in Ids, listings[i] \in OwnedRows
      PROVE  listings'[i] = Gone \/ listings'[i].is_test = listings[i].is_test
  <2>1. CASE Purges \/ Removes
      BY <1>1, <1>2, <2>1 DEF Purges, Purged, Removes, SetsRow
  <2>2. CASE ~Purges /\ ~Removes
      BY <1>1, <1>2, <2>2, RowsStay DEF StaysRow
  <2> QED
      BY <2>1, <2>2
<1>3. ASSUME NEW i \in Ids, listings[i] = Gone
      PROVE  listings'[i] = Gone
  <2>1. listings'[i] = Gone \/ listings'[i] # Gone
      OBVIOUS
  <2>2. QuietTable(listings, listings') \/ \E r \in Requests : PatchWrite(r) \/ DeleteWrite(r) \/ HeartbeatWrite(r)
      BY StepAdvances
  <2>3. TableStep(listings, listings')
      BY <2>2, QuietTableSteps, OwnerHandlerAdvances DEF Advance
  <2> QED
      BY <1>3, <2>3, SentinelAssumption DEF TableStep, QuietStep, OwnerStep
<1>4. CASE SamePatch(req[s], req'[s])
  <2> SUFFICES ASSUME req'[s].op = "patch", "test_name" \in DOMAIN req'[s].args
               PROVE  listings'[req'[s].id] = Gone \/ listings'[req'[s].id].is_test = req'[s].args["test_name"]
      BY DEF NameFits
  <2>1. PICK id \in Ids : id = req[s].id /\ listings[id] # Fresh
      BY <1>1, <1>4 DEF SamePatch, PendingOK
  <2>2. req'[s].id = id /\ (listings[id] = Gone \/ listings[id].is_test = req'[s].args["test_name"])
      BY <1>4, <2>1 DEF SamePatch, NameFits
  <2> QED
      BY <1>1, <1>2, <1>3, <2>1, <2>2
<1>5. ASSUME NEW id \in Ids, NEW w \in Wallets, NEW patch \in Patches, PatchRead(s, id, w, patch)
      PROVE  NameFits(listings', req'[s])
  <2>1. req \in [Requests -> RequestState]
      BY InvFacts DEF RequestsOK
  <2>2. req'[s].id = id /\ req'[s].args = patch /\ listings' = listings
      BY <1>5, <2>1 DEF PatchRead, Admit, storeVars
  <2>3. "test_name" \in DOMAIN patch => patch["test_name"] = listings[id].is_test
      BY <1>5 DEF PatchRead, PatchInvalid
  <2> QED
      BY <2>2, <2>3 DEF NameFits
<1> QED
    BY <1>4, <1>5, PatchesAreRead

NameKept(row) == row.source = NoSource => row.test_name = row.is_test

LEMMA RowNames ==
    ASSUME NEW now \in Time
    PROVE  /\ \A p \in Payloads : NameKept(CreatedRow(p, now))
           /\ \A rec \in RecordType, src \in Sources : NameKept(ImportedRow(rec, src, now))
           /\ \A row \in OwnedRows : NameKept(row) =>
                /\ \A w \in Wallets : NameKept(ClaimedRow(row, w, now))
                /\ \A rec \in RecordType : NameKept(RefreshedRow(row, rec))
                /\ NameKept([row EXCEPT !.last_seen_at = now])
                /\ NameKept([row EXCEPT !.missing = TRUE])
                /\ NameKept(UpdatedRow(row, DeactivatePatch, now))
                /\ \A patch \in Patches :
                     ("test_name" \in DOMAIN patch => patch["test_name"] = row.is_test)
                     => NameKept(UpdatedRow(row, patch, now))
<1>1. \A p \in Payloads : NameKept(CreatedRow(p, now))
    BY DEF CreatedRow, NameKept
<1>2. \A rec \in RecordType, src \in Sources : NameKept(ImportedRow(rec, src, now))
    BY StoreAssumption DEF ImportedRow, NameKept
<1> SUFFICES ASSUME NEW row \in OwnedRows, NameKept(row)
             PROVE  /\ \A w \in Wallets : NameKept(ClaimedRow(row, w, now))
                    /\ \A rec \in RecordType : NameKept(RefreshedRow(row, rec))
                    /\ NameKept([row EXCEPT !.last_seen_at = now])
                    /\ NameKept([row EXCEPT !.missing = TRUE])
                    /\ NameKept(UpdatedRow(row, DeactivatePatch, now))
                    /\ \A patch \in Patches :
                         ("test_name" \in DOMAIN patch => patch["test_name"] = row.is_test)
                         => NameKept(UpdatedRow(row, patch, now))
    BY <1>1, <1>2
<1>3. row \in Row /\ (~row.claimed => row.source # NoSource)
    BY OwnedRowIsRow DEF OwnedRows
<1>4. \A w \in Wallets : NameKept(ClaimedRow(row, w, now))
    BY <1>3 DEF NameKept, ClaimedRow, Row
<1>5. ASSUME NEW rec \in RecordType
      PROVE  NameKept(RefreshedRow(row, rec))
  <2>1. CASE row.claimed
      BY <1>3, <2>1 DEF NameKept, RefreshedRow, Row
  <2>2. CASE ~row.claimed
      BY <1>3, <2>2, RefreshedRowKeepsOwner DEF NameKept
  <2> QED
      BY <2>1, <2>2
<1>6. NameKept([row EXCEPT !.last_seen_at = now]) /\ NameKept([row EXCEPT !.missing = TRUE])
    BY <1>3 DEF NameKept, Row
<1>7. ASSUME NEW patch \in Patches \cup {DeactivatePatch},
             "test_name" \in DOMAIN patch => patch["test_name"] = row.is_test
      PROVE  NameKept(UpdatedRow(row, patch, now))
  <2>1. UpdatedRow(row, patch, now).test_name = Merged(patch, row, "test_name")
      BY <1>3, UpdatedRowKeepsOwner DEF UpdatedRow, Row
  <2> QED
      BY <1>3, <1>7, <2>1, UpdatedRowKeepsOwner DEF NameKept, Merged
<1>8. "test_name" \notin DOMAIN DeactivatePatch
    BY DEF DeactivatePatch
<1> QED
    BY <1>4, <1>5, <1>6, <1>7, <1>8

LEMMA StatementKeepsNames ==
    ASSUME OwnershipInv, NamesInv, Statement
    PROVE  TestNamesKept'
<1>1. /\ listings \in [Ids -> OwnedRows \cup {Fresh, Gone}]
      /\ \A i \in Ids : listings[i] \in OwnedRows => NameKept(listings[i])
    BY InvFacts, OwnedRowIsRow DEF NamesInv, TestNamesKept, NameKept, RowsOf
<1>2. ASSUME \A i \in Ids : listings'[i] \notin {Fresh, Gone} => NameKept(listings'[i])
      PROVE  TestNamesKept'
    BY <1>2 DEF TestNamesKept, NameKept, RowsOf
<1>3. \A i \in Ids : listings[i] \notin {Fresh, Gone} => listings[i] \in OwnedRows /\ NameKept(listings[i])
    BY <1>1
<1>4. ASSUME NEW id \in Ids, NEW row, SetsRow(id, row), row = Gone \/ NameKept(row)
      PROVE  TestNamesKept'
    BY <1>1, <1>2, <1>3, <1>4 DEF SetsRow
<1>5. 0 \in Time
    BY StoreAssumption
<1>6. CASE listings' = listings \/ Purges \/ Marks
  <2>1. ASSUME NEW i \in Ids, listings'[i] \notin {Fresh, Gone}
        PROVE  listings'[i] = listings[i] \/ (listings[i] \notin {Fresh, Gone} /\ listings'[i] = [listings[i] EXCEPT !.missing = TRUE])
      BY <1>6, <2>1 DEF Purges, Purged, Marks, RowsOf
  <2> QED
      BY <1>2, <1>3, <1>5, <2>1, RowNames
<1>7. CASE Inserts
  <2>1. PICK id \in Ids : id = NewId
      BY <1>7, NewIdIsFresh DEF Inserts
  <2> QED
      BY <1>4, <1>7, <2>1, RowNames DEF Inserts
<1>8. CASE Claims \/ Removes \/ Beats
    BY <1>1, <1>4, <1>8, RowNames DEF Claims, Removes, Beats, Owned, OwnedAndClaimed
<1>9. CASE Upserts
  <2>1. PICK row \in PlannedRows, now \in Time :
            /\ HasNewId \/ SourceConflict(row.source, row.rec) # {}
            /\ listings' = UpsertedTable(row, now)
      BY <1>9 DEF Upserts
  <2>2. row.rec \in RecordType /\ row.source \in Sources
      BY DEF PlannedRows
  <2>3. CASE SourceConflict(row.source, row.rec) = {}
    <3>1. PICK id \in Ids : id = NewId
        BY <2>1, <2>3, NewIdIsFresh
    <3>2. SetsRow(id, ImportedRow(row.rec, row.source, now))
        BY <2>1, <2>3, <3>1 DEF UpsertedTable, SetsRow
    <3> QED
        BY <1>4, <2>2, <3>2, RowNames
  <2>4. CASE SourceConflict(row.source, row.rec) # {}
    <3>1. ASSUME NEW i \in Ids
          PROVE  \/ listings'[i] = listings[i]
                 \/ listings[i] \in OwnedRows /\ listings'[i] = RefreshedRow(listings[i], row.rec)
        BY <1>1, <2>1, <2>4 DEF UpsertedTable, SourceConflict, RowsOf
    <3> QED
        BY <1>1, <1>2, <1>3, <1>5, <2>2, <3>1, RowNames
  <2> QED
      BY <2>3, <2>4
<1>10. ASSUME NEW r \in Requests, Updates(r)
       PROVE  TestNamesKept'
  <2>1. PICK id \in Ids : id = req[r].id /\ listings[id] \in OwnedRows
      BY <1>10 DEF Updates, OwnedAndClaimed, Owned
  <2>2. PICK now \in Time, patch \in Patches \cup {DeactivatePatch} :
            /\ patch = req[r].args /\ SetsRow(id, UpdatedRow(listings[id], patch, now))
            /\ \/ req[r].op = "patch" /\ patch \in Patches
               \/ patch = DeactivatePatch
      BY <1>10, <2>1 DEF Updates
  <2>3. req[r].op = "patch" /\ "test_name" \in DOMAIN patch => patch["test_name"] = listings[id].is_test
      BY <2>1, <2>2, OwnedRowIsRow DEF NamesInv, NameFits
  <2>4. NameKept(UpdatedRow(listings[id], patch, now))
      BY <1>1, <2>1, <2>2, <2>3, RowNames
  <2> QED
      BY <1>4, <2>2, <2>4
<1> QED
    BY <1>6, <1>7, <1>8, <1>9, <1>10 DEF Statement

(* A listing posted here is test data exactly when its name says so,       *)
(* although PATCH compares with the row it read earlier.                   *)
THEOREM NamesStayHonest == Spec => []TestNamesKept
<1>1. Init => NamesInv
    BY DEF Init, StoreInit, RoutesInit, NamesInv, TestNamesKept, NameFits, RowsOf, IdleRequest
<1>2. OwnershipInv /\ NamesInv /\ [Next]_vars => NamesInv'
    BY StepIsStatement, StatementKeepsNames, FitsStay DEF NamesInv
<1>3. NamesInv => TestNamesKept
    BY DEF NamesInv
<1> QED
    BY <1>1, <1>2, <1>3, OwnershipInvariant, PTL DEF Spec

-----------------------------------------------------------------------------
(* What a sync in progress owes: it writes no endpoint its plan found on   *)
(* the do-not-import list, and marks only sources that took part in it.    *)

PlanOK(q) ==
    /\ q.pc = "apply" => ~q.dry_run
    /\ q.toMark \subseteq q.sources
    /\ \A row \in q.toWrite : row.source \notin q.toPlan /\ <<row.source, KeyOf(row)>> \notin q.blocked
    /\ \A entry \in q.blocked : entry[1] \notin q.toPlan

PlansInv == \A p \in Syncs : PlanOK(sync[p])

LEMMA OnePlanMoves ==
    ASSUME ImportTypeOK, PlansInv, NEW p \in Syncs, NEW q, PlanOK(q), sync' = [sync EXCEPT ![p] = q]
    PROVE  PlansInv'
    BY DEF PlansInv, ImportTypeOK

LEMMA IdlePlanOK ==
    /\ PlanOK(IdleSync)
    /\ PlanOK([IdleSync EXCEPT !.pc = "body"])
<1>1. PlanOK(IdleSync)
    BY DEF PlanOK, IdleSync
<1>2. PlanOK([IdleSync EXCEPT !.pc = "body"])
    BY DEF PlanOK, IdleSync
<1> QED
    BY <1>1, <1>2

LEMMA PlanningKeepsPlan ==
    ASSUME ImportTypeOK, PlansInv, NEW p \in Syncs, NEW src \in Sources, PlanSource(p, src)
    PROVE  PlansInv'
<1> DEFINE q == sync[p]
           mine == {row \in q.rows : row.source = src}
           dni == {<<src, KeyOf(row)>> : row \in mine} \cap doNotImport
           free == {row \in mine : <<src, KeyOf(row)>> \notin dni}
<1>1. q \in SyncState /\ PlanOK(q) /\ q.pc = "plan" /\ src \in q.toPlan
    BY DEF ImportTypeOK, PlansInv, PlanSource
<1>2. PICK latest \in SUBSET free :
        sync' = [sync EXCEPT ![p].toPlan = @ \ {src}, ![p].toWrite = @ \cup latest,
                             ![p].blocked = @ \cup dni]
    BY DEF PlanSource
<1>3. /\ \A row \in latest : row.source = src /\ <<src, KeyOf(row)>> \notin dni
      /\ \A entry \in dni : entry[1] = src
    OBVIOUS
<1> HIDE DEF mine, dni, free
<1> DEFINE n1 == [q EXCEPT !.toPlan = @ \ {src}]
           n2 == [n1 EXCEPT !.toWrite = @ \cup latest]
           n3 == [n2 EXCEPT !.blocked = @ \cup dni]
<1>4. sync' = [sync EXCEPT ![p] = n3]
    BY <1>1, <1>2 DEF ImportTypeOK
<1>5. /\ n3.pc = q.pc /\ n3.dry_run = q.dry_run /\ n3.toMark = q.toMark /\ n3.sources = q.sources
      /\ n3.toPlan = q.toPlan \ {src} /\ n3.toWrite = q.toWrite \cup latest
      /\ n3.blocked = q.blocked \cup dni
    BY <1>1 DEF SyncState
<1> HIDE DEF q, n3
<1>6. PlanOK(n3)
  <2>1. ASSUME NEW row \in n3.toWrite
        PROVE  row.source \notin n3.toPlan /\ <<row.source, KeyOf(row)>> \notin n3.blocked
    <3>1. CASE row \in q.toWrite
      <4>1. row.source # src /\ row.source \notin q.toPlan /\ <<row.source, KeyOf(row)>> \notin q.blocked
          BY <1>1, <3>1 DEF PlanOK
      <4>2. <<row.source, KeyOf(row)>> \notin dni
          BY <1>3, <4>1
      <4> QED
          BY <1>5, <4>1, <4>2
    <3>2. CASE row \in latest
      <4>1. row.source = src /\ <<row.source, KeyOf(row)>> \notin dni
          BY <1>3, <3>2
      <4>2. <<row.source, KeyOf(row)>> \notin q.blocked
          BY <1>1, <4>1 DEF PlanOK
      <4> QED
          BY <1>5, <4>1, <4>2
    <3> QED
        BY <1>5, <3>1, <3>2
  <2>2. ASSUME NEW entry \in n3.blocked
        PROVE  entry[1] \notin n3.toPlan
      BY <1>1, <1>3, <1>5 DEF PlanOK
  <2> QED
      BY <1>1, <1>5, <2>1, <2>2 DEF PlanOK
<1> QED
    BY <1>4, <1>6, OnePlanMoves

LEMMA ImportKeepsPlans ==
    ASSUME ImportTypeOK, PlansInv, ImportNext
    PROVE  PlansInv'
<1> SUFFICES ASSUME NEW p \in Syncs, SyncArrival(p) \/ SyncStep(p)
             PROVE  PlansInv'
    BY DEF ImportNext
<1> DEFINE q == sync[p]
<1>1. ImportTypeOK /\ q \in SyncState /\ PlanOK(q) /\ sync \in [Syncs -> SyncState]
    BY DEF ImportTypeOK, PlansInv
<1>2. End(p) => PlansInv'
    BY <1>1, IdlePlanOK, OnePlanMoves DEF End
<1>3. CASE AcquireLock(p)
    BY <1>1, <1>3, IdlePlanOK, OnePlanMoves DEF AcquireLock
<1>4. CASE BadBatch(p) \/ FinishSync(p) \/ SyncFails(p)
    BY <1>2, <1>4 DEF BadBatch, FinishSync, SyncFails
<1>5. ASSUME NEW batch \in Batches, ReadBatch(p, batch)
      PROVE  PlansInv'
  <2> DEFINE sources == SourcesInSync(batch, p \in Scripts)
             n == [IdleSync EXCEPT !.pc = "plan", !.dry_run = batch.dry_run,
                                   !.mark_missing = batch.mark_missing,
                                   !.rows = ValidRows(batch), !.sources = sources,
                                   !.toPlan = sources, !.now = clock]
  <2>1. n.pc = "plan" /\ n.toMark = {} /\ n.toWrite = {} /\ n.blocked = {}
      BY DEF IdleSync
  <2>2. sync' = [sync EXCEPT ![p] = n]
      BY <1>5 DEF ReadBatch
  <2> HIDE DEF n
  <2>3. PlanOK(n)
      BY <2>1 DEF PlanOK
  <2> QED
      BY <1>1, <2>2, <2>3, OnePlanMoves
<1>6. ASSUME NEW src \in Sources, MarkMissing(p, src)
      PROVE  PlansInv'
  <2> DEFINE n == [q EXCEPT !.toMark = @ \ {src}]
  <2>1. sync' = [sync EXCEPT ![p] = n]
      BY <1>1, <1>6 DEF MarkMissing
  <2>2. PlanOK(n)
      BY <1>1 DEF PlanOK, SyncState
  <2> QED
      BY <1>1, <2>1, <2>2, OnePlanMoves
<1>7. ASSUME NEW row \in q.toWrite, Upsert(p, row)
      PROVE  PlansInv'
  <2> DEFINE n == [q EXCEPT !.toWrite = @ \ {row}]
  <2>1. sync' = [sync EXCEPT ![p] = n] \/ End(p)
      BY <1>1, <1>7 DEF Upsert
  <2>2. PlanOK(n)
      BY <1>1 DEF PlanOK, SyncState
  <2> QED
      BY <1>1, <1>2, <2>1, <2>2, OnePlanMoves
<1>8. CASE FinishPlan(p)
  <2> DEFINE marks == IF q.mark_missing THEN q.sources ELSE {}
             n1 == [q EXCEPT !.pc = "apply"]
             n2 == [n1 EXCEPT !.toMark = marks]
  <2>1. End(p) \/ (~q.dry_run /\ sync' = [sync EXCEPT ![p] = n2])
      BY <1>1, <1>8 DEF FinishPlan
  <2>2. /\ n2.pc = "apply" /\ n2.toMark = marks /\ n2.dry_run = q.dry_run /\ n2.sources = q.sources
        /\ n2.toPlan = q.toPlan /\ n2.toWrite = q.toWrite /\ n2.blocked = q.blocked
      BY <1>1 DEF SyncState
  <2> HIDE DEF n2, q
  <2>3. ~q.dry_run => PlanOK(n2)
      BY <1>1, <2>2 DEF PlanOK
  <2> QED
      BY <1>1, <1>2, <2>1, <2>3, OnePlanMoves
<1> QED
    BY <1>1, <1>3, <1>4, <1>5, <1>6, <1>7, <1>8, PlanningKeepsPlan DEF SyncArrival, SyncStep

LEMMA BoardKeepsPlans ==
    ASSUME ImportTypeOK, PlansInv, [Next]_vars
    PROVE  PlansInv'
<1>1. CASE UNCHANGED importVars
    BY <1>1 DEF PlansInv, importVars
<1>2. CASE Restart
    BY <1>2, IdlePlanOK DEF Restart, ImportRestart, PlansInv
<1> QED
    BY <1>1, <1>2, ImportKeepsPlans DEF Next, vars, importVars

(* The plans are in order in every reachable state. *)
THEOREM PlansInvariant == Spec => []PlansInv
<1>1. Init => PlansInv
    BY IdlePlanOK DEF Init, ImportInit, PlansInv
<1>2. OwnershipInv /\ PlansInv /\ [Next]_vars => PlansInv'
    BY BoardKeepsPlans DEF OwnershipInv, TypeOK
<1> QED
    BY <1>1, <1>2, OwnershipInvariant, PTL DEF Spec

(* No sync brings back an endpoint that was on the do-not-import list when *)
(* it was planned, however long it waited before it wrote.                 *)
THEOREM PlannedRemovalsStay == Spec => PlannedRemovalsAreHonored
<1>1. OwnershipInv /\ PlansInv /\ [Next]_vars => [PlannedRemovalHonored]_vars
  <2> SUFFICES ASSUME OwnershipInv, PlansInv, Statement,
                      NEW i \in Ids, listings[i] = Fresh, Exists(i)', ~listings'[i].claimed
               PROVE  \E p \in Syncs : /\ sync[p].pc = "apply"
                                       /\ SourceSlot(listings'[i]) \notin sync[p].blocked
      BY StepIsStatement DEF PlannedRemovalHonored
  <2>1. listings'[i] \notin {Fresh, Gone} /\ listings[i] \notin OwnedRows
        /\ listings \in [Ids -> OwnedRows \cup {Fresh, Gone}]
      BY InvFacts, OwnedRowIsRow DEF Exists
  <2>2. ASSUME NEW id \in Ids, NEW row, SetsRow(id, row)
        PROVE  i = id /\ listings'[i] = row
      BY <2>1, <2>2 DEF SetsRow
  <2>3. ~Inserts
    <3> SUFFICES ASSUME Inserts PROVE FALSE
        OBVIOUS
    <3>1. PICK id \in Ids : id = NewId
        BY NewIdIsFresh DEF Inserts
    <3>2. PICK p \in Payloads, now \in Time : SetsRow(id, CreatedRow(p, now))
        BY <3>1 DEF Inserts
    <3> QED
        BY <2>2, <3>2, CreatedRowIsRow
  <2>4. ~Claims /\ ~Removes /\ ~Beats /\ ~\E r \in Requests : Updates(r)
      BY <2>1, <2>2 DEF Claims, Removes, Beats, Updates, Owned, OwnedAndClaimed
  <2>5. ~Purges /\ ~Marks /\ listings' # listings
      BY <2>1 DEF Purges, PurgeSets, Expired, Purged, Marks, RowsOf
  <2>6. PICK p \in Syncs, row \in PlannedRows, now \in Time :
            /\ row \in sync[p].toWrite /\ Upsert(p, row)
            /\ HasNewId \/ SourceConflict(row.source, row.rec) # {}
            /\ listings' = UpsertedTable(row, now)
      BY <2>3, <2>4, <2>5 DEF Statement, Upserts
  <2>7. SourceConflict(row.source, row.rec) = {}
    <3> SUFFICES ASSUME SourceConflict(row.source, row.rec) # {} PROVE FALSE
        OBVIOUS
    <3>1. i \notin SourceConflict(row.source, row.rec)
        BY DEF SourceConflict, RowsOf
    <3> QED
        BY <2>1, <2>6, <3>1 DEF UpsertedTable
  <2>8. listings'[i] = ImportedRow(row.rec, row.source, now)
    <3>1. PICK id \in Ids : id = NewId
        BY <2>6, <2>7, NewIdIsFresh
    <3>2. SetsRow(id, ImportedRow(row.rec, row.source, now))
        BY <2>6, <2>7, <3>1 DEF UpsertedTable, SetsRow
    <3> QED
        BY <2>2, <3>2
  <2>9. SourceSlot(listings'[i]) = <<row.source, KeyOf(row)>>
      BY <2>8 DEF SourceSlot, ImportedRow, KeyOf
  <2>10. sync[p].pc = "apply" /\ <<row.source, KeyOf(row)>> \notin sync[p].blocked
      BY <2>6 DEF Upsert, PlansInv, PlanOK
  <2> QED
      BY <2>9, <2>10
<1> QED
    BY <1>1, OwnershipInvariant, PlansInvariant, PTL DEF Spec, PlannedRemovalsAreHonored

LEMMA OtherWritesDontMark ==
    ASSUME NEW row \in Row, NEW now \in Time
    PROVE  /\ \A w \in Wallets : ClaimedRow(row, w, now).missing = row.missing
           /\ \A patch \in Patches \cup {DeactivatePatch} : UpdatedRow(row, patch, now).missing = row.missing
           /\ [row EXCEPT !.last_seen_at = now].missing = row.missing
           /\ \A rec \in RecordType : ~RefreshedRow(row, rec).missing
<1>1. \A w \in Wallets : ClaimedRow(row, w, now).missing = row.missing
    BY DEF ClaimedRow, Row
<1>2. \A patch \in Patches \cup {DeactivatePatch} : UpdatedRow(row, patch, now).missing = row.missing
    BY UpdatedRowKeepsOwner
<1>3. [row EXCEPT !.last_seen_at = now].missing = row.missing
    BY DEF Row
<1>4. \A rec \in RecordType : ~RefreshedRow(row, rec).missing
    BY DEF RefreshedRow, Row
<1> QED
    BY <1>1, <1>2, <1>3, <1>4

(* A row gets its missing mark only from a sync's marking. *)
LEMMA OnlyMarksMark ==
    ASSUME OwnershipInv, Statement, ~Marks, NEW i \in Ids, Exists(i), Exists(i)',
           ~listings[i].missing, listings'[i].missing
    PROVE  FALSE
<1>1. /\ listings \in [Ids -> OwnedRows \cup {Fresh, Gone}]
      /\ listings[i] \in OwnedRows /\ listings[i] \in Row /\ listings'[i] \notin {Fresh, Gone}
    BY InvFacts, OwnedRowIsRow DEF Exists
<1>2. ASSUME NEW id \in Ids, NEW row, SetsRow(id, row)
      PROVE  i = id /\ row.missing
    BY <1>1, <1>2 DEF SetsRow
<1>3. ~Inserts
  <2> SUFFICES ASSUME Inserts PROVE FALSE
      OBVIOUS
  <2>1. PICK id \in Ids : id = NewId /\ listings[id] = Fresh
      BY NewIdIsFresh DEF Inserts
  <2>2. PICK p \in Payloads, now \in Time : SetsRow(id, CreatedRow(p, now))
      BY <2>1 DEF Inserts
  <2> QED
      BY <1>1, <1>2, <2>1, <2>2, OwnedRowIsRow
<1>4. ~Claims
    BY <1>1, <1>2, OtherWritesDontMark DEF Claims
<1>5. ~Beats
  <2> SUFFICES ASSUME NEW id \in Ids, NEW now \in Time, SetsRow(id, [listings[id] EXCEPT !.last_seen_at = now])
               PROVE  FALSE
      BY DEF Beats
  <2> DEFINE beaten == [listings[id] EXCEPT !.last_seen_at = now]
  <2>1. SetsRow(id, beaten)
      OBVIOUS
  <2>2. i = id /\ beaten.missing
    <3> HIDE DEF beaten
    <3> QED
        BY <1>2, <2>1
  <2> QED
      BY <1>1, <2>2, OtherWritesDontMark
<1>6. ~Purges /\ ~Removes /\ listings' # listings
    BY <1>1 DEF Purges, Purged, Removes, SetsRow
<1>7. ~\E r \in Requests : Updates(r)
  <2> SUFFICES ASSUME NEW id \in Ids, NEW now \in Time, NEW patch \in Patches \cup {DeactivatePatch},
                      SetsRow(id, UpdatedRow(listings[id], patch, now))
               PROVE  FALSE
      BY DEF Updates, OwnedAndClaimed, Owned
  <2> QED
      BY <1>1, <1>2, OtherWritesDontMark
<1>8. ~Upserts
  <2> SUFFICES ASSUME NEW row \in PlannedRows, NEW now \in Time,
                      HasNewId \/ SourceConflict(row.source, row.rec) # {},
                      listings' = UpsertedTable(row, now)
               PROVE  FALSE
      BY DEF Upserts
  <2>1. CASE SourceConflict(row.source, row.rec) = {}
    <3>1. PICK id \in Ids : id = NewId /\ listings[id] = Fresh
        BY <2>1, NewIdIsFresh
    <3>2. SetsRow(id, ImportedRow(row.rec, row.source, now))
        BY <2>1, <3>1 DEF UpsertedTable, SetsRow
    <3> QED
        BY <1>1, <1>2, <3>1, <3>2, OwnedRowIsRow
  <2>2. CASE SourceConflict(row.source, row.rec) # {}
    <3>1. listings'[i] = listings[i] \/ listings'[i] = RefreshedRow(listings[i], row.rec)
        BY <2>2 DEF UpsertedTable
    <3>2. ~RefreshedRow(listings[i], row.rec).missing
        BY <1>1, OtherWritesDontMark DEF PlannedRows
    <3> QED
        BY <3>1, <3>2
  <2> QED
      BY <2>1, <2>2
<1> QED
    BY <1>3, <1>4, <1>5, <1>6, <1>7, <1>8 DEF Statement

(* A listing is marked missing only by a sync that wrote all of its batch  *)
(* and does not have it.                                                   *)
THEOREM MarksFollowWholeBatches == Spec => MarksAreJustified
<1>1. OwnershipInv /\ PlansInv /\ [Next]_vars => [MarkedOnlyWhenAbsent]_vars
  <2> SUFFICES ASSUME OwnershipInv, PlansInv, Statement,
                      NEW i \in Ids, Exists(i), Exists(i)', ~listings[i].missing, listings'[i].missing
               PROVE  \E p \in Syncs :
                        /\ sync[p].pc = "apply" /\ ~sync[p].dry_run /\ sync[p].toWrite = {}
                        /\ listings[i].source \in sync[p].sources
                        /\ listings[i].endpoint_key \notin SeenKeys(p, listings[i].source)
      BY StepIsStatement DEF MarkedOnlyWhenAbsent
  <2>1. PICK p \in Syncs, src \in Sources : MarkMissing(p, src)
      BY OnlyMarksMark DEF Marks
  <2>2. i \in MissingFrom(src, SeenKeys(p, src))
      BY <2>1, InvFacts DEF MarkMissing
  <2>3. sync[p].pc = "apply" /\ sync[p].toWrite = {} /\ src \in sync[p].toMark
      BY <2>1 DEF MarkMissing
  <2>4. ~sync[p].dry_run /\ src \in sync[p].sources
      BY <2>3 DEF PlansInv, PlanOK
  <2> QED
      BY <2>2, <2>3, <2>4 DEF MissingFrom
<1> QED
    BY <1>1, OwnershipInvariant, PlansInvariant, PTL DEF Spec, MarksAreJustified

=============================================================================
