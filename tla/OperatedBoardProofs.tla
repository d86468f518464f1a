------------------------- MODULE OperatedBoardProofs -------------------------
(***************************************************************************)
(* Proofs about the board while an operator works on the same database.    *)
(* Who owns a listing is not certain there: an edit may give it to anybody *)
(* while its owner's PATCH is in flight.  What a row keeps whoever writes  *)
(* it is proved without it, from an invariant of its own.                  *)
(***************************************************************************)
EXTENDS OperatedBoard, BoardProofs

USE DEF Time, NoTime

-----------------------------------------------------------------------------
(* The invariant. *)

(* A row on which every write path has done its part.                      *)
KeptRow ==
    {row \in Row : KeyFollows(row) /\ NameKept(row) /\ (~row.claimed => row.source # NoSource)}

(* What a handler in flight holds, and what of it is still true of its row *)
(* whoever owns that by now.                                               *)
InFlight(T, q) ==
    /\ q.op = "create" => q.args \in Payloads
    /\ q.op = "patch" => q.args \in Patches
    /\ q.op = "delete" => q.args = DeactivatePatch
    /\ q.op = "claim" => q.snap \in Snapshot /\ q.snap.payment_wallet \in Wallets
    /\ q.op \notin {"none", "create"} => q.id \in Ids /\ T[q.id] # Fresh
    /\ NameFits(T, q)

(* And a command at its prompt; t is the time.                             *)
Prompted(T, t, k) ==
    /\ k.cmd = "edit" =>
         /\ k.id \in Ids /\ T[k.id] # Fresh
         /\ \A c \in DOMAIN k.set : c \in EDITABLE_FIELDS /\ k.set[c] \in EditType[c]
         /\ "test_name" \in DOMAIN k.set => T[k.id] = Gone \/ T[k.id].is_test = k.set["test_name"]
    /\ k.cmd = "delete" => k.id \in Ids
    /\ k.cmd = "purge" => k.cutoff \in Int /\ \E age \in PurgeAges : k.cutoff <= t - age

KeptTables == [Ids -> KeptRow \cup {Fresh, Gone}]

RequestsHold(T, R) == R \in [Requests -> RequestState] /\ \A r \in Requests : InFlight(T, R[r])
CommandsHold(T, t, C) == DOMAIN C = Operators /\ \A s \in Operators : Prompted(T, t, C[s])

OperatedInv ==
    /\ listings \in KeptTables /\ doNotImport \subseteq Sources \X Keys /\ clock \in Time
    /\ lastPurge \in Time \cup {NoTime} /\ ImportTypeOK
    /\ RequestsHold(listings, req)
    /\ CommandsHold(listings, clock, command)

-----------------------------------------------------------------------------
(* What a step may do to a row, and to the table. *)

StaysKept(a, b) ==
    /\ b \in KeptRow /\ b.is_test = a.is_test
    /\ \/ b.last_seen_at = a.last_seen_at
       \/ \E now \in Time : HeartbeatAllowed(a, now) /\ b.last_seen_at = now

RowMoves(a, b) ==
    \/ b = a
    \/ a = Fresh /\ b \in KeptRow
    \/ a \in KeptRow /\ b = Gone
    \/ a \in KeptRow /\ StaysKept(a, b)

TableMoves(T, U) == U \in KeptTables /\ \A i \in Ids : RowMoves(T[i], U[i])

(* A step of the board or of an operator. *)
Moves == TableMoves(listings, listings') /\ RemovalWarranted

LEMMA KeptIsRow ==
    ASSUME NEW row \in KeptRow
    PROVE  row \in Row /\ row # Fresh /\ row # Gone
    BY SentinelAssumption DEF KeptRow

LEMMA MovesKeepInFlight ==
    ASSUME NEW T \in KeptTables, NEW U, TableMoves(T, U), NEW q, InFlight(T, q)
    PROVE  InFlight(U, q)
<1>1. ASSUME NEW i \in Ids, T[i] # Fresh
      PROVE  /\ U[i] # Fresh
             /\ U[i] = Gone \/ (T[i] # Gone /\ U[i].is_test = T[i].is_test)
    BY <1>1, KeptIsRow, SentinelAssumption DEF TableMoves, RowMoves, StaysKept, KeptTables
<1>2. NameFits(U, q)
    BY <1>1 DEF InFlight, NameFits
<1> QED
    BY <1>1, <1>2 DEF InFlight

LEMMA MovesKeepPrompted ==
    ASSUME NEW T \in KeptTables, NEW U, TableMoves(T, U), NEW t \in Time, NEW u \in Time, t <= u,
           NEW k, Prompted(T, t, k)
    PROVE  Prompted(U, u, k)
<1>1. ASSUME NEW i \in Ids, T[i] # Fresh
      PROVE  /\ U[i] # Fresh
             /\ U[i] = Gone \/ (T[i] # Gone /\ U[i].is_test = T[i].is_test)
    BY <1>1, KeptIsRow, SentinelAssumption DEF TableMoves, RowMoves, StaysKept, KeptTables
<1>2. ASSUME k.cmd = "purge"
      PROVE  k.cutoff \in Int /\ \E age \in PurgeAges : k.cutoff <= u - age
  <2>1. PICK age \in PurgeAges : k.cutoff \in Int /\ k.cutoff <= t - age
      BY <1>2 DEF Prompted
  <2>2. age \in Nat
      BY OperatorAssumption
  <2>3. k.cutoff <= u - age
      BY <2>1, <2>2, StoreAssumption
  <2> QED
      BY <2>1, <2>3
<1> QED
    BY <1>1, <1>2 DEF Prompted

-----------------------------------------------------------------------------
(* What the statements do to one row. *)

LEMMA BornRowsAreKept ==
    ASSUME NEW now \in Time
    PROVE  /\ \A p \in Payloads : CreatedRow(p, now) \in KeptRow
           /\ \A rec \in RecordType, src \in Sources : ImportedRow(rec, src, now) \in KeptRow
<1>1. ASSUME NEW p \in Payloads PROVE CreatedRow(p, now) \in KeptRow
    BY CreatedRowIsRow, OtherRowsKey, RowNames DEF KeptRow
<1>2. ASSUME NEW rec \in RecordType, NEW src \in Sources PROVE ImportedRow(rec, src, now) \in KeptRow
    BY ImportedRowIsRow, OtherRowsKey, RowNames, StoreAssumption DEF KeptRow
<1> QED
    BY <1>1, <1>2

LEMMA ClaimKeeps ==
    ASSUME NEW row \in KeptRow, NEW w \in Wallets, NEW now \in Time
    PROVE  StaysKept(row, ClaimedRow(row, w, now))
<1>1. row \in Row /\ KeyFollows(row) /\ NameKept(row)
    BY DEF KeptRow
<1>2. ClaimedRow(row, w, now) \in Row /\ KeyFollows(ClaimedRow(row, w, now)) /\ ClaimedRow(row, w, now).claimed
    BY <1>1, ClaimedRowIsRow, OtherRowsKey
<1>3. /\ ClaimedRow(row, w, now).is_test = row.is_test
      /\ ClaimedRow(row, w, now).test_name = row.test_name
      /\ ClaimedRow(row, w, now).source = row.source
      /\ ClaimedRow(row, w, now).last_seen_at = row.last_seen_at
    BY <1>1 DEF ClaimedRow, Row
<1>4. NameKept(ClaimedRow(row, w, now))
    BY <1>1, <1>3 DEF NameKept
<1> QED
    BY <1>2, <1>3, <1>4 DEF StaysKept, KeptRow

(* An UPDATE whose name, if it has one, fits. *)
LEMMA UpdateKeeps ==
    ASSUME NEW row \in KeptRow, NEW patch, NEW now \in Time,
           \A c \in DOMAIN patch : c \in DOMAIN PatchType => patch[c] \in PatchType[c],
           "test_name" \in DOMAIN patch => patch["test_name"] = row.is_test
    PROVE  StaysKept(row, UpdatedRow(row, patch, now))
<1> DEFINE b == UpdatedRow(row, patch, now)
<1>1. row \in Row /\ KeyFollows(row) /\ NameKept(row) /\ (~row.claimed => row.source # NoSource)
    BY DEF KeptRow
<1>2. /\ b \in Row /\ b.claimed = row.claimed /\ b.source = row.source /\ b.is_test = row.is_test
      /\ b.last_seen_at = row.last_seen_at
    BY <1>1, SetClauseKeepsOwner
<1>3. /\ b.test_name = Merged(patch, row, "test_name")
      /\ b.endpoint_url = Merged(patch, row, "endpoint_url")
      /\ b.endpoint_key = MergedKey(patch, row)
    BY <1>1, <1>2 DEF UpdatedRow, Row
<1> HIDE DEF b
<1>4. KeyFollows(b)
    BY <1>1, <1>3 DEF KeyFollows, Merged, MergedKey
<1>5. NameKept(b)
    BY <1>1, <1>2, <1>3 DEF NameKept, Merged
<1>6. b \in KeptRow
    BY <1>1, <1>2, <1>4, <1>5 DEF KeptRow
<1> QED
    BY <1>2, <1>6 DEF StaysKept, b

LEMMA PatchKeeps ==
    ASSUME NEW row \in KeptRow, NEW patch \in Patches \cup {DeactivatePatch}, NEW now \in Time,
           "test_name" \in DOMAIN patch => patch["test_name"] = row.is_test
    PROVE  StaysKept(row, UpdatedRow(row, patch, now))
<1>1. \A c \in DOMAIN patch : c \in DOMAIN PatchType => patch[c] \in PatchType[c]
    BY RoutesAssumption DEF DeactivatePatch, PatchType
<1> QED
    BY <1>1, UpdateKeeps

(* An operator's SET clause may name an owner as well.                     *)
LEMMA EditKeeps ==
    ASSUME NEW row \in KeptRow, NEW s \in Operators, clock \in Time,
           \A c \in DOMAIN command[s].set : c \in EDITABLE_FIELDS /\ command[s].set[c] \in EditType[c],
           "test_name" \in DOMAIN command[s].set => command[s].set["test_name"] = row.is_test
    PROVE  StaysKept(row, EditedRow(s, row))
<1> DEFINE patch == command[s].set
           b == UpdatedRow(row, patch, clock)
           owner == Merged(patch, row, "submitted_by")
           e == [b EXCEPT !.submitted_by = owner]
<1>1. \A c \in DOMAIN patch : c \in DOMAIN PatchType => patch[c] \in PatchType[c]
    BY DEF PatchType, EditType, EDITABLE_FIELDS
<1>2. owner \in Wallets \cup {Placeholder}
    BY KeptIsRow DEF Merged, EditType, Row
<1> HIDE DEF patch
<1>3. StaysKept(row, b)
    BY <1>1, UpdateKeeps DEF patch
<1> HIDE DEF b, owner
<1>4. b \in Row
    BY <1>3 DEF StaysKept, KeptRow
<1>5. e \in Row
    BY <1>2, <1>4 DEF Row
<1>6. /\ e.endpoint_key = b.endpoint_key /\ e.endpoint_url = b.endpoint_url /\ e.source = b.source
      /\ e.test_name = b.test_name /\ e.is_test = b.is_test /\ e.claimed = b.claimed
      /\ e.last_seen_at = b.last_seen_at
    BY <1>4 DEF Row
<1> HIDE DEF e
<1>7. StaysKept(row, e)
    BY <1>3, <1>5, <1>6 DEF StaysKept, KeptRow, KeyFollows, NameKept
<1>8. EditedRow(s, row) = e
    BY DEF EditedRow, e, b, owner, patch
<1> QED
    BY <1>7, <1>8

LEMMA BeatKeeps ==
    ASSUME NEW row \in KeptRow, NEW now \in Time, HeartbeatAllowed(row, now)
    PROVE  StaysKept(row, [row EXCEPT !.last_seen_at = now])
<1> DEFINE b == [row EXCEPT !.last_seen_at = now]
<1>1. row \in Row /\ KeyFollows(row) /\ NameKept(row) /\ (~row.claimed => row.source # NoSource)
    BY DEF KeptRow
<1>2. b \in Row /\ KeyFollows(b)
    BY <1>1, SetColumn, OtherRowsKey
<1>3. /\ b.claimed = row.claimed /\ b.source = row.source /\ b.is_test = row.is_test
      /\ b.test_name = row.test_name /\ b.last_seen_at = now
    BY <1>1 DEF Row
<1> HIDE DEF b
<1>4. b \in KeptRow
    BY <1>1, <1>2, <1>3 DEF KeptRow, NameKept
<1> QED
    BY <1>3, <1>4 DEF StaysKept, b

LEMMA MarkKeeps ==
    ASSUME NEW row \in KeptRow
    PROVE  StaysKept(row, [row EXCEPT !.missing = TRUE])
<1> DEFINE b == [row EXCEPT !.missing = TRUE]
<1>1. row \in Row /\ KeyFollows(row) /\ NameKept(row) /\ (~row.claimed => row.source # NoSource)
    BY DEF KeptRow
<1>2. b \in Row
    BY <1>1, SetColumn
<1>3. /\ b.claimed = row.claimed /\ b.source = row.source /\ b.is_test = row.is_test
      /\ b.test_name = row.test_name /\ b.last_seen_at = row.last_seen_at
      /\ b.endpoint_key = row.endpoint_key /\ b.endpoint_url = row.endpoint_url
    BY <1>1 DEF Row
<1> HIDE DEF b
<1>4. b \in KeptRow
    BY <1>1, <1>2, <1>3 DEF KeptRow, NameKept, KeyFollows
<1> QED
    BY <1>3, <1>4 DEF StaysKept, b

LEMMA RefreshKeeps ==
    ASSUME NEW row \in KeptRow, NEW rec \in RecordType, row.endpoint_key = Normalize[rec.endpoint_url]
    PROVE  StaysKept(row, RefreshedRow(row, rec))
<1> DEFINE b == RefreshedRow(row, rec)
<1>1. row \in Row /\ KeyFollows(row) /\ NameKept(row) /\ (~row.claimed => row.source # NoSource)
    BY DEF KeptRow
<1>2. /\ b \in Row /\ b.claimed = row.claimed /\ b.source = row.source
      /\ b.last_seen_at = row.last_seen_at
    BY <1>1, RefreshedRowKeepsOwner
<1>3. b.is_test = row.is_test /\ (row.claimed => b.test_name = row.test_name)
    BY <1>1 DEF RefreshedRow, Row
<1>4. KeyFollows(b)
    BY <1>1, RefreshedRowKey
<1> HIDE DEF b
<1>5. b \in KeptRow
    BY <1>1, <1>2, <1>3, <1>4 DEF KeptRow, NameKept
<1> QED
    BY <1>2, <1>3, <1>5 DEF StaysKept, b

-----------------------------------------------------------------------------
(* What the statements do to the table. *)

LEMMA OperatedFacts ==
    ASSUME OperatedInv
    PROVE  /\ listings \in KeptTables /\ doNotImport \subseteq Sources \X Keys /\ clock \in Time
           /\ lastPurge \in Time \cup {NoTime} /\ ImportTypeOK
           /\ RequestsHold(listings, req) /\ CommandsHold(listings, clock, command)
           /\ \A i \in Ids : Exists(i) => listings[i] \in KeptRow /\ listings[i] \in Row
           /\ TableMoves(listings, listings)
<1>1. \A i \in Ids : Exists(i) => listings[i] \in KeptRow
    BY DEF OperatedInv, KeptTables, Exists
<1> QED
    BY <1>1, KeptIsRow DEF OperatedInv, TableMoves, RowMoves

LEMMA SameTableMoves ==
    ASSUME OperatedInv, listings' = listings
    PROVE  Moves
    BY OperatedFacts DEF Moves, RemovalWarranted, Exists

(* Rows change, and none is taken away. *)
LEMMA RowsMove ==
    ASSUME OperatedInv, listings' \in [Ids -> KeptRow \cup {Fresh, Gone}],
           \A i \in Ids : RowMoves(listings[i], listings'[i]) /\ (listings'[i] = Gone => listings[i] = Gone)
    PROVE  Moves
<1>1. listings' \in KeptTables
    BY DEF KeptTables
<1>2. \A i \in Ids : listings'[i] # Fresh \/ listings[i] = Fresh
    BY SentinelAssumption, KeptIsRow DEF RowMoves, StaysKept
<1>3. RemovalWarranted
    BY <1>2 DEF RemovalWarranted, Exists
<1> QED
    BY <1>1, <1>3 DEF Moves, TableMoves

LEMMA RowMovesTable ==
    ASSUME OperatedInv, NEW id \in Ids, NEW b, SetsRow(id, b),
           \/ listings[id] = Fresh /\ b \in KeptRow
           \/ listings[id] \in KeptRow /\ StaysKept(listings[id], b)
    PROVE  Moves
<1>1. listings' = [i \in Ids |-> IF i = id THEN b ELSE listings[i]]
    BY OperatedFacts DEF SetsRow, KeptTables
<1>2. listings' \in [Ids -> KeptRow \cup {Fresh, Gone}]
    BY <1>1, OperatedFacts DEF KeptTables, StaysKept
<1> QED
    BY <1>1, <1>2, OperatedFacts, SentinelAssumption, KeptIsRow, RowsMove DEF RowMoves, StaysKept

(* Rows are taken away for a reason. *)
MayGo(i) ==
    \/ ~listings[i].is_test /\ listings[i].status = "inactive"
    \/ SourceSlot(listings[i]) \in doNotImport'
    \/ /\ listings[i].is_test
       /\ \/ listings[i].created_at < clock - TestTTL
          \/ \E s \in Operators, age \in PurgeAges :
               Waiting(s, "purge") /\ listings[i].created_at < clock - age
          \/ listings[i].status = "inactive"

LEMMA RowsGo ==
    ASSUME OperatedInv, NEW D \in SUBSET Ids, listings' = [i \in Ids |-> IF i \in D THEN Gone ELSE listings[i]],
           \A i \in D : Exists(i) /\ MayGo(i)
    PROVE  Moves
<1>1. \A i \in Ids : RowMoves(listings[i], listings'[i])
    BY OperatedFacts DEF RowMoves
<1>2. listings' \in KeptTables
    BY OperatedFacts DEF KeptTables
<1>3. \A i \in Ids : Exists(i) /\ ~Exists(i)' => i \in D
    BY DEF Exists
<1>4. RemovalWarranted
    BY <1>3 DEF RemovalWarranted, MayGo
<1> QED
    BY <1>1, <1>2, <1>4 DEF Moves, TableMoves

LEMMA PurgeMoves ==
    ASSUME OperatedInv, NEW D \in PurgeSets, listings' = Purged(D)
    PROVE  Moves
<1>1. D \subseteq Expired
    BY DEF PurgeSets
<1>2. \A i \in D : /\ i \in Ids /\ Exists(i) /\ MayGo(i)
                   /\ listings[i].is_test /\ listings[i].created_at < clock - TestTTL
    BY <1>1 DEF Expired, RowsOf, Exists, MayGo
<1>3. D \in SUBSET Ids
    BY <1>2
<1>4. listings' = [i \in Ids |-> IF i \in D THEN Gone ELSE listings[i]]
    BY DEF Purged
<1> QED
    BY <1>2, <1>3, <1>4, RowsGo

LEMMA UpsertMoves ==
    ASSUME OperatedInv, NEW row \in PlannedRows, NEW now \in Time,
           HasNewId \/ SourceConflict(row.source, row.rec) # {}, listings' = UpsertedTable(row, now)
    PROVE  Moves
<1> DEFINE held == SourceConflict(row.source, row.rec)
<1>1. row.rec \in RecordType /\ row.source \in Sources
    BY DEF PlannedRows
<1>2. CASE held = {}
  <2>1. PICK id \in Ids : id = NewId /\ listings[id] = Fresh
      BY <1>2, NewIdIsFresh
  <2>2. SetsRow(id, ImportedRow(row.rec, row.source, now))
      BY <1>2, <2>1 DEF UpsertedTable, SetsRow
  <2>3. ImportedRow(row.rec, row.source, now) \in KeptRow
      BY <1>1, BornRowsAreKept
  <2> QED
      BY <2>1, <2>2, <2>3, RowMovesTable
<1>3. CASE held # {}
  <2>1. listings' = [i \in Ids |-> IF i \in held THEN RefreshedRow(listings[i], row.rec) ELSE listings[i]]
      BY <1>3 DEF UpsertedTable
  <2>2. ASSUME NEW i \in held
        PROVE  listings[i] \in KeptRow /\ StaysKept(listings[i], RefreshedRow(listings[i], row.rec))
    <3>1. i \in Ids /\ Exists(i) /\ listings[i].endpoint_key = Normalize[row.rec.endpoint_url]
        BY <2>2 DEF SourceConflict, RowsOf, Exists, SourceSlot
    <3>2. listings[i] \in KeptRow
        BY <3>1, OperatedFacts
    <3> QED
        BY <1>1, <3>1, <3>2, RefreshKeeps
  <2> HIDE DEF held
  <2>3. listings' \in [Ids -> KeptRow \cup {Fresh, Gone}]
      BY <2>1, <2>2, OperatedFacts DEF KeptTables, StaysKept
  <2> QED
      BY <2>1, <2>2, <2>3, SentinelAssumption, KeptIsRow, RowsMove DEF RowMoves, StaysKept
<1> QED
    BY <1>2, <1>3

LEMMA MarkMoves ==
    ASSUME OperatedInv, NEW p \in Syncs, NEW src \in Sources, MarkMissing(p, src)
    PROVE  Moves
<1> DEFINE gone == MissingFrom(src, SeenKeys(p, src))
<1>1. listings' = [i \in Ids |-> IF i \in gone THEN [listings[i] EXCEPT !.missing = TRUE] ELSE listings[i]]
    BY DEF MarkMissing
<1>2. ASSUME NEW i \in gone
      PROVE  listings[i] \in KeptRow /\ StaysKept(listings[i], [listings[i] EXCEPT !.missing = TRUE])
  <2>1. i \in Ids /\ Exists(i)
      BY <1>2 DEF MissingFrom, RowsOf, Exists
  <2> QED
      BY <2>1, OperatedFacts, MarkKeeps
<1> HIDE DEF gone
<1>3. listings' \in [Ids -> KeptRow \cup {Fresh, Gone}]
    BY <1>1, <1>2, OperatedFacts DEF KeptTables, StaysKept
<1> QED
    BY <1>1, <1>2, <1>3, SentinelAssumption, KeptIsRow, RowsMove DEF RowMoves, StaysKept

-----------------------------------------------------------------------------
(* The handlers. *)

LEMMA IdleIsInFlight ==
    ASSUME NEW T, NEW code \in Codes
    PROVE  /\ IdleRequest \in RequestState /\ InFlight(T, IdleRequest)
           /\ [IdleRequest EXCEPT !.pc = "done", !.resp = code] \in RequestState
           /\ InFlight(T, [IdleRequest EXCEPT !.pc = "done", !.resp = code])
<1> DEFINE q == [IdleRequest EXCEPT !.pc = "done", !.resp = code]
<1>1. IdleRequest \in RequestState /\ q \in RequestState
    BY IdleRequestsOK
<1>2. IdleRequest.op = "none" /\ q.op = "none"
    BY DEF IdleRequest
<1> HIDE DEF q
<1>3. InFlight(T, IdleRequest) /\ InFlight(T, q)
    BY <1>2 DEF InFlight, NameFits
<1> QED
    BY <1>1, <1>3 DEF q

LEMMA RequestsStillHold ==
    ASSUME OperatedInv, TableMoves(listings, listings')
    PROVE  RequestsHold(listings', req)
    BY OperatedFacts, MovesKeepInFlight DEF RequestsHold

LEMMA OneRequestSet ==
    ASSUME OperatedInv, TableMoves(listings, listings'), NEW r \in Requests,
           NEW q \in RequestState, InFlight(listings', q), req' = [req EXCEPT ![r] = q]
    PROVE  RequestsHold(listings', req')
    BY RequestsStillHold DEF RequestsHold

LEMMA AnswerHolds ==
    ASSUME OperatedInv, TableMoves(listings, listings'), NEW r \in Requests, NEW code \in Codes, Respond(r, code)
    PROVE  RequestsHold(listings', req')
    BY IdleIsInFlight, OneRequestSet DEF Respond

LEMMA NextAwaitHolds ==
    ASSUME OperatedInv, TableMoves(listings, listings'), NEW r \in Requests,
           NEW pc \in {"purge", "dup", "write", "clash"}, Goto(r, pc)
    PROVE  RequestsHold(listings', req')
<1> DEFINE q == [req[r] EXCEPT !.pc = pc, !.now = clock]
<1>1. req[r] \in RequestState /\ InFlight(listings', req[r]) /\ clock \in Time
    BY RequestsStillHold, OperatedFacts DEF RequestsHold
<1>2. q \in RequestState
    BY <1>1 DEF RequestState
<1>3. q.op = req[r].op /\ q.id = req[r].id /\ q.args = req[r].args /\ q.snap = req[r].snap
    OBVIOUS
<1>4. req' = [req EXCEPT ![r] = q]
    BY OperatedFacts DEF Goto, RequestsHold
<1> HIDE DEF q
<1>5. InFlight(listings', q)
    BY <1>1, <1>3 DEF InFlight, NameFits
<1> QED
    BY <1>2, <1>4, <1>5, OneRequestSet

(* A handler that passed its checks on listings[id]. *)
LEMMA AdmissionHolds ==
    ASSUME OperatedInv, NEW r \in Requests, NEW op \in OpNames \ {"create"}, NEW id \in Ids,
           NEW w \in Wallets, NEW args, NEW pc \in {"dup", "write"},
           Exists(id), Admit(r, op, id, w, args, pc),
           args \in IF op = "patch" THEN Patches ELSE IF op = "delete" THEN {DeactivatePatch} ELSE {NoArgs},
           op = "claim" => listings[id].payment_wallet \in Wallets,
           op = "patch" /\ "test_name" \in DOMAIN args => listings[id].is_test = args["test_name"],
           UNCHANGED storeVars
    PROVE  RequestsHold(listings', req')
<1> DEFINE q == [pc |-> pc, op |-> op, id |-> id, signer |-> w, args |-> args,
                 snap |-> SnapshotOf(listings[id]), now |-> clock, resp |-> 0]
<1>1. listings[id] \in Row /\ clock \in Time
    BY OperatedFacts
<1>2. SnapshotOf(listings[id]) \in Snapshot
    BY <1>1 DEF SnapshotOf, Snapshot, Row
<1>3. q \in RequestState
    BY <1>1, <1>2 DEF RequestState, Codes
<1>4. SnapshotOf(listings[id]).payment_wallet = listings[id].payment_wallet
    BY DEF SnapshotOf
<1>5. InFlight(listings, q)
    BY <1>2, <1>4 DEF InFlight, NameFits, Exists
<1>6. req' = [req EXCEPT ![r] = q]
    BY DEF Admit
<1>7. listings' = listings /\ TableMoves(listings, listings')
    BY OperatedFacts DEF storeVars
<1> HIDE DEF q
<1> QED
    BY <1>3, <1>5, <1>6, <1>7, OneRequestSet

LEMMA RefusalHolds ==
    ASSUME OperatedInv, NEW r \in Requests, NEW code \in Codes, Respond(r, code), UNCHANGED storeVars
    PROVE  RequestsHold(listings', req')
    BY OperatedFacts, AnswerHolds DEF storeVars

LEMMA ArrivalHolds ==
    ASSUME OperatedInv, NEW r \in Requests, Arrival(r)
    PROVE  RequestsHold(listings', req') /\ UNCHANGED <<storeVars, lastPurge>>
<1> DEFINE Holds == RequestsHold(listings', req') /\ UNCHANGED <<storeVars, lastPurge>>
<1> USE DEF Codes
<1>1. ASSUME NEW p \in Payloads, CreateRefused(r, p)
      PROVE  Holds
    BY <1>1, RefusalHolds DEF CreateRefused
<1>2. ASSUME NEW p \in Payloads, CreateStart(r, p)
      PROVE  Holds
  <2> DEFINE q0 == [IdleRequest EXCEPT !.pc = "purge"]
             q1 == [q0 EXCEPT !.op = "create"]
             q2 == [q1 EXCEPT !.args = p]
  <2>1. IdleRequest \in RequestState
      BY IdleIsInFlight
  <2>2. q0 \in RequestState
      BY <2>1 DEF RequestState
  <2> HIDE DEF q0
  <2>3. q1 \in RequestState /\ q1.op = "create"
      BY <2>2 DEF RequestState, OpNames
  <2> HIDE DEF q1
  <2>4. q2 \in RequestState /\ q2.op = "create" /\ q2.args = p
      BY <2>3 DEF RequestState
  <2>5. req' = [req EXCEPT ![r] = q2]
      BY <1>2 DEF CreateStart, q0, q1
  <2> HIDE DEF q2
  <2>6. InFlight(listings, q2) /\ listings' = listings /\ TableMoves(listings, listings')
      BY <1>2, <2>4, OperatedFacts DEF InFlight, NameFits, CreateStart, storeVars
  <2> QED
      BY <1>2, <2>4, <2>5, <2>6, OneRequestSet DEF CreateStart
<1>3. ASSUME NEW id \in Ids, NEW w \in Wallets, NEW patch \in Patches, PatchRefused(r, id, w, patch)
      PROVE  Holds
    BY <1>3, RefusalHolds DEF PatchRefused, NotFound, Unauthorized
<1>4. ASSUME NEW id \in Ids, NEW w \in Wallets, NEW patch \in Patches, PatchRead(r, id, w, patch)
      PROVE  Holds
  <2>1. \E pc \in {"dup", "write"} : Admit(r, "patch", id, w, patch, pc)
      BY <1>4 DEF PatchRead
  <2>2. "test_name" \in DOMAIN patch => listings[id].is_test = patch["test_name"]
      BY <1>4 DEF PatchRead, PatchInvalid
  <2>3. Exists(id) /\ UNCHANGED <<storeVars, lastPurge>> /\ UNCHANGED storeVars
      BY <1>4 DEF PatchRead
  <2> QED
      BY <2>1, <2>2, <2>3, AdmissionHolds DEF OpNames
<1>5. ASSUME NEW id \in Ids, NEW w \in Wallets,
             \/ DeleteRefused(r, id, w) \/ ClaimRefused(r, id, w)
             \/ RemoveRefused(r, id, w) \/ HeartbeatRefused(r, id, w)
      PROVE  Holds
    BY <1>5, RefusalHolds
    DEF DeleteRefused, ClaimRefused, RemoveRefused, HeartbeatRefused, NotFound, Unauthorized
<1>6. ASSUME NEW id \in Ids, NEW w \in Wallets, DeleteRead(r, id, w)
      PROVE  Holds
    BY <1>6, AdmissionHolds DEF DeleteRead, OpNames
<1>7. ASSUME NEW id \in Ids, NEW w \in Wallets, ClaimRead(r, id, w)
      PROVE  Holds
    BY <1>7, AdmissionHolds DEF ClaimRead, Verified, OpNames
<1>8. ASSUME NEW id \in Ids, NEW w \in Wallets, RemoveRead(r, id, w)
      PROVE  Holds
    BY <1>8, AdmissionHolds DEF RemoveRead, OpNames
<1>9. ASSUME NEW id \in Ids, NEW w \in Wallets, HeartbeatRead(r, id, w)
      PROVE  Holds
    BY <1>9, AdmissionHolds DEF HeartbeatRead, OpNames
<1> QED
    BY <1>1, <1>2, <1>3, <1>4, <1>5, <1>6, <1>7, <1>8, <1>9 DEF Arrival

(* What a handler's statement leaves.                                      *)
LEMMA HandlerMoves ==
    ASSUME OperatedInv, NEW r \in Requests, HandlerStep(r)
    PROVE  /\ Moves /\ RequestsHold(listings', req')
           /\ doNotImport' \subseteq Sources \X Keys /\ clock' = clock /\ lastPurge' \in Time \cup {NoTime}
<1> DEFINE id == req[r].id
<1>1. req[r] \in RequestState /\ InFlight(listings, req[r]) /\ req[r].now \in Time
    BY OperatedFacts DEF RequestsHold, RequestState
<1>2. listings \in [Ids -> KeptRow \cup {Fresh, Gone}]
    BY OperatedFacts DEF KeptTables
<1>3. (\E code \in Codes : Respond(r, code)) \/ (\E pc \in {"purge", "dup", "write", "clash"} : Goto(r, pc))
    BY HandlerAnswers
<1>4. Moves => RequestsHold(listings', req')
    BY <1>3, AnswerHolds, NextAwaitHolds DEF Moves
<1>5. CASE CreatePurge(r)
  <2>1. MaybePurge
      BY <1>5 DEF CreatePurge
  <2>2. UNCHANGED <<doNotImport, clock>> /\ lastPurge' \in Time \cup {NoTime}
      BY <2>1, OperatedFacts DEF MaybePurge, PurgeOrFail, storeVars
  <2>3. listings' = listings \/ \E D \in PurgeSets : listings' = Purged(D)
      BY <2>1 DEF MaybePurge, PurgeOrFail, storeVars
  <2> QED
      BY <1>4, <2>2, <2>3, PurgeMoves, SameTableMoves, OperatedFacts
<1>6. CASE FindDuplicate(r) \/ ReportClash(r)
    BY <1>4, <1>6, SameTableMoves, OperatedFacts DEF FindDuplicate, ReportClash, storeVars
<1>7. CASE CreateInsert(r)
  <2>1. PICK new \in Ids : new = NewId /\ listings[new] = Fresh
      BY <1>7, NewIdIsFresh DEF CreateInsert
  <2>2. req[r].args \in Payloads
      BY <1>1, <1>7 DEF CreateInsert, At, InFlight
  <2>3. CreatedRow(req[r].args, req[r].now) \in KeptRow
      BY <1>1, <2>2, BornRowsAreKept
  <2>4. listings' = listings \/ SetsRow(new, CreatedRow(req[r].args, req[r].now))
      BY <1>7, <2>1 DEF CreateInsert, SetsRow
  <2>5. Moves
      BY <2>1, <2>3, <2>4, SameTableMoves, RowMovesTable
  <2> QED
      BY <1>4, <1>7, <2>5, OperatedFacts DEF CreateInsert
<1>8. CASE PatchWrite(r) \/ DeleteWrite(r)
  <2>1. id \in Ids /\ req[r].args \in Patches \cup {DeactivatePatch}
      BY <1>1, <1>8 DEF PatchWrite, DeleteWrite, At, InFlight
  <2>2. [listings EXCEPT ![id] = UpdatedRow(@, req[r].args, req[r].now)]
        = [listings EXCEPT ![id] = UpdatedRow(listings[id], req[r].args, req[r].now)]
      BY <1>2, <2>1
  <2>3. \/ listings' = listings
        \/ Exists(id) /\ SetsRow(id, UpdatedRow(listings[id], req[r].args, req[r].now))
      BY <1>8, <2>2 DEF PatchWrite, DeleteWrite, SetsRow
  <2>4. ASSUME Exists(id), "test_name" \in DOMAIN req[r].args
        PROVE  req[r].args["test_name"] = listings[id].is_test
    <3>1. "test_name" \notin DOMAIN DeactivatePatch
        BY DEF DeactivatePatch
    <3> QED
        BY <1>1, <1>8, <2>4, <3>1 DEF PatchWrite, DeleteWrite, At, InFlight, NameFits, Exists
  <2>5. Exists(id) => /\ listings[id] \in KeptRow
                      /\ StaysKept(listings[id], UpdatedRow(listings[id], req[r].args, req[r].now))
      BY <1>1, <2>1, <2>4, PatchKeeps, OperatedFacts
  <2>6. Moves
      BY <2>1, <2>3, <2>5, SameTableMoves, RowMovesTable
  <2> QED
      BY <1>4, <1>8, <2>6, OperatedFacts DEF PatchWrite, DeleteWrite
<1>9. CASE ClaimWrite(r)
  <2> DEFINE row == ClaimedRow(listings[id], Snap(r).payment_wallet, req[r].now)
  <2>1. id \in Ids /\ Snap(r).payment_wallet \in Wallets
      BY <1>1, <1>9 DEF ClaimWrite, At, InFlight, Snap
  <2>2. [listings EXCEPT ![id] = ClaimedRow(@, Snap(r).payment_wallet, req[r].now)]
        = [listings EXCEPT ![id] = row]
      BY <1>2, <2>1
  <2>3. listings' = listings \/ (Exists(id) /\ SetsRow(id, row))
      BY <1>9, <2>2 DEF ClaimWrite, SetsRow
  <2>4. Exists(id) => listings[id] \in KeptRow /\ StaysKept(listings[id], row)
      BY <1>1, <2>1, ClaimKeeps, OperatedFacts
  <2>5. Moves
      BY <2>1, <2>3, <2>4, SameTableMoves, RowMovesTable
  <2> QED
      BY <1>4, <1>9, <2>5, OperatedFacts DEF ClaimWrite
<1>10. CASE RemoveWrite(r)
  <2> DEFINE entry == <<listings[id].source, Normalize[listings[id].endpoint_url]>>
  <2>1. id \in Ids
      BY <1>1, <1>10 DEF RemoveWrite, At, InFlight
  <2>2. \/ /\ Exists(id) /\ listings[id].source # NoSource /\ SetsRow(id, Gone)
           /\ doNotImport' = doNotImport \cup {entry}
        \/ listings' = listings /\ doNotImport' = doNotImport
      BY <1>10 DEF RemoveWrite, SetsRow
  <2>3. ASSUME Exists(id), listings[id].source # NoSource
        PROVE  entry \in Sources \X Keys /\ SourceSlot(listings[id]) = entry
    <3>1. listings[id] \in Row /\ listings[id] \in KeptRow
        BY <2>1, <2>3, OperatedFacts
    <3> QED
        BY <2>3, <3>1, StoreAssumption DEF Row, KeptRow, KeyFollows, SourceSlot
  <2>4. ASSUME Exists(id), SetsRow(id, Gone), SourceSlot(listings[id]) \in doNotImport'
        PROVE  Moves
    <3>1. listings' = [i \in Ids |-> IF i \in {id} THEN Gone ELSE listings[i]]
        BY <1>2, <2>4 DEF SetsRow
    <3>2. {id} \in SUBSET Ids
        BY <2>1
    <3> QED
        BY <2>4, <3>1, <3>2, RowsGo DEF MayGo
  <2>5. Moves /\ doNotImport' \subseteq Sources \X Keys
      BY <2>2, <2>3, <2>4, SameTableMoves, OperatedFacts
  <2> QED
      BY <1>4, <1>10, <2>5, OperatedFacts DEF RemoveWrite
<1>11. CASE HeartbeatWrite(r)
  <2> DEFINE row == [listings[id] EXCEPT !.last_seen_at = req[r].now]
  <2>1. id \in Ids
      BY <1>1, <1>11 DEF HeartbeatWrite, At, InFlight
  <2>2. [listings EXCEPT ![id] = [@ EXCEPT !.last_seen_at = req[r].now]] = [listings EXCEPT ![id] = row]
      BY <1>2, <2>1
  <2>3. \/ listings' = listings
        \/ Exists(id) /\ HeartbeatAllowed(listings[id], req[r].now) /\ SetsRow(id, row)
      BY <1>11, <2>2 DEF HeartbeatWrite, SetsRow
  <2>4. Exists(id) /\ HeartbeatAllowed(listings[id], req[r].now)
        => listings[id] \in KeptRow /\ StaysKept(listings[id], row)
      BY <1>1, <2>1, BeatKeeps, OperatedFacts
  <2>5. Moves
      BY <2>1, <2>3, <2>4, SameTableMoves, RowMovesTable
  <2> QED
      BY <1>4, <1>11, <2>5, OperatedFacts DEF HeartbeatWrite
<1> QED
    BY <1>5, <1>6, <1>7, <1>8, <1>9, <1>10, <1>11 DEF HandlerStep

-----------------------------------------------------------------------------
(* The syncs, and the board's other steps. *)

LEMMA ImportMoves ==
    ASSUME OperatedInv, ImportNext
    PROVE  Moves /\ ImportTypeOK' /\ UNCHANGED <<doNotImport, clock>>
<1>1. ImportTypeOK /\ clock \in Time /\ (listings' = listings => Moves)
    BY OperatedFacts, SameTableMoves
<1> SUFFICES ASSUME NEW p \in Syncs, SyncArrival(p) \/ SyncStep(p)
             PROVE  Moves /\ ImportTypeOK' /\ UNCHANGED <<doNotImport, clock>>
    BY DEF ImportNext
<1>2. sync[p] \in SyncState
    BY <1>1 DEF ImportTypeOK
<1>3. CASE AcquireLock(p)
  <2> DEFINE q == [IdleSync EXCEPT !.pc = "body"]
  <2>1. q \in SyncState
      BY IdleSyncOK DEF SyncState
  <2> HIDE DEF q
  <2>2. sync' = [sync EXCEPT ![p] = q] /\ importRunning' \in BOOLEAN
      BY <1>3 DEF AcquireLock, q
  <2>3. ImportTypeOK'
      BY <1>1, <2>1, <2>2, SyncSet
  <2> QED
      BY <1>1, <1>3, <2>3 DEF AcquireLock, storeVars
<1>4. CASE BadBatch(p) \/ FinishSync(p) \/ SyncFails(p)
    BY <1>1, <1>4, EndKeepsType DEF BadBatch, FinishSync, SyncFails, storeVars
<1>5. ASSUME NEW batch \in Batches, ReadBatch(p, batch)
      PROVE  Moves /\ ImportTypeOK' /\ UNCHANGED <<doNotImport, clock>>
    BY <1>1, <1>5, ReadBatchKeepsType DEF ReadBatch, storeVars
<1>6. ASSUME NEW src \in Sources, PlanSource(p, src)
      PROVE  Moves /\ ImportTypeOK' /\ UNCHANGED <<doNotImport, clock>>
    BY <1>1, <1>6, PlanKeepsType DEF PlanSource, storeVars
<1>7. CASE FinishPlan(p)
    BY <1>1, <1>7, FinishPlanKeepsType DEF FinishPlan, storeVars
<1>8. ASSUME NEW row \in sync[p].toWrite, Upsert(p, row)
      PROVE  Moves /\ ImportTypeOK' /\ UNCHANGED <<doNotImport, clock>>
  <2>1. row \in PlannedRows /\ sync[p].now \in Time /\ sync[p].toWrite \ {row} \in SUBSET PlannedRows
      BY <1>2 DEF SyncState
  <2>2. \/ /\ listings' = UpsertedTable(row, sync[p].now)
           /\ sync' = [sync EXCEPT ![p].toWrite = @ \ {row}] /\ importRunning' = importRunning
        \/ End(p) /\ listings' = listings
      BY <1>8 DEF Upsert
  <2>3. Moves
      BY <1>1, <1>8, <2>1, <2>2, UpsertMoves DEF Upsert
  <2>4. [sync EXCEPT ![p].toWrite = @ \ {row}] \in [Syncs -> SyncState]
      BY <1>1, <2>1, SyncColumn DEF ImportTypeOK
  <2>5. ImportTypeOK'
      BY <1>1, <2>2, <2>4, EndKeepsType DEF ImportTypeOK
  <2> QED
      BY <1>8, <2>3, <2>5 DEF Upsert
<1>9. ASSUME NEW src \in Sources, MarkMissing(p, src)
      PROVE  Moves /\ ImportTypeOK' /\ UNCHANGED <<doNotImport, clock>>
  <2>1. Moves
      BY <1>9, MarkMoves
  <2>2. sync[p].toMark \ {src} \in SUBSET Sources
      BY <1>2 DEF SyncState
  <2>3. [sync EXCEPT ![p].toMark = @ \ {src}] \in [Syncs -> SyncState]
      BY <1>1, <2>2, SyncColumn DEF ImportTypeOK
  <2> QED
      BY <1>1, <1>9, <2>1, <2>3 DEF MarkMissing, ImportTypeOK
<1> QED
    BY <1>3, <1>4, <1>5, <1>6, <1>7, <1>8, <1>9 DEF SyncArrival, SyncStep

LEMMA BoardMoves ==
    ASSUME OperatedInv, [Next]_vars
    PROVE  /\ Moves /\ RequestsHold(listings', req') /\ ImportTypeOK'
           /\ doNotImport' \subseteq Sources \X Keys
           /\ clock' \in Time /\ clock <= clock' /\ lastPurge' \in Time \cup {NoTime}
<1> DEFINE Good == /\ Moves /\ RequestsHold(listings', req') /\ ImportTypeOK'
                   /\ doNotImport' \subseteq Sources \X Keys
                   /\ clock' \in Time /\ clock <= clock' /\ lastPurge' \in Time \cup {NoTime}
<1>1. /\ ImportTypeOK /\ clock \in Time /\ clock <= clock /\ doNotImport \subseteq Sources \X Keys
      /\ lastPurge \in Time \cup {NoTime}
      /\ listings' = listings => Moves
      /\ Moves /\ req' = req => RequestsHold(listings', req')
    BY OperatedFacts, SameTableMoves, RequestsStillHold, StoreAssumption DEF Moves
<1>2. UNCHANGED importVars => ImportTypeOK'
    BY <1>1 DEF ImportTypeOK, importVars
<1>3. CASE UNCHANGED vars
    BY <1>1, <1>2, <1>3 DEF vars, importVars
<1>4. ASSUME NEW r \in Requests, Arrival(r), UNCHANGED importVars
      PROVE  Good
  <2>1. RequestsHold(listings', req') /\ UNCHANGED <<storeVars, lastPurge>>
      BY <1>4, ArrivalHolds
  <2> QED
      BY <1>1, <1>2, <1>4, <2>1 DEF storeVars
<1>5. ASSUME NEW r \in Requests, HandlerStep(r), UNCHANGED importVars
      PROVE  Good
    BY <1>1, <1>2, <1>5, HandlerMoves
<1>6. ASSUME NEW r \in Requests, Finish(r), UNCHANGED importVars
      PROVE  Good
  <2>1. req' = [req EXCEPT ![r] = IdleRequest] /\ UNCHANGED <<storeVars, lastPurge>>
      BY <1>6 DEF Finish
  <2>2. Moves
      BY <1>1, <2>1 DEF storeVars
  <2>3. IdleRequest \in RequestState /\ InFlight(listings', IdleRequest)
      BY IdleIsInFlight DEF Codes
  <2>4. RequestsHold(listings', req')
      BY <2>1, <2>2, <2>3, OneRequestSet DEF Moves
  <2> QED
      BY <1>1, <1>2, <1>6, <2>1, <2>2, <2>4 DEF storeVars
<1>7. CASE Browse /\ UNCHANGED importVars
  <2>1. UNCHANGED <<doNotImport, clock, req>> /\ lastPurge' \in Time \cup {NoTime}
      BY <1>1, <1>7 DEF Browse, MaybePurge, PurgeOrFail, storeVars
  <2>2. listings' = listings \/ \E D \in PurgeSets : listings' = Purged(D)
      BY <1>7 DEF Browse, MaybePurge, PurgeOrFail, storeVars
  <2>3. Moves
      BY <1>1, <2>2, PurgeMoves
  <2> QED
      BY <1>1, <1>2, <1>7, <2>1, <2>3
<1>8. CASE ImportNext /\ UNCHANGED <<lastPurge, req>>
    BY <1>1, <1>8, ImportMoves
<1>9. CASE Tick /\ UNCHANGED <<lastPurge, req, importVars>>
  <2>1. clock' \in Time /\ clock <= clock' /\ UNCHANGED <<listings, doNotImport>>
      BY <1>1, <1>9, StoreAssumption DEF Tick
  <2> QED
      BY <1>1, <1>2, <1>9, <2>1
<1>10. CASE Restart
  <2>1. UNCHANGED <<doNotImport, clock>> /\ lastPurge' \in Time \cup {NoTime}
      BY <1>1, <1>10 DEF Restart, RoutesRestart, StartupMaintenance, storeVars
  <2>2. listings' = listings \/ \E D \in PurgeSets : listings' = Purged(D)
      BY <1>10 DEF Restart, RoutesRestart, StartupMaintenance, storeVars
  <2>3. Moves
      BY <1>1, <2>2, PurgeMoves
  <2>4. RequestsHold(listings', req')
      BY <1>10, IdleIsInFlight DEF Restart, RoutesRestart, RequestsHold, Codes
  <2>5. ImportTypeOK'
      BY <1>1, <1>10, IdleSyncOK DEF Restart, ImportRestart, ImportTypeOK
  <2> QED
      BY <1>1, <2>1, <2>3, <2>4, <2>5
<1> QED
    BY <1>3, <1>4, <1>5, <1>6, <1>7, <1>8, <1>9, <1>10 DEF Next, RoutesNext

-----------------------------------------------------------------------------
(* The operator. *)

LEMMA EditIsPrompted ==
    ASSUME OperatedInv, NEW id \in Ids, NEW edit \in Edits, Exists(id), EditValid(listings[id], edit.change),
           NEW k, k.cmd = "edit", k.id = id,
           k.set = [c \in Diff(edit.change, listings[id]) |-> edit.change[c]]
    PROVE  Prompted(listings, clock, k)
<1>1. \A c \in DOMAIN k.set : c \in DOMAIN edit.change /\ k.set[c] = edit.change[c]
    BY DEF Diff
<1>2. \A c \in DOMAIN edit.change : c \in EDITABLE_FIELDS /\ edit.change[c] \in EditType[c]
    BY OperatorAssumption
<1>3. "test_name" \in DOMAIN k.set => listings[id].is_test = k.set["test_name"]
    BY <1>1 DEF EditValid, Merged
<1> QED
    BY <1>1, <1>2, <1>3 DEF Prompted, Exists

LEMMA OperatorMoves ==
    ASSUME OperatedInv, OperatorNext
    PROVE  Moves /\ CommandsHold(listings', clock', command') /\ UNCHANGED <<doNotImport, clock>>
<1>1. /\ listings \in [Ids -> KeptRow \cup {Fresh, Gone}] /\ clock \in Time
      /\ CommandsHold(listings, clock, command)
      /\ listings' = listings => Moves
    BY OperatedFacts, SameTableMoves DEF KeptTables
<1> SUFFICES ASSUME NEW s \in Operators, OperatorStep(s)
             PROVE  Moves /\ CommandsHold(listings', clock', command') /\ UNCHANGED <<doNotImport, clock>>
    BY DEF OperatorNext
<1>2. Prompted(listings, clock, command[s])
    BY <1>1 DEF CommandsHold
<1>3. Moves /\ clock' = clock => \A u \in Operators : Prompted(listings', clock', command[u])
    BY <1>1, MovesKeepPrompted, OperatedFacts DEF CommandsHold, Moves
<1>4. ASSUME NEW k, Prompted(listings', clock', k), command' = [command EXCEPT ![s] = k], Moves, clock' = clock
      PROVE  CommandsHold(listings', clock', command')
    BY <1>1, <1>3, <1>4 DEF CommandsHold
<1>5. \A T, t : Prompted(T, t, NoCommand)
    BY DEF Prompted, NoCommand
<1>6. Returns(s) /\ Moves /\ clock' = clock => CommandsHold(listings', clock', command')
    BY <1>4, <1>5 DEF Returns
<1>7. ASSUME NEW id \in Ids, NEW edit \in Edits, EditStart(s, id, edit)
      PROVE  Moves /\ CommandsHold(listings', clock', command') /\ UNCHANGED <<doNotImport, clock>>
  <2> DEFINE k == [cmd |-> "edit", id |-> id, expect |-> Expecting(edit.expect, listings[id]),
                   set |-> [c \in Diff(edit.change, listings[id]) |-> edit.change[c]]]
  <2>1. command' = [command EXCEPT ![s] = k] /\ UNCHANGED storeVars /\ Exists(id)
      BY <1>7 DEF EditStart
  <2>2. k.cmd = "edit" /\ k.id = id /\ k.set = [c \in Diff(edit.change, listings[id]) |-> edit.change[c]]
      OBVIOUS
  <2> HIDE DEF k
  <2>3. Prompted(listings, clock, k)
      BY <1>7, <2>2, EditIsPrompted DEF EditStart
  <2> QED
      BY <1>1, <1>4, <2>1, <2>3 DEF storeVars
<1>8. ASSUME NEW id \in Ids, NEW expect \in Deletes, DeleteStart(s, id, expect)
      PROVE  Moves /\ CommandsHold(listings', clock', command') /\ UNCHANGED <<doNotImport, clock>>
  <2> DEFINE k == [cmd |-> "delete", id |-> id, expect |-> Expecting(expect, listings[id])]
  <2>1. command' = [command EXCEPT ![s] = k] /\ UNCHANGED storeVars
      BY <1>8 DEF DeleteStart
  <2>2. k.cmd = "delete" /\ k.id = id
      OBVIOUS
  <2> HIDE DEF k
  <2>3. Prompted(listings, clock, k)
      BY <2>2 DEF Prompted
  <2> QED
      BY <1>1, <1>4, <2>1, <2>3 DEF storeVars
<1>9. ASSUME NEW age \in PurgeAges, TestPurgeStart(s, age)
      PROVE  Moves /\ CommandsHold(listings', clock', command') /\ UNCHANGED <<doNotImport, clock>>
  <2> DEFINE k == [cmd |-> "purge", cutoff |-> clock - age, ids |-> OlderTests(clock - age)]
  <2>1. command' = [command EXCEPT ![s] = k] /\ UNCHANGED storeVars
      BY <1>9 DEF TestPurgeStart
  <2>2. k.cmd = "purge" /\ k.cutoff = clock - age
      OBVIOUS
  <2> HIDE DEF k
  <2>3. age \in Nat /\ clock \in Int
      BY <1>1, OperatorAssumption
  <2>4. k.cutoff \in Int /\ k.cutoff <= clock - age
      BY <2>2, <2>3
  <2>5. Prompted(listings, clock, k)
      BY <2>2, <2>4 DEF Prompted
  <2> QED
      BY <1>1, <1>4, <2>1, <2>5 DEF storeVars
<1>10. CASE EditWrite(s)
  <2> DEFINE id == command[s].id
  <2>1. id \in Ids
      BY <1>2, <1>10 DEF EditWrite, Waiting, Prompted
  <2>2. [listings EXCEPT ![id] = EditedRow(s, @)] = [listings EXCEPT ![id] = EditedRow(s, listings[id])]
      BY <1>1, <2>1
  <2>3. listings' = listings \/ (Exists(id) /\ SetsRow(id, EditedRow(s, listings[id])))
      BY <1>10, <2>2 DEF EditWrite, SetsRow, GuardHolds
  <2>4. Exists(id) => listings[id] \in KeptRow /\ StaysKept(listings[id], EditedRow(s, listings[id]))
      BY <1>1, <1>2, <1>10, <2>1, EditKeeps, OperatedFacts DEF EditWrite, Waiting, Prompted, Exists
  <2>5. Moves
      BY <1>1, <2>1, <2>3, <2>4, RowMovesTable
  <2> QED
      BY <1>6, <1>10, <2>5 DEF EditWrite
<1>11. CASE HardDelete(s)
  <2> DEFINE id == command[s].id
  <2>1. id \in Ids
      BY <1>2, <1>11 DEF HardDelete, Waiting, Prompted
  <2>2. \/ listings' = listings
        \/ /\ Exists(id) /\ listings[id].status = "inactive"
           /\ listings' = [i \in Ids |-> IF i \in {id} THEN Gone ELSE listings[i]]
      BY <1>1, <1>11 DEF HardDelete, HardDeletable, GuardHolds
  <2>3. Exists(id) => listings[id].is_test \in BOOLEAN
      BY <2>1, OperatedFacts DEF Row
  <2>4. Moves
      BY <1>1, <2>1, <2>2, <2>3, RowsGo DEF MayGo
  <2> QED
      BY <1>6, <1>11, <2>4 DEF HardDelete
<1>12. CASE TestPurge(s)
  <2> DEFINE D == command[s].ids \cap OlderTests(command[s].cutoff)
  <2>1. Waiting(s, "purge") /\ listings' = [i \in Ids |-> IF i \in D THEN Gone ELSE listings[i]]
      BY <1>12 DEF TestPurge
  <2>2. PICK age \in PurgeAges : command[s].cutoff \in Int /\ command[s].cutoff <= clock - age
      BY <1>2, <2>1 DEF Waiting, Prompted
  <2>3. ASSUME NEW i \in D
        PROVE  i \in Ids /\ Exists(i) /\ MayGo(i)
    <3>1. i \in Ids /\ Exists(i) /\ listings[i].is_test /\ listings[i].created_at < command[s].cutoff
        BY <2>3 DEF OlderTests, RowsOf, Exists
    <3>2. listings[i].created_at \in Int /\ age \in Int /\ clock \in Int
        BY <1>1, <3>1, OperatedFacts, OperatorAssumption DEF Row
    <3>3. listings[i].created_at < clock - age
        BY <2>2, <3>1, <3>2
    <3> QED
        BY <2>1, <3>1, <3>3 DEF MayGo
  <2>4. D \in SUBSET Ids
      BY <2>3
  <2> HIDE DEF D
  <2>5. Moves
      BY <2>1, <2>3, <2>4, RowsGo
  <2> QED
      BY <1>6, <1>12, <2>5 DEF TestPurge
<1>13. CASE OperatorAborts(s)
    BY <1>1, <1>6, <1>13 DEF OperatorAborts, storeVars
<1> QED
    BY <1>7, <1>8, <1>9, <1>10, <1>11, <1>12, <1>13 DEF OperatorStep

-----------------------------------------------------------------------------
(* The operated board. *)

LEMMA OperatedInitially == OperatedInit => OperatedInv
<1> SUFFICES ASSUME OperatedInit PROVE OperatedInv
    OBVIOUS
<1>1. /\ 0 \in Time
      /\ IdleRequest \in RequestState /\ InFlight(listings, IdleRequest)
      /\ Prompted(listings, clock, NoCommand)
    BY StoreAssumption, IdleIsInFlight DEF Codes, Prompted, NoCommand
<1> QED
    BY <1>1, IdleSyncOK
    DEF OperatedInit, OperatorInit, Init, StoreInit, RoutesInit, ImportInit, OperatedInv, KeptTables,
        ImportTypeOK, RequestsHold, CommandsHold

LEMMA OperatedStep ==
    ASSUME OperatedInv, [OperatedNext]_operatedVars
    PROVE  OperatedInv' /\ Moves
<1>1. CASE (Next /\ UNCHANGED command) \/ UNCHANGED operatedVars
  <2>1. [Next]_vars /\ command' = command
      BY <1>1 DEF operatedVars
  <2>2. /\ Moves /\ RequestsHold(listings', req') /\ ImportTypeOK'
        /\ doNotImport' \subseteq Sources \X Keys
        /\ clock' \in Time /\ clock <= clock' /\ lastPurge' \in Time \cup {NoTime}
      BY <2>1, BoardMoves
  <2>3. CommandsHold(listings', clock', command')
      BY <2>1, <2>2, OperatedFacts, MovesKeepPrompted DEF CommandsHold, Moves
  <2> QED
      BY <2>2, <2>3 DEF OperatedInv, Moves, TableMoves
<1>2. CASE OperatorNext /\ UNCHANGED <<lastPurge, req, importVars>>
  <2>1. Moves /\ CommandsHold(listings', clock', command') /\ UNCHANGED <<doNotImport, clock>>
      BY <1>2, OperatorMoves
  <2>2. RequestsHold(listings', req')
      BY <1>2, <2>1, RequestsStillHold DEF Moves
  <2>3. ImportTypeOK'
      BY <1>2, OperatedFacts DEF ImportTypeOK, importVars
  <2> QED
      BY <1>2, <2>1, <2>2, <2>3, OperatedFacts DEF OperatedInv, Moves, TableMoves
<1> QED
    BY <1>1, <1>2 DEF OperatedNext

(* Whoever writes a row, owner, operator or sync, finds it with the key of *)
(* its URL and an honest name, and leaves it so.                           *)
THEOREM OperatedInvariant == OperatedSpec => []OperatedInv
<1>1. OperatedInv /\ [OperatedNext]_operatedVars => OperatedInv'
    BY OperatedStep
<1> QED
    BY <1>1, OperatedInitially, PTL DEF OperatedSpec

(* The board's variables keep their types beside an operator, whose values *)
(* are those of an edit and not those of a PATCH.                          *)
THEOREM OperatedTypes == OperatedSpec => []TypeOK
<1>1. ASSUME OperatedInv PROVE TypeOK
  <2>1. listings \in [Ids -> Row \cup {Fresh, Gone}]
      BY <1>1, KeptIsRow DEF OperatedInv, KeptTables
  <2> QED
      BY <1>1, <2>1 DEF OperatedInv, RequestsHold, TypeOK, StoreTypeOK, PurgeTypeOK, RoutesTypeOK
<1> QED
    BY <1>1, OperatedInvariant, PTL

(* The duplicate guard and the imports know a listing by the key of its    *)
(* URL also after an operator has edited it.                               *)
THEOREM OperatedKeysFollow == OperatedSpec => []KeysFollowUrls
<1>1. OperatedInv => KeysFollowUrls
    BY OperatedFacts DEF KeysFollowUrls, RowsOf, Exists, KeptRow, KeyFollows
<1> QED
    BY <1>1, OperatedInvariant, PTL

(* A listing posted here is test data exactly when its name says so,       *)
(* although a PATCH and an edit each compare with the row they read before *)
(* they wrote.                                                             *)
THEOREM OperatedNamesStay == OperatedSpec => []TestNamesKept
<1>1. OperatedInv => TestNamesKept
    BY OperatedFacts DEF TestNamesKept, RowsOf, Exists, KeptRow, NameKept
<1> QED
    BY <1>1, OperatedInvariant, PTL

(* Two recorded heartbeats are an interval apart, whatever an operator     *)
(* edits between them.                                                     *)
THEOREM OperatedHeartbeatsStayApart == OperatedSpec => HeartbeatsAreSpaced
<1>1. ASSUME OperatedInv, [OperatedNext]_operatedVars
      PROVE  HeartbeatSpaced
  <2> SUFFICES ASSUME NEW i \in Ids, Exists(i), Exists(i)', listings[i].last_seen_at # listings'[i].last_seen_at
               PROVE  \/ listings[i].last_seen_at = NoTime
                      \/ listings'[i].last_seen_at >= listings[i].last_seen_at + HeartbeatInterval
      BY DEF HeartbeatSpaced
  <2>1. StaysKept(listings[i], listings'[i])
      BY <1>1, OperatedStep DEF Moves, TableMoves, RowMoves, Exists
  <2>2. PICK now \in Time : HeartbeatAllowed(listings[i], now) /\ listings'[i].last_seen_at = now
      BY <2>1 DEF StaysKept
  <2>3. listings[i].last_seen_at \in Int /\ now \in Int /\ HeartbeatInterval \in Int
      BY <1>1, OperatedFacts, StoreAssumption DEF Row
  <2> QED
      BY <2>2, <2>3 DEF HeartbeatAllowed
<1>2. OperatedInv /\ [OperatedNext]_operatedVars => [HeartbeatSpaced]_vars
    BY <1>1
<1> QED
    BY <1>2, OperatedInvariant, PTL DEF OperatedSpec, HeartbeatsAreSpaced

(* Nothing disappears but an import put on the do-not-import list, an      *)
(* inactive listing and an old test, whatever the row was when the         *)
(* operator's prompt opened.                                               *)
THEOREM RemovalsStayWarranted == OperatedSpec => RemovalsAreWarranted
<1>1. OperatedInv /\ [OperatedNext]_operatedVars => [RemovalWarranted]_operatedVars
    BY OperatedStep DEF Moves
<1> QED
    BY <1>1, OperatedInvariant, PTL DEF OperatedSpec, RemovalsAreWarranted
-----------------------------------------------------------------------------
(* The unique indexes, which an operator's UPDATE asks as an owner's does. *)

IndexesHold == Commits(listings)

(* What a statement that cannot break an index leaves: fewer rows, each in *)
(* no slot but its own.                                                    *)
SlotsStay(a, b) == SlotKept(a, b) /\ SourceSlot(b) = SourceSlot(a)
NoNewSlots ==
    \A i \in RowsOf(listings') : i \in RowsOf(listings) /\ SlotsStay(listings[i], listings'[i])

LEMMA NoNewSlotsCommit ==
    ASSUME IndexesHold, NoNewSlots
    PROVE  Commits(listings')
<1>1. ActiveOfferingUniq(listings')
    BY FewerOfferings DEF IndexesHold, Commits, NoNewSlots, SlotsStay
<1>2. SourceEndpointUniq(listings')
  <2> SUFFICES ASSUME NEW i \in RowsOf(listings'), NEW j \in RowsOf(listings'),
                      listings'[i].source # NoSource, SourceSlot(listings'[i]) = SourceSlot(listings'[j])
               PROVE  i = j
      BY DEF SourceEndpointUniq
  <2>1. /\ i \in RowsOf(listings) /\ SourceSlot(listings'[i]) = SourceSlot(listings[i])
        /\ j \in RowsOf(listings) /\ SourceSlot(listings'[j]) = SourceSlot(listings[j])
      BY DEF NoNewSlots, SlotsStay
  <2>2. listings'[i].source = listings[i].source
      BY <2>1 DEF SourceSlot
  <2> QED
      BY <2>1, <2>2 DEF IndexesHold, Commits, SourceEndpointUniq
<1> QED
    BY <1>1, <1>2 DEF Commits

(* The statements that do not ask the indexes.                             *)
LEMMA RowsLeftSlots ==
    ASSUME OperatedInv, NEW D, \/ listings' = listings
                               \/ listings' = [i \in Ids |-> IF i \in D THEN Gone ELSE listings[i]]
    PROVE  NoNewSlots
    BY OperatedFacts DEF NoNewSlots, RowsOf, SlotsStay, SlotKept

LEMMA OneRowLeavesSlots ==
    ASSUME OperatedInv, NEW id \in Ids, NEW b, SetsRow(id, b),
           \/ b = Gone
           \/ Exists(id) /\ SlotsStay(listings[id], b)
    PROVE  NoNewSlots
<1>1. listings'[id] = b /\ \A i \in Ids \ {id} : listings'[i] = listings[i]
    BY OperatedFacts DEF SetsRow, KeptTables
<1> QED
    BY <1>1 DEF NoNewSlots, RowsOf, Exists, SlotsStay, SlotKept

LEMMA RowSlotsStay ==
    ASSUME NEW row \in Row, NEW now
    PROVE  /\ SlotsStay(row, [row EXCEPT !.last_seen_at = now])
           /\ SlotsStay(row, [row EXCEPT !.missing = TRUE])
           /\ SlotsStay(row, UpdatedRow(row, DeactivatePatch, now))
<1>1. SlotsStay(row, [row EXCEPT !.last_seen_at = now]) /\ SlotsStay(row, [row EXCEPT !.missing = TRUE])
    BY DEF SlotsStay, SlotKept, Guarded, OfferingSlot, SourceSlot, Row
<1>2. /\ UpdatedRow(row, DeactivatePatch, now).status = "inactive"
      /\ UpdatedRow(row, DeactivatePatch, now).source = row.source
      /\ UpdatedRow(row, DeactivatePatch, now).endpoint_key = row.endpoint_key
    BY DEF UpdatedRow, DeactivatePatch, Merged, MergedKey, Row
<1>3. SlotsStay(row, UpdatedRow(row, DeactivatePatch, now))
    BY <1>2 DEF SlotsStay, SlotKept, Guarded, SourceSlot
<1> QED
    BY <1>1, <1>3

LEMMA HandlerKeepsSlots ==
    ASSUME OperatedInv, NEW r \in Requests, HandlerStep(r)
    PROVE  Commits(listings') \/ NoNewSlots
<1> DEFINE id == req[r].id
<1>1. /\ listings' = listings => NoNewSlots
      /\ \A D : listings' = Purged(D) => NoNewSlots
    BY RowsLeftSlots DEF Purged
<1>2. /\ InFlight(listings, req[r]) /\ listings \in [Ids -> KeptRow \cup {Fresh, Gone}]
      /\ \A i \in Ids : Exists(i) => listings[i] \in Row
    BY OperatedFacts DEF RequestsHold, KeptTables
<1>3. CASE CreatePurge(r)
    BY <1>1, <1>3 DEF CreatePurge, MaybePurge, PurgeOrFail, storeVars
<1>4. CASE FindDuplicate(r) \/ ReportClash(r)
    BY <1>1, <1>4 DEF FindDuplicate, ReportClash, storeVars
<1>5. CASE CreateInsert(r) \/ PatchWrite(r) \/ ClaimWrite(r)
    BY <1>1, <1>5 DEF CreateInsert, PatchWrite, ClaimWrite
<1>6. CASE DeleteWrite(r)
  <2> DEFINE row == UpdatedRow(listings[id], req[r].args, req[r].now)
  <2>1. id \in Ids /\ req[r].args = DeactivatePatch
      BY <1>2, <1>6 DEF DeleteWrite, At, InFlight
  <2>2. [listings EXCEPT ![id] = UpdatedRow(@, req[r].args, req[r].now)] = [listings EXCEPT ![id] = row]
      BY <1>2, <2>1
  <2>3. listings' = listings \/ (Exists(id) /\ SetsRow(id, row))
      BY <1>6, <2>2 DEF DeleteWrite, SetsRow
  <2>4. Exists(id) => SlotsStay(listings[id], row)
      BY <1>2, <2>1, RowSlotsStay
  <2> QED
      BY <1>1, <2>1, <2>3, <2>4, OneRowLeavesSlots
<1>7. CASE RemoveWrite(r)
  <2>1. id \in Ids
      BY <1>2, <1>7 DEF RemoveWrite, At, InFlight
  <2>2. listings' = listings \/ SetsRow(id, Gone)
      BY <1>7 DEF RemoveWrite, SetsRow
  <2> QED
      BY <1>1, <2>1, <2>2, OneRowLeavesSlots
<1>8. CASE HeartbeatWrite(r)
  <2> DEFINE row == [listings[id] EXCEPT !.last_seen_at = req[r].now]
  <2>1. id \in Ids
      BY <1>2, <1>8 DEF HeartbeatWrite, At, InFlight
  <2>2. [listings EXCEPT ![id] = [@ EXCEPT !.last_seen_at = req[r].now]] = [listings EXCEPT ![id] = row]
      BY <1>2, <2>1
  <2>3. listings' = listings \/ (Exists(id) /\ SetsRow(id, row))
      BY <1>8, <2>2 DEF HeartbeatWrite, SetsRow
  <2>4. Exists(id) => SlotsStay(listings[id], row)
      BY <1>2, <2>1, RowSlotsStay
  <2> QED
      BY <1>1, <2>1, <2>3, <2>4, OneRowLeavesSlots
<1> QED
    BY <1>3, <1>4, <1>5, <1>6, <1>7, <1>8 DEF HandlerStep

LEMMA ImportKeepsSlots ==
    ASSUME OperatedInv, NEW p \in Syncs, SyncArrival(p) \/ SyncStep(p)
    PROVE  Commits(listings') \/ NoNewSlots
<1>1. listings' = listings => NoNewSlots
    BY RowsLeftSlots
<1>2. ASSUME NEW row \in sync[p].toWrite, Upsert(p, row)
      PROVE  Commits(listings') \/ NoNewSlots
    BY <1>1, <1>2 DEF Upsert
<1>3. ASSUME NEW src \in Sources, MarkMissing(p, src)
      PROVE  NoNewSlots
  <2>1. PICK gone \in SUBSET RowsOf(listings) :
            listings' = [i \in Ids |-> IF i \in gone THEN [listings[i] EXCEPT !.missing = TRUE] ELSE listings[i]]
      BY <1>3 DEF MarkMissing, MissingFrom
  <2>2. ASSUME NEW i \in RowsOf(listings')
        PROVE  i \in RowsOf(listings) /\ SlotsStay(listings[i], listings'[i])
    <3>1. i \in Ids /\ listings'[i] # Fresh /\ listings'[i] # Gone
        BY DEF RowsOf
    <3>2. i \in RowsOf(listings)
        BY <2>1, <3>1 DEF RowsOf
    <3>3. listings[i] \in Row
        BY <3>1, <3>2, OperatedFacts DEF RowsOf, Exists
    <3>4. SlotsStay(listings[i], [listings[i] EXCEPT !.missing = TRUE]) /\ SlotsStay(listings[i], listings[i])
        BY <3>3, RowSlotsStay DEF SlotsStay, SlotKept
    <3> QED
        BY <2>1, <3>1, <3>2, <3>4
  <2> QED
      BY <2>2 DEF NoNewSlots
<1>4. CASE AcquireLock(p) \/ BadBatch(p) \/ FinishPlan(p) \/ FinishSync(p) \/ SyncFails(p)
    BY <1>1, <1>4 DEF AcquireLock, BadBatch, FinishPlan, FinishSync, SyncFails, storeVars
<1>5. ASSUME NEW batch \in Batches, ReadBatch(p, batch)
      PROVE  NoNewSlots
    BY <1>1, <1>5 DEF ReadBatch, storeVars
<1>6. ASSUME NEW src \in Sources, PlanSource(p, src)
      PROVE  NoNewSlots
    BY <1>1, <1>6 DEF PlanSource, storeVars
<1> QED
    BY <1>2, <1>3, <1>4, <1>5, <1>6 DEF SyncArrival, SyncStep

LEMMA OperatorKeepsSlots ==
    ASSUME OperatedInv, NEW s \in Operators, OperatorStep(s)
    PROVE  Commits(listings') \/ NoNewSlots
<1>1. listings' = listings => NoNewSlots
    BY RowsLeftSlots
<1>2. Prompted(listings, clock, command[s])
    BY OperatedFacts DEF CommandsHold
<1>3. CASE EditWrite(s)
    BY <1>1, <1>3 DEF EditWrite
<1>4. CASE HardDelete(s)
  <2>1. command[s].id \in Ids
      BY <1>2, <1>4 DEF HardDelete, Waiting, Prompted
  <2>2. listings' = listings \/ SetsRow(command[s].id, Gone)
      BY <1>4 DEF HardDelete, SetsRow
  <2> QED
      BY <1>1, <2>1, <2>2, OneRowLeavesSlots
<1>5. CASE TestPurge(s)
    BY <1>5, RowsLeftSlots DEF TestPurge
<1>6. CASE \/ \E id \in Ids, edit \in Edits : EditStart(s, id, edit)
           \/ \E id \in Ids, expect \in Deletes : DeleteStart(s, id, expect)
           \/ \E age \in PurgeAges : TestPurgeStart(s, age)
           \/ OperatorAborts(s)
    BY <1>1, <1>6 DEF EditStart, DeleteStart, TestPurgeStart, OperatorAborts, storeVars
<1> QED
    BY <1>3, <1>4, <1>5, <1>6 DEF OperatorStep

LEMMA IndexesStep ==
    ASSUME OperatedInv, IndexesHold, [OperatedNext]_operatedVars
    PROVE  IndexesHold'
<1>1. /\ listings' = listings => NoNewSlots
      /\ \A D : listings' = Purged(D) => NoNewSlots
    BY RowsLeftSlots DEF Purged
<1>2. ASSUME NEW r \in Requests, Arrival(r)
      PROVE  listings' = listings
    BY <1>2, ArrivalHolds DEF storeVars
<1>3. Browse \/ Restart => NoNewSlots
    BY <1>1 DEF Browse, MaybePurge, PurgeOrFail, Restart, RoutesRestart, StartupMaintenance, storeVars
<1>4. (\E r \in Requests : Finish(r)) \/ Tick \/ UNCHANGED operatedVars => NoNewSlots
    BY <1>1 DEF Finish, Tick, storeVars, operatedVars, vars
<1>5. RoutesNext => Commits(listings') \/ NoNewSlots
    BY <1>1, <1>2, <1>3, <1>4, HandlerKeepsSlots DEF RoutesNext
<1>6. ImportNext => Commits(listings') \/ NoNewSlots
    BY ImportKeepsSlots DEF ImportNext
<1>7. OperatorNext => Commits(listings') \/ NoNewSlots
    BY OperatorKeepsSlots DEF OperatorNext
<1>8. Commits(listings') \/ NoNewSlots
    BY <1>3, <1>4, <1>5, <1>6, <1>7 DEF OperatedNext, Next
<1> QED
    BY <1>8, NoNewSlotsCommit DEF IndexesHold

(* Both unique indexes hold whoever writes: a removal, a heartbeat, a      *)
(* marking and a deactivation could not break them.                        *)
THEOREM OperatedIndexesHold == OperatedSpec => []IndexesHold
<1>1. OperatedInit => IndexesHold
    BY DEF OperatedInit, Init, StoreInit, IndexesHold, Commits, ActiveOfferingUniq, SourceEndpointUniq, RowsOf
<1>2. OperatedInv /\ IndexesHold /\ [OperatedNext]_operatedVars => IndexesHold'
    BY IndexesStep
<1> QED
    BY <1>1, <1>2, OperatedInvariant, PTL DEF OperatedSpec

(* No owner has two active offerings of one endpoint, also when an         *)
(* operator hands a listing over to somebody or corrects its URL.          *)
THEOREM OperatedOfferingsStayUnique == OperatedSpec => []OneActiveOffering
<1>1. OperatedInv /\ IndexesHold => OneActiveOffering
  <2> SUFFICES ASSUME OperatedInv, IndexesHold,
                      NEW i \in RowsOf(listings), NEW j \in RowsOf(listings),
                      Guarded(listings[i]), Guarded(listings[j]), i # j,
                      listings[i].is_test = listings[j].is_test,
                      listings[i].submitted_by = listings[j].submitted_by,
                      Normalize[listings[i].endpoint_url] = Normalize[listings[j].endpoint_url]
               PROVE  FALSE
      BY DEF OneActiveOffering
  <2>1. KeyFollows(listings[i]) /\ KeyFollows(listings[j])
      BY OperatedFacts DEF RowsOf, Exists, KeptRow
  <2>2. OfferingSlot(listings[i]) = OfferingSlot(listings[j])
      BY <2>1 DEF OfferingSlot, KeyFollows
  <2> QED
      BY <2>2 DEF IndexesHold, Commits, ActiveOfferingUniq
<1> QED
    BY <1>1, OperatedInvariant, OperatedIndexesHold, PTL
-----------------------------------------------------------------------------
(* What syncs alone may do, while an operator writes too: only an upsert   *)
(* adds a row without an owner, only a marking marks one as missing.       *)

RowLeavesNoTrace(a, b) ==
    /\ a = Fresh => b \in {Fresh, Gone} \/ b.claimed
    /\ a \notin {Fresh, Gone} /\ b \notin {Fresh, Gone} => b.missing = a.missing
NoSyncsTrace == \A i \in Ids : RowLeavesNoTrace(listings[i], listings'[i])

LEMMA RowsLeftNoTrace ==
    ASSUME OperatedInv, NEW D, \/ listings' = listings
                               \/ listings' = [i \in Ids |-> IF i \in D THEN Gone ELSE listings[i]]
    PROVE  NoSyncsTrace
    BY OperatedFacts DEF NoSyncsTrace, RowLeavesNoTrace

LEMMA OneRowLeavesNoTrace ==
    ASSUME OperatedInv, NEW id \in Ids, NEW b, SetsRow(id, b), RowLeavesNoTrace(listings[id], b)
    PROVE  NoSyncsTrace
<1>1. listings'[id] = b /\ \A i \in Ids \ {id} : listings'[i] = listings[i]
    BY OperatedFacts DEF SetsRow, KeptTables
<1> QED
    BY <1>1 DEF NoSyncsTrace, RowLeavesNoTrace

(* A row in the table is written with the mark that it has.                *)
LEMMA RewrittenRowLeavesNoTrace ==
    ASSUME OperatedInv, NEW id \in Ids, Exists(id), NEW b, SetsRow(id, b), b.missing = listings[id].missing
    PROVE  NoSyncsTrace
<1>1. RowLeavesNoTrace(listings[id], b)
    BY DEF Exists, RowLeavesNoTrace
<1> QED
    BY <1>1, OneRowLeavesNoTrace

LEMMA EditKeepsMark ==
    ASSUME NEW row \in Row, NEW s \in Operators
    PROVE  EditedRow(s, row).missing = row.missing
<1> DEFINE b == UpdatedRow(row, command[s].set, clock)
<1>1. b.missing = row.missing
    BY DEF UpdatedRow, Row
<1>2. EditedRow(s, row) = [b EXCEPT !.submitted_by = Merged(command[s].set, row, "submitted_by")]
    BY DEF EditedRow
<1>3. DOMAIN b = DOMAIN row
    BY DEF UpdatedRow
<1>4. "missing" \in DOMAIN row
    BY DEF Row
<1> HIDE DEF b
<1> QED
    BY <1>1, <1>2, <1>3, <1>4

LEMMA HandlerLeavesNoTrace ==
    ASSUME OperatedInv, NEW r \in Requests, HandlerStep(r)
    PROVE  NoSyncsTrace
<1> DEFINE id == req[r].id
           q == req[r]
<1>1. /\ listings' = listings => NoSyncsTrace
      /\ \A D : listings' = Purged(D) => NoSyncsTrace
    BY RowsLeftNoTrace DEF Purged
<1>2. /\ InFlight(listings, req[r]) /\ listings \in [Ids -> KeptRow \cup {Fresh, Gone}]
      /\ \A i \in Ids : Exists(i) => listings[i] \in Row
      /\ q.now \in Time
    BY OperatedFacts DEF RequestsHold, KeptTables, RequestState
<1>3. CASE CreatePurge(r)
    BY <1>1, <1>3 DEF CreatePurge, MaybePurge, PurgeOrFail, storeVars
<1>4. CASE FindDuplicate(r) \/ ReportClash(r)
    BY <1>1, <1>4 DEF FindDuplicate, ReportClash, storeVars
<1>5. CASE CreateInsert(r)
  <2>1. PICK new \in Ids : new = NewId /\ listings[new] = Fresh
      BY <1>5, NewIdIsFresh DEF CreateInsert
  <2>2. listings' = listings \/ SetsRow(new, CreatedRow(q.args, q.now))
      BY <1>5, <2>1 DEF CreateInsert, SetsRow
  <2>3. CreatedRow(q.args, q.now).claimed
      BY <1>2, <1>5, CreatedRowIsRow DEF CreateInsert, At, InFlight
  <2>4. RowLeavesNoTrace(listings[new], CreatedRow(q.args, q.now))
      BY <2>1, <2>3 DEF RowLeavesNoTrace
  <2> QED
      BY <1>1, <2>2, <2>4, OneRowLeavesNoTrace
<1>6. CASE PatchWrite(r) \/ DeleteWrite(r)
  <2> DEFINE row == UpdatedRow(listings[id], q.args, q.now)
  <2>1. id \in Ids /\ q.args \in Patches \cup {DeactivatePatch}
      BY <1>2, <1>6 DEF PatchWrite, DeleteWrite, At, InFlight
  <2>2. [listings EXCEPT ![id] = UpdatedRow(@, q.args, q.now)] = [listings EXCEPT ![id] = row]
      BY <1>2, <2>1
  <2>3. listings' = listings \/ (Exists(id) /\ SetsRow(id, row))
      BY <1>6, <2>2 DEF PatchWrite, DeleteWrite, SetsRow
  <2>4. Exists(id) => row.missing = listings[id].missing
      BY <1>2, <2>1, OtherWritesDontMark
  <2> QED
      BY <1>1, <2>1, <2>3, <2>4, RewrittenRowLeavesNoTrace
<1>7. CASE ClaimWrite(r)
  <2> DEFINE row == ClaimedRow(listings[id], Snap(r).payment_wallet, q.now)
  <2>1. id \in Ids /\ Snap(r).payment_wallet \in Wallets
      BY <1>2, <1>7 DEF ClaimWrite, At, InFlight, Snap
  <2>2. [listings EXCEPT ![id] = ClaimedRow(@, Snap(r).payment_wallet, q.now)] = [listings EXCEPT ![id] = row]
      BY <1>2, <2>1
  <2>3. listings' = listings \/ (Exists(id) /\ SetsRow(id, row))
      BY <1>7, <2>2 DEF ClaimWrite, SetsRow
  <2>4. Exists(id) => row.missing = listings[id].missing
      BY <1>2, <2>1, OtherWritesDontMark
  <2> QED
      BY <1>1, <2>1, <2>3, <2>4, RewrittenRowLeavesNoTrace
<1>8. CASE RemoveWrite(r)
  <2>1. id \in Ids /\ listings[id] # Fresh
      BY <1>2, <1>8 DEF RemoveWrite, At, InFlight
  <2>2. listings' = listings \/ SetsRow(id, Gone)
      BY <1>8 DEF RemoveWrite, SetsRow
  <2>3. RowLeavesNoTrace(listings[id], Gone)
      BY <2>1 DEF RowLeavesNoTrace
  <2> QED
      BY <1>1, <2>1, <2>2, <2>3, OneRowLeavesNoTrace
<1>9. CASE HeartbeatWrite(r)
  <2> DEFINE row == [listings[id] EXCEPT !.last_seen_at = q.now]
  <2>1. id \in Ids
      BY <1>2, <1>9 DEF HeartbeatWrite, At, InFlight
  <2>2. [listings EXCEPT ![id] = [@ EXCEPT !.last_seen_at = q.now]] = [listings EXCEPT ![id] = row]
      BY <1>2, <2>1
  <2>3. listings' = listings \/ (Exists(id) /\ SetsRow(id, row))
      BY <1>9, <2>2 DEF HeartbeatWrite, SetsRow
  <2>4. Exists(id) => row.missing = listings[id].missing
      BY <1>2, <2>1, OtherWritesDontMark
  <2> QED
      BY <1>1, <2>1, <2>3, <2>4, RewrittenRowLeavesNoTrace
<1> QED
    BY <1>3, <1>4, <1>5, <1>6, <1>7, <1>8, <1>9 DEF HandlerStep

LEMMA OperatorLeavesNoTrace ==
    ASSUME OperatedInv, NEW s \in Operators, OperatorStep(s)
    PROVE  NoSyncsTrace
<1> DEFINE id == command[s].id
<1>1. listings' = listings => NoSyncsTrace
    BY RowsLeftNoTrace
<1>2. /\ Prompted(listings, clock, command[s]) /\ listings \in [Ids -> KeptRow \cup {Fresh, Gone}]
      /\ \A i \in Ids : Exists(i) => listings[i] \in Row
    BY OperatedFacts DEF CommandsHold, KeptTables
<1>3. CASE EditWrite(s)
  <2> DEFINE row == EditedRow(s, listings[id])
  <2>1. id \in Ids
      BY <1>2, <1>3 DEF EditWrite, Waiting, Prompted
  <2>2. [listings EXCEPT ![id] = EditedRow(s, @)] = [listings EXCEPT ![id] = row]
      BY <1>2, <2>1
  <2>3. listings' = listings \/ (Exists(id) /\ SetsRow(id, row))
      BY <1>3, <2>2 DEF EditWrite, GuardHolds, SetsRow
  <2>4. Exists(id) => row.missing = listings[id].missing
      BY <1>2, <2>1, EditKeepsMark
  <2> QED
      BY <1>1, <2>1, <2>3, <2>4, RewrittenRowLeavesNoTrace
<1>4. CASE HardDelete(s)
  <2>1. id \in Ids
      BY <1>2, <1>4 DEF HardDelete, Waiting, Prompted
  <2>2. listings' = listings \/ SetsRow(id, Gone)
      BY <1>4 DEF HardDelete, SetsRow
  <2>3. RowLeavesNoTrace(listings[id], Gone)
      BY DEF RowLeavesNoTrace
  <2> QED
      BY <1>1, <2>1, <2>2, <2>3, OneRowLeavesNoTrace
<1>5. CASE TestPurge(s)
    BY <1>5, RowsLeftNoTrace DEF TestPurge
<1>6. CASE \/ \E i \in Ids, edit \in Edits : EditStart(s, i, edit)
           \/ \E i \in Ids, expect \in Deletes : DeleteStart(s, i, expect)
           \/ \E age \in PurgeAges : TestPurgeStart(s, age)
           \/ OperatorAborts(s)
    BY <1>1, <1>6 DEF EditStart, DeleteStart, TestPurgeStart, OperatorAborts, storeVars
<1> QED
    BY <1>3, <1>4, <1>5, <1>6 DEF OperatorStep

(* The statements of a sync.                                               *)
Upserting == \E p \in Syncs : \E row \in sync[p].toWrite :
                 Upsert(p, row) /\ listings' = UpsertedTable(row, sync[p].now)
Marking == \E p \in Syncs, src \in Sources : MarkMissing(p, src)

LEMMA ImportLeavesTrace ==
    ASSUME OperatedInv, NEW p \in Syncs, SyncArrival(p) \/ SyncStep(p)
    PROVE  NoSyncsTrace \/ Upserting \/ Marking
<1>1. listings' = listings => NoSyncsTrace
    BY RowsLeftNoTrace
<1>2. ASSUME NEW row \in sync[p].toWrite, Upsert(p, row)
      PROVE  NoSyncsTrace \/ Upserting
    BY <1>1, <1>2 DEF Upsert, Upserting
<1>3. CASE AcquireLock(p) \/ BadBatch(p) \/ FinishPlan(p) \/ FinishSync(p) \/ SyncFails(p)
    BY <1>1, <1>3 DEF AcquireLock, BadBatch, FinishPlan, FinishSync, SyncFails, storeVars
<1>4. ASSUME NEW batch \in Batches, ReadBatch(p, batch)
      PROVE  NoSyncsTrace
    BY <1>1, <1>4 DEF ReadBatch, storeVars
<1>5. ASSUME NEW src \in Sources, PlanSource(p, src)
      PROVE  NoSyncsTrace
    BY <1>1, <1>5 DEF PlanSource, storeVars
<1> QED
    BY <1>2, <1>3, <1>4, <1>5 DEF SyncArrival, SyncStep, Marking

LEMMA OnlySyncsLeaveTraces ==
    ASSUME OperatedInv, [OperatedNext]_operatedVars
    PROVE  NoSyncsTrace \/ Upserting \/ Marking
<1>1. /\ listings' = listings => NoSyncsTrace
      /\ \A D : listings' = Purged(D) => NoSyncsTrace
    BY RowsLeftNoTrace DEF Purged
<1>2. ASSUME NEW r \in Requests, Arrival(r)
      PROVE  listings' = listings
    BY <1>2, ArrivalHolds DEF storeVars
<1>3. Browse \/ Restart => NoSyncsTrace
    BY <1>1 DEF Browse, MaybePurge, PurgeOrFail, Restart, RoutesRestart, StartupMaintenance, storeVars
<1>4. (\E r \in Requests : Finish(r)) \/ Tick \/ UNCHANGED operatedVars => NoSyncsTrace
    BY <1>1 DEF Finish, Tick, storeVars, operatedVars, vars
<1>5. RoutesNext => NoSyncsTrace
    BY <1>1, <1>2, <1>3, <1>4, HandlerLeavesNoTrace DEF RoutesNext
<1>6. ImportNext => NoSyncsTrace \/ Upserting \/ Marking
    BY ImportLeavesTrace DEF ImportNext
<1>7. OperatorNext => NoSyncsTrace
    BY OperatorLeavesNoTrace DEF OperatorNext
<1> QED
    BY <1>3, <1>4, <1>5, <1>6, <1>7 DEF OperatedNext, Next

(* An upsert adds what its plan let through, and takes marks away.         *)
LEMMA UpsertingIsPlanned ==
    ASSUME OperatedInv, PlansInv, Upserting
    PROVE  PlannedRemovalHonored /\ MarkedOnlyWhenAbsent
<1>1. PICK p \in Syncs : \E row \in sync[p].toWrite : Upsert(p, row) /\ listings' = UpsertedTable(row, sync[p].now)
    BY DEF Upserting
<1>2. PICK row \in sync[p].toWrite : Upsert(p, row) /\ listings' = UpsertedTable(row, sync[p].now)
    BY <1>1
<1> DEFINE held == SourceConflict(row.source, row.rec)
           new == ImportedRow(row.rec, row.source, sync[p].now)
<1>3. /\ sync[p].pc = "apply" /\ <<row.source, KeyOf(row)>> \notin sync[p].blocked
      /\ HasNewId \/ held # {}
    BY <1>2 DEF Upsert, PlansInv, PlanOK
<1>4. row.rec \in RecordType
    BY OperatedFacts DEF ImportTypeOK, SyncState, PlannedRows
<1>5. SourceSlot(new) = <<row.source, KeyOf(row)>>
    BY DEF SourceSlot, ImportedRow, KeyOf
<1>6. CASE held = {}
  <2>1. PICK id \in Ids : id = NewId /\ listings[id] = Fresh
      BY <1>3, <1>6, NewIdIsFresh
  <2>2. listings' = [listings EXCEPT ![id] = new]
      BY <1>2, <1>6, <2>1 DEF UpsertedTable
  <2> HIDE DEF new
  <2>3. listings'[id] = new /\ \A i \in Ids \ {id} : listings'[i] = listings[i]
      BY <2>2, OperatedFacts DEF KeptTables
  <2>4. PlannedRemovalHonored
      BY <1>3, <1>5, <2>3 DEF PlannedRemovalHonored, Exists
  <2>5. MarkedOnlyWhenAbsent
      BY <2>1, <2>3 DEF MarkedOnlyWhenAbsent, Exists
  <2> QED
      BY <2>4, <2>5
<1>7. CASE held # {}
  <2>1. \A i \in Ids : listings'[i] = IF i \in held THEN RefreshedRow(listings[i], row.rec) ELSE listings[i]
      BY <1>2, <1>7 DEF UpsertedTable
  <2>2. \A i \in held : i \in Ids /\ Exists(i) /\ ~RefreshedRow(listings[i], row.rec).missing
      BY <1>4, OperatedFacts DEF SourceConflict, RowsOf, Exists, RefreshedRow, Row
  <2> HIDE DEF held
  <2>3. PlannedRemovalHonored
      BY <2>1, <2>2 DEF PlannedRemovalHonored, Exists
  <2>4. MarkedOnlyWhenAbsent
      BY <2>1, <2>2 DEF MarkedOnlyWhenAbsent
  <2> QED
      BY <2>3, <2>4
<1> QED
    BY <1>6, <1>7

(* A marking comes after the last upsert of a whole batch.                 *)
LEMMA MarkingIsJustified ==
    ASSUME OperatedInv, PlansInv, Marking
    PROVE  PlannedRemovalHonored /\ MarkedOnlyWhenAbsent
<1>1. PICK p \in Syncs, src \in Sources : MarkMissing(p, src)
    BY DEF Marking
<1> DEFINE gone == MissingFrom(src, SeenKeys(p, src))
<1>2. \A i \in Ids : listings'[i] = IF i \in gone THEN [listings[i] EXCEPT !.missing = TRUE] ELSE listings[i]
    BY <1>1 DEF MarkMissing
<1>3. /\ sync[p].pc = "apply" /\ sync[p].toWrite = {}
      /\ ~sync[p].dry_run /\ src \in sync[p].sources
    BY <1>1 DEF MarkMissing, PlansInv, PlanOK
<1>4. \A i \in gone : /\ i \in Ids /\ Exists(i) /\ listings[i].source = src
                      /\ listings[i].endpoint_key \notin SeenKeys(p, src)
    BY DEF MissingFrom, RowsOf, Exists
<1> HIDE DEF gone
<1>5. PlannedRemovalHonored
    BY <1>2, <1>4 DEF PlannedRemovalHonored, Exists
<1>6. MarkedOnlyWhenAbsent
    BY <1>2, <1>3, <1>4 DEF MarkedOnlyWhenAbsent
<1> QED
    BY <1>5, <1>6

LEMMA SyncsKeepTheirWord ==
    ASSUME OperatedInv, PlansInv, [OperatedNext]_operatedVars
    PROVE  PlannedRemovalHonored /\ MarkedOnlyWhenAbsent
<1>1. CASE NoSyncsTrace
    BY <1>1 DEF NoSyncsTrace, RowLeavesNoTrace, PlannedRemovalHonored, MarkedOnlyWhenAbsent, Exists
<1> QED
    BY <1>1, OnlySyncsLeaveTraces, UpsertingIsPlanned, MarkingIsJustified

(* What a sync plans stays in order while operators write: the script      *)
(* never touches a sync.                                                   *)
THEOREM OperatedPlansHold == OperatedSpec => []PlansInv
<1>1. OperatedInit => PlansInv
    BY IdlePlanOK DEF OperatedInit, Init, ImportInit, PlansInv
<1>2. OperatedInv /\ PlansInv /\ [OperatedNext]_operatedVars => PlansInv'
  <2> SUFFICES ASSUME OperatedInv, PlansInv, [OperatedNext]_operatedVars
               PROVE  PlansInv'
      OBVIOUS
  <2>1. CASE [Next]_vars
      BY <2>1, OperatedFacts, BoardKeepsPlans
  <2>2. CASE UNCHANGED importVars
      BY <2>2 DEF PlansInv, importVars
  <2> QED
      BY <2>1, <2>2 DEF OperatedNext, operatedVars
<1> QED
    BY <1>1, <1>2, OperatedInvariant, PTL DEF OperatedSpec

(* No sync brings back what its plan found removed, whatever an operator   *)
(* deletes or edits between its reads and its writes.                      *)
THEOREM OperatedRemovalsStay == OperatedSpec => PlannedRemovalsAreHonored
<1>1. OperatedInv /\ PlansInv /\ [OperatedNext]_operatedVars => [PlannedRemovalHonored]_vars
    BY SyncsKeepTheirWord
<1> QED
    BY <1>1, OperatedInvariant, OperatedPlansHold, PTL DEF OperatedSpec, PlannedRemovalsAreHonored

(* A listing is marked missing only by a sync that wrote all of its batch  *)
(* and does not have it, also one whose URL or owner an operator changed.  *)
THEOREM OperatedMarksAreJustified == OperatedSpec => MarksAreJustified
<1>1. OperatedInv /\ PlansInv /\ [OperatedNext]_operatedVars => [MarkedOnlyWhenAbsent]_vars
    BY SyncsKeepTheirWord
<1> QED
    BY <1>1, OperatedInvariant, OperatedPlansHold, PTL DEF OperatedSpec, MarksAreJustified
=============================================================================
