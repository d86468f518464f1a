------------------------- MODULE VerifierInfoProofs -------------------------
(***************************************************************************)
(* The verifier info keeps what it knows, for any number of refresh        *)
(* threads, versions and restarts, proved from MemoryCoversRow: a process  *)
(* that has read the stored row holds at least as new a copy of it.        *)
(***************************************************************************)
EXTENDS VerifierInfo, TLAPS

RefreshInv == MemoryCoversRow /\ OneRefresher

(* At the start nothing is stored and one refresh is about to load it.     *)
LEMMA RefreshInit == VerifierInit => RefreshInv
<1> SUFFICES ASSUME VerifierInit PROVE RefreshInv OBVIOUS
<1>1. PICK t \in Threads : thread = Alone(t) BY DEF VerifierInit, BeforeStart
<1>2. VerifierTypeOK
  <2>1. thread \in [Threads -> [pc : Pcs, ok : BOOLEAN]]
    BY <1>1 DEF Alone, Beginning, Idle, Pcs
  <2>2. 0 \in Versions /\ 0 \in 0 .. MaxBoots
    BY VerifierAssumption DEF Versions
  <2>3. sections \in [Names -> [data : Versions, live : BOOLEAN]]
    BY <2>2 DEF VerifierInit, BeforeStart, Absent
  <2> QED BY <2>1, <2>2, <2>3 DEF VerifierInit, BeforeStart, VerifierTypeOK, Outcomes
<1>3. MemoryCoversRow
  BY <1>1, <1>2 DEF VerifierInit, BeforeStart, MemoryCoversRow, Alone, Beginning, Idle, Absent, Present
<1>4. OneRefresher
  BY <1>1 DEF VerifierInit, BeforeStart, OneRefresher, Active, Alone, Beginning, Idle
<1> QED BY <1>3, <1>4 DEF RefreshInv

(* Every variable keeps its type. *)
LEMMA RefreshTypes == VerifierTypeOK /\ [VerifierNext]_verifierVars => VerifierTypeOK'
<1> SUFFICES ASSUME VerifierTypeOK, [VerifierNext]_verifierVars PROVE VerifierTypeOK' OBVIOUS
<1> USE VerifierAssumption
    DEF VerifierTypeOK, Versions, Pcs, Outcomes, NeverAttempted, MaxWait, processVars
<1>1. CASE UNCHANGED verifierVars BY <1>1 DEF verifierVars
<1>2. ASSUME NEW n \in Names, Publish(n) PROVE VerifierTypeOK'
  BY <1>2 DEF Publish
<1>3. CASE VerifierTick BY <1>3 DEF VerifierTick
<1>4. ASSUME NEW t \in Threads, SnapshotStarts(t) PROVE VerifierTypeOK'
  BY <1>4 DEF SnapshotStarts, Beginning
<1>5. ASSUME NEW t \in Threads, Load(t) PROVE VerifierTypeOK'
  BY <1>5 DEF Load, Moves, LoadedSections
<1>6. ASSUME NEW t \in Threads, LoadFails(t) PROVE VerifierTypeOK'
  BY <1>6 DEF LoadFails, Moves
<1>7. ASSUME NEW t \in Threads, NEW n \in Names, Fetch(t, n) PROVE VerifierTypeOK'
  BY <1>7 DEF Fetch, Moves, After
<1>8. ASSUME NEW t \in Threads, NEW n \in Names, FetchFails(t, n) PROVE VerifierTypeOK'
  <2>1. thread' \in [Threads -> [pc : Pcs, ok : BOOLEAN]] BY <1>8 DEF FetchFails, After
  <2>2. sections' = [sections EXCEPT ![n].live = FALSE] BY <1>8 DEF FetchFails
  <2>3. sections' \in [Names -> [data : Versions, live : BOOLEAN]] BY <2>2
  <2>4. outcome' \in [Names -> Outcomes] BY <1>8 DEF FetchFails
  <2> QED BY <1>8, <2>1, <2>3, <2>4 DEF FetchFails
<1>9. ASSUME NEW t \in Threads, Save(t) PROVE VerifierTypeOK'
  BY <1>9 DEF Save, Moves, Saved
<1>10. ASSUME NEW t \in Threads, SkipSave(t) PROVE VerifierTypeOK'
  BY <1>10 DEF SkipSave, Moves
<1>11. ASSUME NEW t \in Threads, FinishRefresh(t) PROVE VerifierTypeOK'
  <2>1. sinceAttempt' \in 0 .. MaxWait BY <1>11 DEF FinishRefresh
  <2>2. thread' \in [Threads -> [pc : Pcs, ok : BOOLEAN]] BY <1>11 DEF FinishRefresh, Idle
  <2>3. thread[t].ok \in BOOLEAN OBVIOUS
  <2>4. lastOk' \in BOOLEAN BY <1>11, <2>3 DEF FinishRefresh
  <2> QED BY <1>11, <2>1, <2>2, <2>4 DEF FinishRefresh
<1>12. ASSUME NEW t \in Threads, RefreshCrashes(t) PROVE VerifierTypeOK'
  BY <1>12 DEF RefreshCrashes, Idle
<1>13. CASE ProcessRestarts
  <2>1. PICK t \in Threads : thread' = Alone(t) BY <1>13 DEF ProcessRestarts
  <2>2. thread' \in [Threads -> [pc : Pcs, ok : BOOLEAN]] BY <2>1 DEF Alone, Beginning, Idle
  <2>3. sections' \in [Names -> [data : Versions, live : BOOLEAN]] BY <1>13 DEF ProcessRestarts, Absent
  <2>4. boot' \in 0 .. MaxBoots BY <1>13 DEF ProcessRestarts
  <2>5. outcome' \in [Names -> Outcomes] /\ stored' = stored /\ published' = published
    BY <1>13 DEF ProcessRestarts
  <2>6. /\ loaded' \in BOOLEAN /\ refreshing' \in BOOLEAN /\ lastOk' \in BOOLEAN
        /\ loadFailed' \in BOOLEAN /\ sinceAttempt' = NeverAttempted
    BY <1>13 DEF ProcessRestarts
  <2> QED BY <2>2, <2>3, <2>4, <2>5, <2>6
<1> QED
  BY <1>1, <1>2, <1>3, <1>4, <1>5, <1>6, <1>7, <1>8, <1>9, <1>10, <1>11, <1>12, <1>13
     DEF VerifierNext, RefreshStep

(* The flag and the running refresh change together. *)
LEMMA RefresherStep ==
    VerifierTypeOK /\ OneRefresher /\ [VerifierNext]_verifierVars => OneRefresher'
<1> SUFFICES ASSUME VerifierTypeOK, OneRefresher, [VerifierNext]_verifierVars PROVE OneRefresher'
  OBVIOUS
<1> USE DEF OneRefresher, Active, VerifierTypeOK, processVars
<1>1. CASE UNCHANGED verifierVars BY <1>1 DEF verifierVars
<1>2. ASSUME NEW n \in Names, Publish(n) PROVE OneRefresher'
  BY <1>2 DEF Publish
<1>3. CASE VerifierTick BY <1>3 DEF VerifierTick
<1>4. ASSUME NEW t \in Threads, SnapshotStarts(t) PROVE OneRefresher'
  BY <1>4 DEF SnapshotStarts, Beginning
<1>5. ASSUME NEW t \in Threads, Load(t) \/ LoadFails(t) \/ Save(t) \/ SkipSave(t) PROVE OneRefresher'
  BY <1>5 DEF Load, LoadFails, Save, SkipSave, Moves
<1>6. ASSUME NEW t \in Threads, NEW n \in Names, Fetch(t, n) \/ FetchFails(t, n) PROVE OneRefresher'
  BY <1>6 DEF Fetch, FetchFails, Moves, After, Names
<1>7. ASSUME NEW t \in Threads, FinishRefresh(t) \/ RefreshCrashes(t) PROVE OneRefresher'
  <2>1. thread[t].pc # "idle" BY <1>7 DEF FinishRefresh, RefreshCrashes
  <2>2. \A u \in Threads : u # t => thread[u].pc = "idle" BY <2>1
  <2>3. thread' = [thread EXCEPT ![t] = Idle] /\ ~refreshing' BY <1>7 DEF FinishRefresh, RefreshCrashes
  <2>4. \A u \in Threads : thread'[u].pc = "idle" BY <2>2, <2>3 DEF Idle
  <2> QED BY <2>3, <2>4
<1>8. CASE ProcessRestarts
  <2>1. PICK t \in Threads : thread' = Alone(t) BY <1>8 DEF ProcessRestarts
  <2> QED BY <1>8, <2>1 DEF ProcessRestarts, Alone, Beginning, Idle
<1> QED BY <1>1, <1>2, <1>3, <1>4, <1>5, <1>6, <1>7, <1>8 DEF VerifierNext, RefreshStep

(* A step keeps memory in front of the row. *)
LEMMA MemoryStep == RefreshInv /\ [VerifierNext]_verifierVars => MemoryCoversRow'
<1> SUFFICES ASSUME RefreshInv, [VerifierNext]_verifierVars PROVE MemoryCoversRow' OBVIOUS
<1>0. VerifierTypeOK' BY RefreshTypes DEF RefreshInv, MemoryCoversRow
<1> USE <1>0 DEF RefreshInv, MemoryCoversRow, VerifierTypeOK, Versions, Present, processVars
<1>1. CASE UNCHANGED verifierVars BY <1>1 DEF verifierVars
<1>2. ASSUME NEW n \in Names, Publish(n) PROVE MemoryCoversRow'
  BY <1>2 DEF Publish
<1>3. CASE VerifierTick BY <1>3 DEF VerifierTick
<1>4. ASSUME NEW t \in Threads, SnapshotStarts(t) PROVE MemoryCoversRow'
  BY <1>4 DEF SnapshotStarts, Beginning
<1>5. ASSUME NEW t \in Threads, Load(t) PROVE MemoryCoversRow'
  BY <1>5 DEF Load, Moves, LoadedSections, OneRefresher, Active
<1>6. ASSUME NEW t \in Threads, LoadFails(t) PROVE MemoryCoversRow'
  BY <1>6 DEF LoadFails, Moves, OneRefresher, Active
<1>7. ASSUME NEW t \in Threads, NEW n \in Names, Fetch(t, n) PROVE MemoryCoversRow'
  BY <1>7 DEF Fetch, Moves, After, Names
<1>8. ASSUME NEW t \in Threads, NEW n \in Names, FetchFails(t, n) PROVE MemoryCoversRow'
  BY <1>8 DEF FetchFails, After, Names
<1>9. ASSUME NEW t \in Threads, Save(t) PROVE MemoryCoversRow'
  BY <1>9 DEF Save, Moves, Saved
<1>10. ASSUME NEW t \in Threads, SkipSave(t) PROVE MemoryCoversRow'
  BY <1>10 DEF SkipSave, Moves
<1>11. ASSUME NEW t \in Threads, FinishRefresh(t) PROVE MemoryCoversRow'
  BY <1>11 DEF FinishRefresh, Idle
<1>12. ASSUME NEW t \in Threads, RefreshCrashes(t) PROVE MemoryCoversRow'
  BY <1>12 DEF RefreshCrashes, Idle
<1>13. CASE ProcessRestarts
  BY <1>13 DEF ProcessRestarts, Alone, Beginning, Idle, Absent
<1> QED
  BY <1>1, <1>2, <1>3, <1>4, <1>5, <1>6, <1>7, <1>8, <1>9, <1>10, <1>11, <1>12, <1>13
     DEF VerifierNext, RefreshStep

(* The inductive invariant: a process that has read the row covers it, and *)
(* at most one refresh runs, as the flag says.                             *)
THEOREM RefreshInvariant == VerifierSpec => []RefreshInv
<1>1. RefreshInv /\ [VerifierNext]_verifierVars => RefreshInv'
  BY MemoryStep, RefresherStep DEF RefreshInv, MemoryCoversRow
<1> QED BY RefreshInit, <1>1, PTL DEF VerifierSpec

(* One refresh at a time, whatever snapshots, crashes and restarts do.     *)
THEOREM NeverTwoRefreshers == VerifierSpec => []OneRefresher
BY RefreshInvariant, PTL DEF RefreshInv

(* A process that has read the row covers it. *)
THEOREM MemoryAlwaysCoversRow == VerifierSpec => []MemoryCoversRow
BY RefreshInvariant, PTL DEF RefreshInv

(* The stored copy of a section is only ever replaced by one as new, by    *)
(* every process that could read it when it started.                       *)
THEOREM StoredStaysIfLoaded == VerifierSpec => StoredIsKeptIfLoaded
<1>1. RefreshInv /\ [VerifierNext]_verifierVars => [StoredKeptIfLoaded]_verifierVars
  <2> SUFFICES ASSUME RefreshInv, VerifierNext PROVE StoredKeptIfLoaded \/ UNCHANGED verifierVars
    OBVIOUS
  <2> USE DEF StoredKeptIfLoaded, RefreshInv, MemoryCoversRow, VerifierTypeOK, Versions
  <2>1. ASSUME NEW t \in Threads, Save(t) PROVE StoredKeptIfLoaded
    BY <2>1 DEF Save, Moves, Saved
  <2>2. CASE stored' = stored BY <2>2
  <2> QED
    BY <2>1, <2>2 DEF VerifierNext, RefreshStep, Publish, VerifierTick, SnapshotStarts, Load, LoadFails,
       Fetch, FetchFails, SkipSave, FinishRefresh, RefreshCrashes, ProcessRestarts
<1> QED BY <1>1, RefreshInvariant, PTL DEF VerifierSpec, StoredIsKeptIfLoaded

(* Within one process a section that is known stays known, at a version    *)
(* that never goes back.                                                   *)
THEOREM KnownStaysKnown == VerifierSpec => LastKnownIsKept
<1>1. RefreshInv /\ [VerifierNext]_verifierVars => [LastKnownKept]_verifierVars
  <2> SUFFICES ASSUME RefreshInv, VerifierNext PROVE LastKnownKept \/ UNCHANGED verifierVars
    OBVIOUS
  <2> USE DEF LastKnownKept, RefreshInv, MemoryCoversRow, VerifierTypeOK, Versions, Present
  <2>1. ASSUME NEW t \in Threads, Load(t) PROVE LastKnownKept
    BY <2>1 DEF Load, LoadedSections
  <2>2. ASSUME NEW t \in Threads, NEW n \in Names, Fetch(t, n) \/ FetchFails(t, n) PROVE LastKnownKept
    BY <2>2 DEF Fetch, FetchFails
  <2>3. CASE ProcessRestarts BY <2>3 DEF ProcessRestarts
  <2>4. CASE sections' = sections BY <2>4
  <2> QED
    BY <2>1, <2>2, <2>3, <2>4 DEF VerifierNext, RefreshStep, Publish, VerifierTick, SnapshotStarts,
       LoadFails, Save, SkipSave, FinishRefresh, RefreshCrashes, processVars
<1> QED BY <1>1, RefreshInvariant, PTL DEF VerifierSpec, LastKnownIsKept

-----------------------------------------------------------------------------
(* What "live" means: a section is live exactly when the last fetch of it  *)
(* by this process went well, and then it has data.  LiveIsConfirmed alone *)
(* does not say that what is loaded from the row was never fetched.        *)
ConfirmedInv == \A n \in Names : /\ outcome[n] = "ok" <=> sections[n].live
                                 /\ sections[n].live => Present(n)

LEMMA ConfirmedStep == RefreshInv /\ ConfirmedInv /\ [VerifierNext]_verifierVars => ConfirmedInv'
<1> SUFFICES ASSUME RefreshInv, ConfirmedInv, [VerifierNext]_verifierVars PROVE ConfirmedInv' OBVIOUS
<1> USE DEF ConfirmedInv, RefreshInv, MemoryCoversRow, VerifierTypeOK, Present, processVars
<1>1. ASSUME NEW t \in Threads, Load(t) PROVE ConfirmedInv'
  BY <1>1 DEF Load, LoadedSections
<1>2. ASSUME NEW t \in Threads, NEW n \in Names, Fetch(t, n) PROVE ConfirmedInv'
  BY <1>2 DEF Fetch
<1>3. ASSUME NEW t \in Threads, NEW n \in Names, FetchFails(t, n) PROVE ConfirmedInv'
  BY <1>3 DEF FetchFails
<1>4. CASE ProcessRestarts
  BY <1>4 DEF ProcessRestarts, Absent
<1>5. CASE UNCHANGED <<sections, outcome>>
  BY <1>5
<1> QED
  BY <1>1, <1>2, <1>3, <1>4, <1>5 DEF VerifierNext, RefreshStep, Publish, VerifierTick, SnapshotStarts,
     LoadFails, Save, SkipSave, FinishRefresh, RefreshCrashes, verifierVars

(* Nothing is shown as live that this process has not fetched, and nothing *)
(* whose last fetch failed.                                                *)
THEOREM LiveWasConfirmed == VerifierSpec => []LiveIsConfirmed
<1>1. VerifierInit => ConfirmedInv
  BY DEF VerifierInit, BeforeStart, ConfirmedInv, Absent
<1>2. ConfirmedInv => LiveIsConfirmed
  BY DEF ConfirmedInv, LiveIsConfirmed, Status, Names
<1> QED
  BY <1>1, <1>2, ConfirmedStep, RefreshInvariant, PTL DEF VerifierSpec
=============================================================================
