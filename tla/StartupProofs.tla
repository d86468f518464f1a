--------------------------- MODULE StartupProofs ---------------------------
(***************************************************************************)
(* A process serves only a migrated database, migrates alone and accounts  *)
(* for its pools, for any number of processes, threads, pools and          *)
(* listings: from who holds the lock, and from what each statement of a    *)
(* migration can rely on having been done before it.                       *)
(***************************************************************************)
EXTENDS Startup, TLAPS

(* What a migration has to leave behind: no listing without a key. *)
Keyless(i) == Exists(i) /\ rows[i].key = None
Keyed == \A i \in Ids : ~Keyless(i)

(* Behind the first answer of _ensure_schema: connecting, or connected.    *)
Served(t) == thread[t].goal = "call" /\ thread[t].pc \in {"want", "open", "opening", "return", "run"}

GoalFits(t) ==
    /\ thread[t].pc \in {"idle", "first", "run", "close"} => thread[t].goal = "call"
    /\ thread[t].pc \in Migration \cup {"second"} => thread[t].goal = "schema"

(* What is there when t is about to run its next statement; it knows of    *)
(* every listing that is still without a key.                              *)
ProgressOf(t) ==
    /\ thread[t].pc \in Migration \ {"columns"} => "key" \in schema
    /\ thread[t].pc \in {"drop", "create", "vectors", "imports", "publish"} => "guard" \in schema
    /\ thread[t].pc \in {"create", "vectors", "imports", "publish"} => "vector" \in schema
    /\ thread[t].pc = "publish" => "imports" \in schema
    /\ thread[t].pc = "backfill" => \A i \in Ids : Keyless(i) => \E v \in Versions : <<i, v>> \in thread[t].todo
    /\ thread[t].pc \in {"guard", "drop", "create", "vectors", "imports", "publish"} => Keyed

ServedOK(t) == Served(t) \/ ready[Proc(t)] => Migrated /\ Keyed

MigrationOf(t) == GoalFits(t) /\ ProgressOf(t) /\ ServedOK(t)

(* The inductive invariants: of the lock, and on top of it of the          *)
(* migration and of the pools.                                             *)
LockInv == StartupTypeOK /\ OneMigratorPerProcess
MigrationInv == LockInv /\ \A t \in Threads : MigrationOf(t)
OpenersFindNone == \A t \in Threads : At(t, "opening") => pool[Proc(t)] = NoPool
PoolInv == LockInv /\ PoolsAreAccounted /\ OpenersFindNone

-----------------------------------------------------------------------------
(* Types. *)

LEMMA IdleIsThread ==
    /\ Idle \in Thread
    /\ [Idle EXCEPT !.pc = "want"] \in Thread
    /\ \A x \in Pools \cup {NoPool} : [Idle EXCEPT !.pc = "close", !.mine = x] \in Thread
BY DEF Idle, Thread, Jobs, Pcs, CallPcs

(* Whatever a step changes of a thread, it stays one. *)
LEMMA ThreadChanges ==
    ASSUME StartupTypeOK, NEW t \in Threads
    PROVE  /\ \A x \in Thread : [thread EXCEPT ![t] = x] \in [Threads -> Thread]
           /\ \A pc \in Pcs : [thread EXCEPT ![t].pc = pc] \in [Threads -> Thread]
           /\ \A pc \in Pcs, goal \in {"call", "schema"} :
                 [thread EXCEPT ![t].pc = pc, ![t].goal = goal] \in [Threads -> Thread]
           /\ \A pc \in Pcs, mine \in Pools \cup {NoPool} :
                 [thread EXCEPT ![t].pc = pc, ![t].mine = mine] \in [Threads -> Thread]
           /\ \A pc \in Pcs, todo \in Jobs :
                 [thread EXCEPT ![t].pc = pc, ![t].todo = todo] \in [Threads -> Thread]
           /\ \A todo \in Jobs : [thread EXCEPT ![t].todo = todo] \in [Threads -> Thread]
           /\ thread[t].todo \in Jobs
<1>1. thread \in [Threads -> Thread] BY DEF StartupTypeOK
<1>2. /\ \A x \in Thread : [thread EXCEPT ![t] = x] \in [Threads -> Thread]
      /\ \A pc \in Pcs : [thread EXCEPT ![t].pc = pc] \in [Threads -> Thread]
  BY <1>1 DEF Thread
<1>3. \A pc \in Pcs, goal \in {"call", "schema"} :
         [thread EXCEPT ![t].pc = pc, ![t].goal = goal] \in [Threads -> Thread]
  BY <1>1 DEF Thread
<1>4. \A pc \in Pcs, mine \in Pools \cup {NoPool} :
         [thread EXCEPT ![t].pc = pc, ![t].mine = mine] \in [Threads -> Thread]
  BY <1>1 DEF Thread
<1>5. \A pc \in Pcs, todo \in Jobs :
         [thread EXCEPT ![t].pc = pc, ![t].todo = todo] \in [Threads -> Thread]
  BY <1>1 DEF Thread
<1>6. /\ \A todo \in Jobs : [thread EXCEPT ![t].todo = todo] \in [Threads -> Thread]
      /\ thread[t].todo \in Jobs
  BY <1>1 DEF Thread
<1> QED BY <1>2, <1>3, <1>4, <1>5, <1>6

(* A listing is written with a version of its own range. *)
LEMMA TriggeredIsRow ==
    ASSUME NEW row \in Row
    PROVE  Triggered(row) \in Row /\ Triggered(row).key = row.key
BY DEF Triggered, Row

LEMMA StartupTypesInit == StartupInit => StartupTypeOK
<1> SUFFICES ASSUME StartupInit PROVE StartupTypeOK OBVIOUS
<1>1. [version |-> 0, key |-> None, vector |-> None] \in Row
  BY StartupAssumption DEF Row, Versions, None
<1> QED BY <1>1, IdleIsThread DEF StartupInit, StartupTypeOK

(* The statements of a caller keep the table's type and its keys. *)
LEMMA CallersWrite ==
    ASSUME StartupTypeOK, NEW i \in Ids, Insert(i) \/ Edit(i) \/ Delete(i)
    PROVE  /\ rows' \in [Ids -> Row \cup {Missing}]
           /\ \A j \in Ids : Keyless(j)' => Keyless(j)
<1> USE StartupAssumption DEF StartupTypeOK
<1>1. CASE Insert(i)
  <2> DEFINE new == [version |-> 0, key |-> 0, vector |-> None]
  <2>1. new \in Row /\ new.key # None BY DEF Row, Versions, None
  <2>2. Triggered(new) \in Row /\ Triggered(new).key # None BY <2>1, TriggeredIsRow
  <2>3. rows' = [rows EXCEPT ![i] = Triggered(new)] BY <1>1 DEF Insert
  <2> HIDE DEF new
  <2> QED BY <2>2, <2>3 DEF Keyless, Exists
<1>2. CASE Edit(i)
  <2> DEFINE v == rows[i].version + 1
             new == [rows[i] EXCEPT !.version = v, !.key = v]
  <2>1. rows[i] \in Row /\ rows[i].version < MaxVersion BY <1>2 DEF Edit, Exists
  <2>2. v \in Versions /\ v # None BY <2>1 DEF Row, Versions, None
  <2>3. new \in Row /\ new.key # None BY <2>1, <2>2 DEF Row
  <2>4. Triggered(new) \in Row /\ Triggered(new).key # None BY <2>3, TriggeredIsRow
  <2>5. rows' = [rows EXCEPT ![i] = Triggered(new)] BY <1>2 DEF Edit
  <2> HIDE DEF new
  <2> QED BY <2>4, <2>5 DEF Keyless, Exists
<1>3. CASE Delete(i) BY <1>3 DEF Delete, Keyless, Exists
<1> QED BY <1>1, <1>2, <1>3

(* The backfills keep the table's type and give no listing's key away. *)
LEMMA BackfillsWrite ==
    ASSUME StartupTypeOK, NEW t \in Threads, BackfillKey(t) \/ BackfillVectors(t)
    PROVE  /\ rows' \in [Ids -> Row \cup {Missing}]
           /\ \A j \in Ids : Keyless(j)' => Keyless(j)
<1> USE DEF StartupTypeOK
<1>1. CASE BackfillKey(t)
  <2>1. PICK job \in thread[t].todo :
          rows' = [rows EXCEPT ![job[1]] =
                     IF @ = Missing THEN @ ELSE Triggered([@ EXCEPT !.key = job[2]])]
    BY <1>1 DEF BackfillKey
  <2>2. job[1] \in Ids /\ job[2] \in Versions BY DEF Thread, Jobs
  <2>3. job[2] # None BY <2>2, StartupAssumption DEF Versions, None
  <2>4. CASE rows[job[1]] = Missing BY <2>1, <2>2, <2>4 DEF Keyless, Exists
  <2>5. CASE rows[job[1]] # Missing
    <3> DEFINE new == [rows[job[1]] EXCEPT !.key = job[2]]
    <3>1. new \in Row /\ new.key # None BY <2>2, <2>3, <2>5 DEF Row
    <3>2. Triggered(new) \in Row /\ Triggered(new).key # None BY <3>1, TriggeredIsRow
    <3>3. rows' = [rows EXCEPT ![job[1]] = Triggered(new)] BY <2>1, <2>2, <2>5
    <3> HIDE DEF new
    <3> QED BY <2>2, <3>2, <3>3 DEF Keyless, Exists
  <2> QED BY <2>4, <2>5
<1>2. CASE BackfillVectors(t)
  <2> SUFFICES ASSUME NEW j \in Ids
               PROVE rows'[j] \in Row \cup {Missing} /\ (Keyless(j)' => Keyless(j))
    BY <1>2 DEF BackfillVectors
  <2>1. rows'[j] = IF Exists(j) /\ rows[j].vector = None
                   THEN [rows[j] EXCEPT !.vector = rows[j].version] ELSE rows[j]
    BY <1>2 DEF BackfillVectors
  <2> QED BY <2>1, MissingRowAssumption DEF Row, Keyless, Exists
<1> QED BY <1>1, <1>2

(* No step of anybody takes a key away, or anything the migration made but *)
(* the trigger.                                                            *)
LEMMA StatementsKeep ==
    ASSUME StartupTypeOK, [StartupNext]_startupVars
    PROVE  /\ rows' \in [Ids -> Row \cup {Missing}]
           /\ schema' \subseteq Objects
           /\ schema \subseteq schema' \cup {"trigger"}
           /\ \A j \in Ids : Keyless(j)' => Keyless(j)
<1> DEFINE Goal == /\ rows' \in [Ids -> Row \cup {Missing}]
                   /\ schema' \subseteq Objects
                   /\ schema \subseteq schema' \cup {"trigger"}
                   /\ \A j \in Ids : Keyless(j)' => Keyless(j)
<1>1. UNCHANGED rows => /\ rows' \in [Ids -> Row \cup {Missing}]
                        /\ \A j \in Ids : Keyless(j)' => Keyless(j)
  BY DEF StartupTypeOK, Keyless, Exists
<1>2. CASE UNCHANGED databaseVars BY <1>1, <1>2 DEF databaseVars, StartupTypeOK
<1>3. ASSUME NEW t \in Threads, AddColumns(t) \/ CreateGuard(t) \/ DropTrigger(t) \/ CreateTrigger(t) \/ AddImports(t)
      PROVE Goal
  <2>1. UNCHANGED rows BY <1>3 DEF AddColumns, CreateGuard, DropTrigger, CreateTrigger, AddImports
  <2>2. schema' \subseteq Objects /\ schema \subseteq schema' \cup {"trigger"}
    BY <1>3 DEF AddColumns, CreateGuard, DropTrigger, CreateTrigger, AddImports, StartupTypeOK, Objects
  <2> QED BY <1>1, <2>1, <2>2
<1>4. ASSUME NEW t \in Threads, BackfillKey(t) \/ BackfillVectors(t) PROVE Goal
  <2>1. UNCHANGED schema BY <1>4 DEF BackfillKey, BackfillVectors
  <2> QED BY <1>4, <2>1, BackfillsWrite DEF StartupTypeOK
<1>5. ASSUME NEW t \in Threads, Run(t) PROVE Goal
  <2>1. UNCHANGED schema BY <1>5 DEF Run
  <2>2. UNCHANGED rows \/ \E i \in Ids : Insert(i) \/ Edit(i) \/ Delete(i) BY <1>5 DEF Run
  <2> QED BY <1>1, <2>1, <2>2, CallersWrite DEF StartupTypeOK
<1>6. ASSUME NEW t \in Threads,
             \/ Call(t) \/ FirstCheck(t) \/ SecondCheck(t) \/ LookForPool(t) \/ BeginOpen(t) \/ PoolOpens(t)
             \/ PoolFailsToOpen(t) \/ ReturnPool(t) \/ SelectUnkeyed(t) \/ KeysBackfilled(t)
             \/ PublishReady(t) \/ MigrationFails(t) \/ CloseDb(t) \/ ClosePool(t)
      PROVE UNCHANGED databaseVars
  BY <1>6 DEF Call, FirstCheck, SecondCheck, LookForPool, BeginOpen, PoolOpens, PoolFailsToOpen, ReturnPool,
              SelectUnkeyed, KeysBackfilled, PublishReady, MigrationFails, CloseDb, ClosePool, databaseVars
<1>7. ASSUME NEW p \in Processes, Crash(p) PROVE UNCHANGED databaseVars BY <1>7 DEF Crash
<1>8. CASE UNCHANGED startupVars BY <1>2, <1>8 DEF startupVars, databaseVars
<1> HIDE DEF Goal
<1>9. Goal
  BY <1>2, <1>3, <1>4, <1>5, <1>6, <1>7, <1>8 DEF StartupNext, CallStep, MigrationStep, Goal
<1> QED BY <1>9 DEF Goal

(* Every variable keeps its type. *)
ProcessTypes ==
    /\ pool \in [Processes -> Pools \cup {NoPool}]
    /\ openPools \subseteq Processes \X Pools
    /\ ready \in [Processes -> BOOLEAN]
    /\ lock \in [Processes -> Threads \cup {NoThread}]
    /\ thread \in [Threads -> Thread]

LEMMA CallTypes ==
    ASSUME StartupTypeOK, NEW t \in Threads,
           \/ Call(t) \/ FirstCheck(t) \/ SecondCheck(t) \/ LookForPool(t) \/ BeginOpen(t)
           \/ PoolOpens(t) \/ PoolFailsToOpen(t) \/ ReturnPool(t) \/ Run(t) \/ CloseDb(t) \/ ClosePool(t)
    PROVE  ProcessTypes'
<1>1. /\ pool \in [Processes -> Pools \cup {NoPool}] /\ openPools \subseteq Processes \X Pools
      /\ ready \in [Processes -> BOOLEAN] /\ lock \in [Processes -> Threads \cup {NoThread}]
      /\ thread \in [Threads -> Thread]
  BY DEF StartupTypeOK
<1>2. Proc(t) \in Processes /\ pool[Proc(t)] \in Pools \cup {NoPool} BY <1>1, StartupAssumption DEF Proc
<1>3. lock' = lock \/ lock' = [lock EXCEPT ![Proc(t)] = t] \/ lock' = [lock EXCEPT ![Proc(t)] = NoThread]
  BY DEF Call, FirstCheck, SecondCheck, LookForPool, BeginOpen, PoolOpens, PoolFailsToOpen, ReturnPool, Run,
         CloseDb, ClosePool, Acquires, Releases
<1>4. lock' \in [Processes -> Threads \cup {NoThread}] BY <1>1, <1>2, <1>3
<1>5. ready' = ready \/ ready' = [ready EXCEPT ![Proc(t)] = FALSE]
  BY DEF Call, FirstCheck, SecondCheck, LookForPool, BeginOpen, PoolOpens, PoolFailsToOpen, ReturnPool, Run,
         CloseDb, ClosePool
<1>6. ready' \in [Processes -> BOOLEAN] BY <1>1, <1>2, <1>5
<1>7. /\ pool' = pool \/ \E x \in Pools \cup {NoPool} : pool' = [pool EXCEPT ![Proc(t)] = x]
      /\ \/ openPools' = openPools \/ \E x \in Pools : openPools' = openPools \cup {<<Proc(t), x>>}
         \/ openPools' = openPools \ {<<Proc(t), thread[t].mine>>}
  BY DEF Call, FirstCheck, SecondCheck, LookForPool, BeginOpen, PoolOpens, PoolFailsToOpen, ReturnPool, Run,
         CloseDb, ClosePool
<1>8. pool' \in [Processes -> Pools \cup {NoPool}] BY <1>1, <1>2, <1>7
<1>9. openPools' \subseteq Processes \X Pools BY <1>1, <1>2, <1>7
<1>10. \/ \E x \in Thread : thread' = [thread EXCEPT ![t] = x]
       \/ \E pc \in Pcs : thread' = [thread EXCEPT ![t].pc = pc]
       \/ \E pc \in Pcs, goal \in {"call", "schema"} : thread' = [thread EXCEPT ![t].pc = pc, ![t].goal = goal]
       \/ \E pc \in Pcs, mine \in Pools \cup {NoPool} :
             thread' = [thread EXCEPT ![t].pc = pc, ![t].mine = mine]
  <2> USE DEF Pcs, CallPcs, Migration, Goes, Raises
  <2>1. CASE Call(t) BY <2>1 DEF Call
  <2>2. CASE FirstCheck(t) BY <2>2 DEF FirstCheck
  <2>3. CASE SecondCheck(t) BY <2>3, IdleIsThread DEF SecondCheck
  <2>4. CASE LookForPool(t) BY <2>4 DEF LookForPool
  <2>5. CASE BeginOpen(t) BY <2>5 DEF BeginOpen
  <2>6. CASE PoolOpens(t) BY <2>6 DEF PoolOpens
  <2>7. CASE ReturnPool(t) BY <2>7, <1>2 DEF ReturnPool
  <2>8. CASE CloseDb(t) BY <2>8, <1>2, IdleIsThread DEF CloseDb
  <2>9. CASE PoolFailsToOpen(t) \/ Run(t) \/ ClosePool(t)
    <3>1. thread' = [thread EXCEPT ![t] = Idle] BY <2>9 DEF PoolFailsToOpen, Run, ClosePool
    <3> QED BY <3>1, IdleIsThread
  <2> QED BY <2>1, <2>2, <2>3, <2>4, <2>5, <2>6, <2>7, <2>8, <2>9
<1>11. thread' \in [Threads -> Thread]
  <2>1. ASSUME NEW x \in Thread, thread' = [thread EXCEPT ![t] = x] PROVE thread' \in [Threads -> Thread]
    BY <1>1, <2>1
  <2>2. ASSUME NEW pc \in Pcs, thread' = [thread EXCEPT ![t].pc = pc] PROVE thread' \in [Threads -> Thread]
    BY <2>2, ThreadChanges
  <2>3. ASSUME NEW pc \in Pcs, NEW goal \in {"call", "schema"},
               thread' = [thread EXCEPT ![t].pc = pc, ![t].goal = goal]
        PROVE  thread' \in [Threads -> Thread]
    BY <2>3, ThreadChanges
  <2>4. ASSUME NEW pc \in Pcs, NEW mine \in Pools \cup {NoPool},
               thread' = [thread EXCEPT ![t].pc = pc, ![t].mine = mine]
        PROVE  thread' \in [Threads -> Thread]
    BY <2>4, ThreadChanges
  <2> QED BY <1>10, <2>1, <2>2, <2>3, <2>4
<1> QED BY <1>4, <1>6, <1>8, <1>9, <1>11 DEF ProcessTypes

LEMMA MigrationTypes ==
    ASSUME StartupTypeOK, NEW t \in Threads, MigrationStep(t)
    PROVE  ProcessTypes'
<1>1. /\ pool \in [Processes -> Pools \cup {NoPool}] /\ openPools \subseteq Processes \X Pools
      /\ ready \in [Processes -> BOOLEAN] /\ lock \in [Processes -> Threads \cup {NoThread}]
      /\ thread \in [Threads -> Thread]
  BY DEF StartupTypeOK
<1>2. Proc(t) \in Processes BY StartupAssumption DEF Proc
<1>3. CASE PublishReady(t) \/ MigrationFails(t)
  <2>1. UNCHANGED <<pool, openPools>> BY <1>3 DEF PublishReady, MigrationFails
  <2>2. lock' = [lock EXCEPT ![Proc(t)] = NoThread] BY <1>3 DEF PublishReady, MigrationFails, Releases
  <2>3. ready' = ready \/ ready' = [ready EXCEPT ![Proc(t)] = TRUE] BY <1>3 DEF PublishReady, MigrationFails
  <2>4. \E x \in Thread : thread' = [thread EXCEPT ![t] = x]
    BY <1>3, IdleIsThread DEF PublishReady, MigrationFails, Raises
  <2>5. thread' \in [Threads -> Thread] BY <2>4, ThreadChanges
  <2> QED BY <1>1, <1>2, <2>1, <2>2, <2>3, <2>5 DEF ProcessTypes
<1>4. CASE SelectUnkeyed(t)
  <2> DEFINE found == {<<i, rows[i].version>> : i \in {j \in Ids : Exists(j) /\ rows[j].key = None}}
  <2>1. ASSUME NEW i \in Ids, Exists(i) PROVE rows[i].version \in Versions
    BY <2>1 DEF Exists, Row, StartupTypeOK
  <2>2. ASSUME NEW job \in found PROVE job \in Ids \X Versions BY <2>1
  <2>3. thread' = [thread EXCEPT ![t].pc = "backfill", ![t].todo = found] BY <1>4 DEF SelectUnkeyed
  <2> HIDE DEF found
  <2>4. found \in Jobs /\ "backfill" \in Pcs BY <2>2 DEF Jobs, Pcs, Migration
  <2>5. thread' \in [Threads -> Thread] BY <2>3, <2>4, ThreadChanges
  <2> QED BY <1>1, <1>4, <2>5 DEF SelectUnkeyed, ProcessTypes
<1>5. CASE BackfillKey(t)
  <2>1. PICK job \in thread[t].todo : thread' = [thread EXCEPT ![t].todo = @ \ {job}] BY <1>5 DEF BackfillKey
  <2>2. thread[t].todo \ {job} \in Jobs BY ThreadChanges DEF Jobs
  <2>3. thread' = [thread EXCEPT ![t].todo = thread[t].todo \ {job}] BY <2>1
  <2>4. thread' \in [Threads -> Thread] BY <2>2, <2>3, ThreadChanges
  <2> QED BY <1>1, <1>5, <2>4 DEF BackfillKey, ProcessTypes
<1>6. CASE \/ AddColumns(t) \/ KeysBackfilled(t) \/ CreateGuard(t) \/ DropTrigger(t) \/ CreateTrigger(t)
           \/ BackfillVectors(t) \/ AddImports(t)
  <2>1. \E pc \in Pcs : thread' = [thread EXCEPT ![t].pc = pc]
    BY <1>6 DEF AddColumns, KeysBackfilled, CreateGuard, DropTrigger, CreateTrigger, BackfillVectors, AddImports,
                Statement, Goes, Pcs, Migration
  <2>2. UNCHANGED <<pool, openPools, ready, lock>>
    BY <1>6 DEF AddColumns, KeysBackfilled, CreateGuard, DropTrigger, CreateTrigger, BackfillVectors, AddImports,
                Statement
  <2>3. thread' \in [Threads -> Thread] BY <2>1, ThreadChanges
  <2> QED BY <1>1, <2>2, <2>3 DEF ProcessTypes
<1> QED BY <1>3, <1>4, <1>5, <1>6 DEF MigrationStep

LEMMA StartupTypesStep == StartupTypeOK /\ [StartupNext]_startupVars => StartupTypeOK'
<1> SUFFICES ASSUME StartupTypeOK, [StartupNext]_startupVars PROVE StartupTypeOK' OBVIOUS
<1>1. rows' \in [Ids -> Row \cup {Missing}] /\ schema' \subseteq Objects BY StatementsKeep
<1>2. CASE UNCHANGED startupVars BY <1>2 DEF startupVars, StartupTypeOK, ProcessTypes
<1>3. ASSUME NEW p \in Processes, Crash(p) PROVE ProcessTypes'
  BY <1>3, IdleIsThread DEF Crash, ProcessTypes, StartupTypeOK
<1>4. CASE StartupNext
  <2>1. ProcessTypes' BY <1>3, <1>4, CallTypes, MigrationTypes DEF StartupNext, CallStep
  <2> QED BY <1>1, <2>1 DEF ProcessTypes, StartupTypeOK
<1> QED BY <1>2, <1>4

(* Every variable keeps its type, whoever fails or crashes. *)
THEOREM StartupTypes == StartupSpec => []StartupTypeOK
BY StartupTypesInit, StartupTypesStep, PTL DEF StartupSpec

-----------------------------------------------------------------------------
(* The lock.  It is free, or held by the one thread of its process that    *)
(* opens the pool or migrates.                                             *)

LEMMA LockInit == StartupInit => LockInv
<1> SUFFICES ASSUME StartupInit PROVE LockInv OBVIOUS
<1>1. \A t \in Threads : /\ ~Holding(t) /\ ~Migrating(t) /\ lock[Proc(t)] = NoThread /\ t # NoThread
  BY StartupAssumption DEF StartupInit, Holding, Migrating, Migration, At, Idle, Proc
<1> QED BY <1>1, StartupTypesInit DEF LockInv, OneMigratorPerProcess

(* The steps of a thread by what they do with the lock: take it when it is *)
(* free, give it back, or leave it as it is.                               *)
Takes(t) == Free(t) /\ Acquires(t) /\ Holding(t)'
Gives(t) == Holding(t) /\ Releases(t) /\ ~Holding(t)'
Leaves(t) == UNCHANGED lock /\ (Holding(t)' <=> Holding(t))
Moved(t) == thread' = [thread EXCEPT ![t] = thread'[t]]

LEMMA LockSteps ==
    ASSUME LockInv, NEW t \in Threads, Call(t) \/ CallStep(t) \/ CloseDb(t) \/ ClosePool(t)
    PROVE  /\ Moved(t)
           /\ Takes(t) \/ Gives(t) \/ Leaves(t)
           /\ ready' = ready \/ (\E b \in BOOLEAN : ready' = [ready EXCEPT ![Proc(t)] = b])
           /\ ready'[Proc(t)] => ready[Proc(t)] \/ Gives(t)
           /\ Migrating(t)' => ~ready'[Proc(t)]
<1>1. /\ thread \in [Threads -> Thread] /\ ready \in [Processes -> BOOLEAN] /\ Proc(t) \in Processes
      /\ (Migrating(t) => ~ready[Proc(t)])
  BY StartupAssumption DEF LockInv, StartupTypeOK, Proc, OneMigratorPerProcess
<1> USE <1>1 DEF Moved, Holding, Migrating, Migration, At, Goes, Raises, Idle, Thread, Leaves
<1>3. CASE Call(t) BY <1>3 DEF Call
<1>4. CASE FirstCheck(t) BY <1>4 DEF FirstCheck
<1>5. CASE SecondCheck(t) BY <1>5 DEF SecondCheck, Takes
<1>6. CASE LookForPool(t) BY <1>6 DEF LookForPool
<1>7. CASE BeginOpen(t) BY <1>7 DEF BeginOpen, Takes
<1>8. CASE PoolOpens(t) \/ PoolFailsToOpen(t) BY <1>8 DEF PoolOpens, PoolFailsToOpen, Gives
<1>9. CASE ReturnPool(t) BY <1>9 DEF ReturnPool
<1>10. CASE AddColumns(t) \/ KeysBackfilled(t) \/ CreateGuard(t) \/ DropTrigger(t) \/ CreateTrigger(t)
            \/ BackfillVectors(t) \/ AddImports(t)
  BY <1>10 DEF AddColumns, KeysBackfilled, CreateGuard, DropTrigger, CreateTrigger, BackfillVectors, AddImports,
               Statement
<1>11. CASE SelectUnkeyed(t) BY <1>11 DEF SelectUnkeyed
<1>12. CASE BackfillKey(t) BY <1>12 DEF BackfillKey
<1>13. CASE PublishReady(t) BY <1>13 DEF PublishReady, Gives
<1>14. CASE MigrationFails(t) BY <1>14 DEF MigrationFails, Gives
<1>15. CASE Run(t) BY <1>15 DEF Run
<1>16. CASE CloseDb(t) BY <1>16 DEF CloseDb
<1>17. CASE ClosePool(t) BY <1>17 DEF ClosePool
<1> QED BY <1>3, <1>4, <1>5, <1>6, <1>7, <1>8, <1>9, <1>10, <1>11, <1>12, <1>13, <1>14, <1>15, <1>16, <1>17
        DEF CallStep, MigrationStep

LEMMA LockStep == LockInv /\ [StartupNext]_startupVars => LockInv'
<1> SUFFICES ASSUME LockInv, [StartupNext]_startupVars PROVE LockInv' OBVIOUS
<1>1. StartupTypeOK' BY StartupTypesStep DEF LockInv
<1>2. CASE UNCHANGED startupVars
  BY <1>2 DEF startupVars, LockInv, StartupTypeOK, OneMigratorPerProcess, Holding, Migrating, At
<1>3. ASSUME NEW p \in Processes, Crash(p) PROVE OneMigratorPerProcess'
  <2> SUFFICES ASSUME NEW t \in Threads
               PROVE (Holding(t)' <=> lock'[Proc(t)] = t) /\ (Migrating(t)' => ~ready'[Proc(t)])
    BY DEF OneMigratorPerProcess, Proc
  <2>1. CASE Proc(t) = p
    BY <1>3, <2>1, StartupAssumption DEF Crash, Holding, Migrating, Migration, At, Idle, LockInv, StartupTypeOK
  <2>2. CASE Proc(t) # p
    BY <1>3, <2>2, StartupAssumption DEF Crash, Holding, Migrating, At, LockInv, StartupTypeOK,
                                          OneMigratorPerProcess, Proc
  <2> QED BY <2>1, <2>2
<1>4. ASSUME NEW t \in Threads, Call(t) \/ CallStep(t) \/ CloseDb(t) \/ ClosePool(t)
      PROVE OneMigratorPerProcess'
  <2> SUFFICES ASSUME NEW u \in Threads
               PROVE (Holding(u)' <=> lock'[Proc(u)] = u) /\ (Migrating(u)' => ~ready'[Proc(u)])
    BY DEF OneMigratorPerProcess, Proc
  <2>1. /\ lock \in [Processes -> Threads \cup {NoThread}] /\ thread \in [Threads -> Thread]
        /\ ready \in [Processes -> BOOLEAN]
        /\ Proc(t) \in Processes /\ Proc(u) \in Processes /\ t # NoThread /\ u # NoThread
    BY StartupAssumption DEF LockInv, StartupTypeOK, Proc
  <2>2. /\ Holding(u) <=> (lock[Proc(u)] = u)
        /\ Holding(t) <=> (lock[Proc(t)] = t)
        /\ Migrating(u) => Holding(u) /\ ~ready[Proc(u)]
    BY DEF LockInv, OneMigratorPerProcess, Holding
  <2>3. ASSUME u # t PROVE (Holding(u)' <=> Holding(u)) /\ (Migrating(u)' <=> Migrating(u))
    <3>1. Moved(t) BY <1>4, LockSteps
    <3>2. thread'[u] = thread[u] BY <2>1, <2>3, <3>1 DEF Moved
    <3> QED BY <3>2 DEF Holding, Migrating, At
  <2>4. Holding(u)' <=> (lock'[Proc(u)] = u)
    <3>1. Takes(t) \/ Gives(t) \/ Leaves(t) BY <1>4, LockSteps
    <3>2. CASE u = t
      BY <2>1, <2>2, <3>1, <3>2 DEF Takes, Gives, Leaves, Acquires, Releases
    <3>3. CASE u # t
      <4>1. Holding(u)' <=> Holding(u) BY <2>3, <3>3
      <4>2. (lock'[Proc(u)] = u) <=> (lock[Proc(u)] = u)
        BY <2>1, <2>2, <3>1, <3>3 DEF Takes, Gives, Leaves, Acquires, Releases, Free
      <4> QED BY <2>2, <4>1, <4>2
    <3> QED BY <3>2, <3>3
  <2>5. CASE u = t BY <1>4, <2>4, <2>5, LockSteps
  <2>6. CASE u # t
    <3>1. Proc(u) = Proc(t) /\ Gives(t) => ~Holding(u)
      BY <2>2, <2>6 DEF Gives
    <3>2. ready'[Proc(u)] => ready[Proc(u)] \/ (Proc(u) = Proc(t) /\ Gives(t))
      BY <1>4, <2>1, LockSteps
    <3> QED BY <2>2, <2>3, <2>4, <2>6, <3>1, <3>2
  <2> QED BY <2>5, <2>6
<1> QED BY <1>1, <1>2, <1>3, <1>4 DEF LockInv, StartupNext

(* A process migrates alone and before it is ready, and its lock is held   *)
(* exactly by the thread that opens the pool or migrates.                  *)
THEOREM MigratesAlone == StartupSpec => []OneMigratorPerProcess
<1>1. LockInv => OneMigratorPerProcess BY DEF LockInv
<1> QED BY <1>1, LockInit, LockStep, PTL DEF StartupSpec

-----------------------------------------------------------------------------
(* The pools.  Whoever opens one found none in its process, and nobody     *)
(* else opens or closes one there before it is done.                       *)

LEMMA PoolInit == StartupInit => PoolInv
<1> SUFFICES ASSUME StartupInit PROVE PoolInv OBVIOUS
<1>1. \A t \in Threads : ~At(t, "opening") BY DEF StartupInit, At, Idle
<1>2. PoolsAreAccounted BY DEF StartupInit, PoolsAreAccounted
<1> QED BY <1>1, <1>2, LockInit DEF PoolInv, OpenersFindNone

(* Most steps leave the pools alone and do not forget one to close. *)
LEMMA PoolsUntouched ==
    ASSUME PoolInv, NEW t \in Threads, Moved(t), UNCHANGED <<pool, openPools>>, ~At(t, "close"),
           At(t, "opening")' => At(t, "opening") \/ pool[Proc(t)] = NoPool
    PROVE  PoolsAreAccounted' /\ OpenersFindNone'
<1>1. thread \in [Threads -> Thread] BY DEF PoolInv, LockInv, StartupTypeOK
<1>2. \A u \in Threads : u # t => thread'[u] = thread[u] BY <1>1 DEF Moved
<1>3. PoolsAreAccounted'
  <2> SUFFICES ASSUME NEW x \in openPools, pool[x[1]] # x[2]
               PROVE  \E u \in Threads : Proc(u) = x[1] /\ At(u, "close")' /\ thread'[u].mine = x[2]
    BY DEF PoolsAreAccounted, Proc
  <2>1. PICK u \in Threads : Proc(u) = x[1] /\ At(u, "close") /\ thread[u].mine = x[2]
    BY DEF PoolInv, PoolsAreAccounted
  <2> QED BY <1>2, <2>1 DEF At
<1>4. ASSUME NEW u \in Threads, At(u, "opening")' PROVE pool'[Proc(u)] = NoPool
  BY <1>2, <1>4 DEF PoolInv, OpenersFindNone, At
<1> QED BY <1>3, <1>4 DEF OpenersFindNone, Proc

LEMMA PoolStep == PoolInv /\ [StartupNext]_startupVars => PoolInv'
<1> SUFFICES ASSUME PoolInv, [StartupNext]_startupVars PROVE PoolsAreAccounted' /\ OpenersFindNone'
  BY LockStep DEF PoolInv
<1>1. /\ thread \in [Threads -> Thread] /\ pool \in [Processes -> Pools \cup {NoPool}]
      /\ openPools \subseteq Processes \X Pools
      /\ \A t \in Threads : Proc(t) \in Processes /\ (Holding(t) <=> lock[Proc(t)] = t)
  BY StartupAssumption DEF PoolInv, LockInv, StartupTypeOK, OneMigratorPerProcess, Proc
<1>2. CASE UNCHANGED startupVars
  BY <1>2 DEF startupVars, PoolInv, PoolsAreAccounted, OpenersFindNone, At, Proc
<1>3. ASSUME NEW t \in Threads, PoolOpens(t) PROVE PoolsAreAccounted' /\ OpenersFindNone'
  <2>1. PICK x \in Pools : /\ openPools' = openPools \cup {<<Proc(t), x>>}
                           /\ pool' = [pool EXCEPT ![Proc(t)] = x]
    BY <1>3 DEF PoolOpens
  <2>2. /\ At(t, "opening") /\ pool[Proc(t)] = NoPool /\ thread' = [thread EXCEPT ![t].pc = "return"]
    BY <1>3 DEF PoolOpens, PoolInv, OpenersFindNone, Goes
  <2>3. ASSUME NEW y \in openPools'
        PROVE  \/ pool'[y[1]] = y[2]
               \/ \E u \in Threads : Proc(u) = y[1] /\ At(u, "close")' /\ thread'[u].mine = y[2]
    <3>1. CASE y = <<Proc(t), x>> BY <1>1, <2>1, <3>1
    <3>2. CASE y \in openPools /\ pool[y[1]] = y[2]
      <4>1. y[2] # NoPool /\ y[1] \in Processes BY <1>1, <3>2, StartupAssumption
      <4> QED BY <1>1, <2>1, <2>2, <3>2, <4>1
    <3>3. ASSUME NEW u \in Threads, Proc(u) = y[1], At(u, "close"), thread[u].mine = y[2]
          PROVE  Proc(u) = y[1] /\ At(u, "close")' /\ thread'[u].mine = y[2]
      BY <1>1, <2>2, <3>3 DEF At
    <3> QED BY <2>1, <3>1, <3>2, <3>3 DEF PoolInv, PoolsAreAccounted
  <2>4. ASSUME NEW u \in Threads, At(u, "opening")' PROVE pool'[Proc(u)] = NoPool
    <3>1. u # t /\ At(u, "opening") BY <1>1, <2>2, <2>4 DEF At
    <3>2. Proc(u) # Proc(t) BY <1>1, <2>2, <3>1 DEF Holding
    <3> QED BY <1>1, <2>1, <3>1, <3>2 DEF PoolInv, OpenersFindNone
  <2> QED BY <2>3, <2>4 DEF PoolsAreAccounted, OpenersFindNone, Proc
<1>4. ASSUME NEW t \in Threads, CloseDb(t) PROVE PoolsAreAccounted' /\ OpenersFindNone'
  <2>1. /\ At(t, "idle") /\ lock[Proc(t)] = NoThread /\ openPools' = openPools
        /\ pool' = [pool EXCEPT ![Proc(t)] = NoPool]
        /\ thread'[t].pc = "close" /\ thread'[t].mine = pool[Proc(t)]
        /\ \A u \in Threads : u # t => thread'[u] = thread[u]
    BY <1>1, <1>4 DEF CloseDb, Free, Idle
  <2>2. ASSUME NEW y \in openPools'
        PROVE  \/ pool'[y[1]] = y[2]
               \/ \E u \in Threads : Proc(u) = y[1] /\ At(u, "close")' /\ thread'[u].mine = y[2]
    <3>1. y \in openPools /\ y[1] \in Processes BY <1>1, <2>1
    <3>2. CASE pool[y[1]] = y[2] /\ y[1] = Proc(t) BY <2>1, <3>2 DEF At
    <3>3. CASE pool[y[1]] = y[2] /\ y[1] # Proc(t) BY <1>1, <2>1, <3>1, <3>3
    <3>4. ASSUME NEW u \in Threads, Proc(u) = y[1], At(u, "close"), thread[u].mine = y[2]
          PROVE  Proc(u) = y[1] /\ At(u, "close")' /\ thread'[u].mine = y[2]
      BY <2>1, <3>4 DEF At
    <3> QED BY <3>1, <3>2, <3>3, <3>4 DEF PoolInv, PoolsAreAccounted
  <2>3. ASSUME NEW u \in Threads, At(u, "opening")' PROVE pool'[Proc(u)] = NoPool
    <3>1. At(u, "opening") BY <2>1, <2>3 DEF At
    <3> QED BY <1>1, <2>1, <3>1 DEF PoolInv, OpenersFindNone
  <2> QED BY <2>2, <2>3 DEF PoolsAreAccounted, OpenersFindNone, Proc
<1>5. ASSUME NEW t \in Threads, ClosePool(t) PROVE PoolsAreAccounted' /\ OpenersFindNone'
  <2>1. /\ openPools' = openPools \ {<<Proc(t), thread[t].mine>>} /\ pool' = pool
        /\ thread' = [thread EXCEPT ![t] = Idle]
    BY <1>5 DEF ClosePool, Raises
  <2>2. ASSUME NEW y \in openPools', pool[y[1]] # y[2]
        PROVE  \E u \in Threads : Proc(u) = y[1] /\ At(u, "close")' /\ thread'[u].mine = y[2]
    <3>1. y \in openPools /\ y # <<Proc(t), thread[t].mine>> BY <2>1
    <3>2. y = <<y[1], y[2]>> BY <1>1, <3>1
    <3>3. PICK u \in Threads : Proc(u) = y[1] /\ At(u, "close") /\ thread[u].mine = y[2]
      BY <2>2, <3>1 DEF PoolInv, PoolsAreAccounted
    <3>4. u # t BY <3>1, <3>2, <3>3
    <3> QED BY <1>1, <2>1, <3>3, <3>4 DEF At
  <2>3. ASSUME NEW u \in Threads, At(u, "opening")' PROVE pool'[Proc(u)] = NoPool
    BY <1>1, <2>1, <2>3 DEF At, Idle, PoolInv, OpenersFindNone
  <2> QED BY <2>1, <2>2, <2>3 DEF PoolsAreAccounted, OpenersFindNone, Proc
<1>6. ASSUME NEW p \in Processes, Crash(p) PROVE PoolsAreAccounted' /\ OpenersFindNone'
  <2>1. /\ pool' = [pool EXCEPT ![p] = NoPool] /\ openPools' = {x \in openPools : x[1] # p}
        /\ \A u \in Threads : IF Proc(u) = p THEN thread'[u] = Idle ELSE thread'[u] = thread[u]
    BY <1>6 DEF Crash
  <2>2. ASSUME NEW y \in openPools'
        PROVE  \/ pool'[y[1]] = y[2]
               \/ \E u \in Threads : Proc(u) = y[1] /\ At(u, "close")' /\ thread'[u].mine = y[2]
    <3>1. y \in openPools /\ y[1] # p /\ y[1] \in Processes BY <1>1, <2>1
    <3>2. CASE pool[y[1]] = y[2] BY <1>1, <2>1, <3>1, <3>2
    <3>3. ASSUME NEW u \in Threads, Proc(u) = y[1], At(u, "close"), thread[u].mine = y[2]
          PROVE  Proc(u) = y[1] /\ At(u, "close")' /\ thread'[u].mine = y[2]
      BY <2>1, <3>1, <3>3 DEF At
    <3> QED BY <3>1, <3>2, <3>3 DEF PoolInv, PoolsAreAccounted
  <2>3. ASSUME NEW u \in Threads, At(u, "opening")' PROVE pool'[Proc(u)] = NoPool
    BY <1>1, <2>1, <2>3 DEF At, Idle, PoolInv, OpenersFindNone
  <2> QED BY <2>2, <2>3 DEF PoolsAreAccounted, OpenersFindNone, Proc
<1>7. ASSUME NEW t \in Threads, MigrationStep(t) PROVE PoolsAreAccounted' /\ OpenersFindNone'
  <2>1. Moved(t) BY <1>7, LockSteps DEF PoolInv, CallStep
  <2>2. UNCHANGED <<pool, openPools>>
    BY <1>7 DEF MigrationStep, AddColumns, SelectUnkeyed, BackfillKey, KeysBackfilled, CreateGuard, DropTrigger,
                CreateTrigger, BackfillVectors, AddImports, PublishReady, MigrationFails, Statement
  <2>3. ~At(t, "close")
    BY <1>7 DEF MigrationStep, AddColumns, SelectUnkeyed, BackfillKey, KeysBackfilled, CreateGuard, DropTrigger,
                CreateTrigger, BackfillVectors, AddImports, PublishReady, MigrationFails, Statement, Migrating,
                Migration, At
  <2>4. ~At(t, "opening")'
    <3> USE <1>1 DEF At, Goes, Raises, Idle, Thread
    <3>1. CASE SelectUnkeyed(t) BY <3>1 DEF SelectUnkeyed
    <3>2. CASE BackfillKey(t) BY <3>2 DEF BackfillKey
    <3>3. CASE PublishReady(t) \/ MigrationFails(t) BY <3>3 DEF PublishReady, MigrationFails
    <3>4. CASE \/ AddColumns(t) \/ KeysBackfilled(t) \/ CreateGuard(t) \/ DropTrigger(t) \/ CreateTrigger(t)
               \/ BackfillVectors(t) \/ AddImports(t)
      BY <3>4 DEF AddColumns, KeysBackfilled, CreateGuard, DropTrigger, CreateTrigger, BackfillVectors, AddImports,
                  Statement
    <3> QED BY <1>7, <3>1, <3>2, <3>3, <3>4 DEF MigrationStep
  <2> QED BY <2>1, <2>2, <2>3, <2>4, PoolsUntouched
<1>8. ASSUME NEW t \in Threads,
             \/ Call(t) \/ FirstCheck(t) \/ SecondCheck(t) \/ LookForPool(t) \/ BeginOpen(t)
             \/ PoolFailsToOpen(t) \/ ReturnPool(t) \/ Run(t)
      PROVE PoolsAreAccounted' /\ OpenersFindNone'
  <2>1. Moved(t) BY <1>8, LockSteps DEF PoolInv, CallStep
  <2>2. UNCHANGED <<pool, openPools>>
    BY <1>8 DEF Call, FirstCheck, SecondCheck, LookForPool, BeginOpen, PoolFailsToOpen, ReturnPool, Run
  <2>3. ~At(t, "close")
    BY <1>8 DEF Call, FirstCheck, SecondCheck, LookForPool, BeginOpen, PoolFailsToOpen, ReturnPool, Run, At
  <2>4. At(t, "opening")' => pool[Proc(t)] = NoPool
    BY <1>1, <1>8 DEF Call, FirstCheck, SecondCheck, LookForPool, BeginOpen, PoolFailsToOpen, ReturnPool, Run,
                Goes, Raises, Idle, At, Thread
  <2> QED BY <2>1, <2>2, <2>3, <2>4, PoolsUntouched
<1> QED BY <1>2, <1>3, <1>4, <1>5, <1>6, <1>7, <1>8 DEF StartupNext, CallStep

(* A process never holds connections that nothing will give back. *)
THEOREM PoolsAreNeverForgotten == StartupSpec => []PoolsAreAccounted
<1>1. PoolInv => PoolsAreAccounted BY DEF PoolInv
<1> QED BY <1>1, PoolInit, PoolStep, PTL DEF StartupSpec

-----------------------------------------------------------------------------
(* The migration.  What a statement relies on stays done, whatever another *)
(* process drops or writes meanwhile, because no statement but the drop of *)
(* the trigger takes anything away.                                        *)

LEMMA MigrationInit == StartupInit => MigrationInv
<1> SUFFICES ASSUME StartupInit, NEW t \in Threads PROVE MigrationOf(t)
  BY LockInit DEF MigrationInv
<1>1. thread[t].pc = "idle" /\ thread[t].goal = "call" /\ ~ready[Proc(t)]
  BY StartupAssumption DEF StartupInit, Idle, Proc
<1> QED BY <1>1 DEF MigrationOf, GoalFits, ProgressOf, ServedOK, Served, Migration

(* What was done stays done. *)
LEMMA DatabaseAdvances ==
    ASSUME MigrationInv, [StartupNext]_startupVars
    PROVE  /\ Migrated => Migrated'
           /\ Keyed => Keyed'
           /\ \A i \in Ids : Keyless(i)' => Keyless(i)
           /\ \A o \in {"key", "guard", "vector", "imports"} : o \in schema => o \in schema'
<1>1. StartupTypeOK BY DEF MigrationInv, LockInv
<1> QED BY <1>1, StatementsKeep DEF Migrated, Keyed

(* So whoever does not move keeps what it relies on. *)
LEMMA OthersProgress ==
    ASSUME MigrationInv, [StartupNext]_startupVars, NEW u \in Threads,
           thread'[u] = thread[u],
           ready'[Proc(u)] => ready[Proc(u)] \/ (Migrated /\ Keyed)
    PROVE  MigrationOf(u)'
<1>1. MigrationOf(u) BY DEF MigrationInv
<1>2. GoalFits(u)' BY <1>1 DEF MigrationOf, GoalFits
<1>3. ServedOK(u)'
  <2>1. Served(u)' \/ ready'[Proc(u)] => Migrated /\ Keyed BY <1>1 DEF MigrationOf, ServedOK, Served
  <2> QED BY <2>1, DatabaseAdvances DEF ServedOK, Proc
<1>4. ProgressOf(u)' BY <1>1, DatabaseAdvances DEF MigrationOf, ProgressOf
<1> QED BY <1>2, <1>3, <1>4 DEF MigrationOf

(* A call migrates only if its process has not, and is served only after.  *)
LEMMA CallProgress ==
    ASSUME MigrationInv, [StartupNext]_startupVars, NEW t \in Threads,
           \/ Call(t) \/ FirstCheck(t) \/ SecondCheck(t) \/ LookForPool(t) \/ BeginOpen(t)
           \/ PoolOpens(t) \/ PoolFailsToOpen(t) \/ ReturnPool(t) \/ Run(t) \/ CloseDb(t) \/ ClosePool(t)
    PROVE  MigrationOf(t)' /\ (\A p \in Processes : ready'[p] => ready[p])
<1>1. /\ thread \in [Threads -> Thread] /\ ready \in [Processes -> BOOLEAN] /\ Proc(t) \in Processes
      /\ MigrationOf(t)
  BY StartupAssumption DEF MigrationInv, LockInv, StartupTypeOK, Proc
<1>2. /\ GoalFits(t)'
      /\ thread'[t].pc \notin Migration \ {"columns"}
      /\ Served(t)' => Served(t) \/ ready[Proc(t)]
      /\ \A p \in Processes : ready'[p] => ready[p]
  <2> USE <1>1 DEF MigrationOf, GoalFits, Served, At, Goes, Raises, Idle, Thread, Migration
  <2>1. CASE Call(t) BY <2>1 DEF Call
  <2>2. CASE FirstCheck(t) BY <2>2 DEF FirstCheck
  <2>3. CASE SecondCheck(t) BY <2>3 DEF SecondCheck
  <2>4. CASE LookForPool(t) BY <2>4 DEF LookForPool
  <2>5. CASE BeginOpen(t) BY <2>5 DEF BeginOpen
  <2>6. CASE PoolOpens(t) BY <2>6 DEF PoolOpens
  <2>7. CASE PoolFailsToOpen(t) BY <2>7 DEF PoolFailsToOpen
  <2>8. CASE ReturnPool(t) BY <2>8 DEF ReturnPool
  <2>9. CASE Run(t) BY <2>9 DEF Run
  <2>10. CASE CloseDb(t) BY <2>10 DEF CloseDb
  <2>11. CASE ClosePool(t) BY <2>11 DEF ClosePool
  <2> QED BY <2>1, <2>2, <2>3, <2>4, <2>5, <2>6, <2>7, <2>8, <2>9, <2>10, <2>11
<1>3. ProgressOf(t)' BY <1>2 DEF ProgressOf, Migration
<1>4. ServedOK(t)'
  <2>1. Served(t)' \/ ready'[Proc(t)] => Migrated /\ Keyed BY <1>1, <1>2 DEF MigrationOf, ServedOK
  <2> QED BY <2>1, DatabaseAdvances DEF ServedOK, Proc
<1> QED BY <1>2, <1>3, <1>4 DEF MigrationOf

(* Each statement makes what the next one relies on. *)
LEMMA StatementProgress ==
    ASSUME MigrationInv, [StartupNext]_startupVars, NEW t \in Threads,
           \/ AddColumns(t) \/ SelectUnkeyed(t) \/ BackfillKey(t) \/ KeysBackfilled(t) \/ CreateGuard(t)
           \/ DropTrigger(t) \/ CreateTrigger(t) \/ BackfillVectors(t) \/ AddImports(t)
    PROVE  MigrationOf(t)' /\ UNCHANGED ready
<1>1. /\ thread \in [Threads -> Thread] /\ rows \in [Ids -> Row \cup {Missing}] /\ Proc(t) \in Processes
      /\ MigrationOf(t)
  BY StartupAssumption DEF MigrationInv, LockInv, StartupTypeOK, Proc
<1>2. /\ UNCHANGED ready /\ GoalFits(t)' /\ ~Served(t)'
  <2> USE <1>1 DEF MigrationOf, GoalFits, Served, At, Goes, Thread, Migration
  <2>1. CASE SelectUnkeyed(t) BY <2>1 DEF SelectUnkeyed
  <2>2. CASE BackfillKey(t) BY <2>2 DEF BackfillKey
  <2>3. CASE \/ AddColumns(t) \/ KeysBackfilled(t) \/ CreateGuard(t) \/ DropTrigger(t) \/ CreateTrigger(t)
             \/ BackfillVectors(t) \/ AddImports(t)
    BY <2>3 DEF AddColumns, KeysBackfilled, CreateGuard, DropTrigger, CreateTrigger, BackfillVectors, AddImports,
                Statement
  <2> QED BY <2>1, <2>2, <2>3
<1>3. ServedOK(t)'
  <2>1. ready'[Proc(t)] => Migrated /\ Keyed BY <1>1, <1>2 DEF MigrationOf, ServedOK
  <2> QED BY <1>2, <2>1, DatabaseAdvances DEF ServedOK, Proc
<1>4. ProgressOf(t) BY <1>1 DEF MigrationOf
<1>5. /\ Keyed => Keyed'
      /\ \A i \in Ids : Keyless(i)' => Keyless(i)
      /\ \A o \in {"key", "guard", "vector", "imports"} : o \in schema => o \in schema'
  BY DatabaseAdvances
<1>6. ProgressOf(t)'
  <2>1. CASE SelectUnkeyed(t)
    <3>1. /\ thread[t].pc = "select" /\ thread'[t].pc = "backfill"
          /\ thread'[t].todo = {<<i, rows[i].version>> : i \in {j \in Ids : Exists(j) /\ rows[j].key = None}}
      BY <1>1, <2>1 DEF SelectUnkeyed, At, Thread
    <3>2. ASSUME NEW i \in Ids, Keyless(i)' PROVE \E v \in Versions : <<i, v>> \in thread'[t].todo
      <4>1. Keyless(i) BY <1>5, <3>2
      <4>2. rows[i].version \in Versions BY <1>1, <4>1 DEF Keyless, Exists, Row
      <4> QED BY <3>1, <4>1, <4>2 DEF Keyless
    <3> QED BY <1>4, <1>5, <3>1, <3>2 DEF ProgressOf, Migration
  <2>2. CASE BackfillKey(t)
    <3>1. PICK job \in thread[t].todo :
            /\ thread' = [thread EXCEPT ![t].todo = @ \ {job}]
            /\ rows' = [rows EXCEPT ![job[1]] =
                          IF @ = Missing THEN @ ELSE Triggered([@ EXCEPT !.key = job[2]])]
      BY <2>2 DEF BackfillKey
    <3>2. thread[t].pc = "backfill" /\ thread'[t].pc = "backfill" /\ thread'[t].todo = thread[t].todo \ {job}
      BY <1>1, <2>2, <3>1 DEF BackfillKey, At, Thread
    <3>3. job \in Ids \X Versions BY <1>1 DEF Thread, Jobs
    <3>4. ~Keyless(job[1])'
      <4> DEFINE row == rows[job[1]]
                 new == [row EXCEPT !.key = job[2]]
      <4>1. job[1] \in Ids /\ job[2] \in Versions /\ job[2] # None BY <3>3, StartupAssumption DEF Versions, None
      <4>2. CASE row = Missing BY <1>1, <3>1, <4>1, <4>2 DEF Keyless, Exists
      <4>3. CASE row # Missing
        <5>1. new \in Row /\ new.key # None BY <1>1, <4>1, <4>3 DEF Row
        <5>2. Triggered(new).key # None BY <5>1, TriggeredIsRow
        <5>3. rows'[job[1]] = Triggered(new) BY <1>1, <3>1, <4>1, <4>3
        <5> HIDE DEF new
        <5> QED BY <5>2, <5>3 DEF Keyless
      <4> QED BY <4>2, <4>3
    <3>5. ASSUME NEW i \in Ids, Keyless(i)' PROVE \E v \in Versions : <<i, v>> \in thread'[t].todo
      <4>1. Keyless(i) /\ i # job[1] BY <1>5, <3>4, <3>5
      <4>2. PICK v \in Versions : <<i, v>> \in thread[t].todo BY <1>4, <3>2, <4>1 DEF ProgressOf
      <4>3. <<i, v>> # job BY <4>1
      <4> QED BY <3>2, <4>2, <4>3
    <3> QED BY <1>4, <1>5, <3>2, <3>5 DEF ProgressOf, Migration
  <2>3. CASE KeysBackfilled(t)
    <3>1. /\ thread[t].pc = "backfill" /\ thread[t].todo = {} /\ thread'[t].pc = "guard"
      BY <1>1, <2>3 DEF KeysBackfilled, Statement, Goes, At, Thread
    <3>2. Keyed BY <1>4, <3>1 DEF ProgressOf, Keyed
    <3> QED BY <1>4, <1>5, <3>1, <3>2 DEF ProgressOf, Migration
  <2>4. CASE AddColumns(t)
    <3>1. thread'[t].pc = "select" /\ "key" \in schema'
      BY <1>1, <2>4 DEF AddColumns, Statement, Goes, At, Thread
    <3> QED BY <3>1 DEF ProgressOf, Migration
  <2>5. CASE CreateGuard(t)
    <3>1. thread[t].pc = "guard" /\ thread'[t].pc = "drop" /\ "guard" \in schema'
      BY <1>1, <2>5 DEF CreateGuard, Statement, Goes, At, Thread
    <3> QED BY <1>4, <1>5, <3>1 DEF ProgressOf, Migration
  <2>6. CASE DropTrigger(t)
    <3>1. thread[t].pc = "drop" /\ thread'[t].pc = "create" /\ "vector" \in schema'
      BY <1>1, <2>6 DEF DropTrigger, Statement, Goes, At, Thread
    <3> QED BY <1>4, <1>5, <3>1 DEF ProgressOf, Migration
  <2>7. CASE CreateTrigger(t) \/ BackfillVectors(t)
    <3>1. \/ thread[t].pc = "create" /\ thread'[t].pc = "vectors"
          \/ thread[t].pc = "vectors" /\ thread'[t].pc = "imports"
      BY <1>1, <2>7 DEF CreateTrigger, BackfillVectors, Statement, Goes, At, Thread
    <3> QED BY <1>4, <1>5, <3>1 DEF ProgressOf, Migration
  <2>8. CASE AddImports(t)
    <3>1. thread[t].pc = "imports" /\ thread'[t].pc = "publish" /\ "imports" \in schema'
      BY <1>1, <2>8 DEF AddImports, Statement, Goes, At, Thread
    <3> QED BY <1>4, <1>5, <3>1 DEF ProgressOf, Migration
  <2> QED BY <2>1, <2>2, <2>3, <2>4, <2>5, <2>6, <2>7, <2>8
<1> QED BY <1>2, <1>3, <1>6 DEF MigrationOf

(* The flag is set only after the last statement. *)
LEMMA EndProgress ==
    ASSUME MigrationInv, [StartupNext]_startupVars, NEW t \in Threads, PublishReady(t) \/ MigrationFails(t)
    PROVE  MigrationOf(t)' /\ (\A p \in Processes : ready'[p] => ready[p] \/ (Migrated /\ Keyed))
<1>1. /\ thread \in [Threads -> Thread] /\ ready \in [Processes -> BOOLEAN] /\ Proc(t) \in Processes
      /\ MigrationOf(t)
  BY StartupAssumption DEF MigrationInv, LockInv, StartupTypeOK, Proc
<1>2. PublishReady(t) => Migrated /\ Keyed
  BY <1>1 DEF PublishReady, At, MigrationOf, ProgressOf, Migrated, Migration
<1>3. \A p \in Processes : ready'[p] => ready[p] \/ (Migrated /\ Keyed)
  BY <1>1, <1>2 DEF PublishReady, MigrationFails
<1>4. thread'[t].goal = "call" /\ thread'[t].pc \in {"idle", "want"} /\ (thread'[t].pc = "want" => PublishReady(t))
  BY <1>1 DEF PublishReady, MigrationFails, Raises, Idle
<1>5. ServedOK(t)'
  <2>1. Served(t)' \/ ready'[Proc(t)] => Migrated /\ Keyed
    BY <1>1, <1>2, <1>3, <1>4 DEF MigrationOf, ServedOK, Served
  <2> QED BY <2>1, DatabaseAdvances DEF ServedOK, Proc
<1> QED BY <1>3, <1>4, <1>5 DEF MigrationOf, GoalFits, ProgressOf, Migration

LEMMA MigrationInvStep == MigrationInv /\ [StartupNext]_startupVars => MigrationInv'
<1> SUFFICES ASSUME MigrationInv, [StartupNext]_startupVars, NEW u \in Threads PROVE MigrationOf(u)'
  BY LockStep DEF MigrationInv
<1>1. /\ thread \in [Threads -> Thread] /\ ready \in [Processes -> BOOLEAN] /\ Proc(u) \in Processes
  BY StartupAssumption DEF MigrationInv, LockInv, StartupTypeOK, Proc
<1>2. CASE UNCHANGED startupVars BY <1>2, OthersProgress DEF startupVars
<1>3. ASSUME NEW p \in Processes, Crash(p) PROVE MigrationOf(u)'
  <2>1. CASE Proc(u) # p
    <3>1. thread'[u] = thread[u] /\ ready'[Proc(u)] = ready[Proc(u)] BY <1>1, <1>3, <2>1 DEF Crash
    <3> QED BY <3>1, OthersProgress
  <2>2. CASE Proc(u) = p
    <3>1. thread'[u].pc = "idle" /\ thread'[u].goal = "call" /\ ~ready'[Proc(u)]
      BY <1>1, <1>3, <2>2 DEF Crash, Idle
    <3> QED BY <3>1 DEF MigrationOf, GoalFits, ProgressOf, ServedOK, Served, Migration, Proc
  <2> QED BY <2>1, <2>2
<1>4. ASSUME NEW t \in Threads, Call(t) \/ CallStep(t) \/ CloseDb(t) \/ ClosePool(t) PROVE MigrationOf(u)'
  <2>1. MigrationOf(t)' /\ (\A p \in Processes : ready'[p] => ready[p] \/ (Migrated /\ Keyed))
    BY <1>4, CallProgress, StatementProgress, EndProgress DEF CallStep, MigrationStep
  <2>2. CASE u # t
    <3>1. Moved(t) BY <1>4, LockSteps DEF MigrationInv
    <3>2. thread'[u] = thread[u] BY <1>1, <2>2, <3>1 DEF Moved
    <3> QED BY <1>1, <2>1, <3>2, OthersProgress
  <2> QED BY <2>1, <2>2
<1> QED BY <1>2, <1>3, <1>4 DEF StartupNext

(* Whoever runs a statement, and every process that says it is ready,      *)
(* finds the schema there and every listing with a key.                    *)
THEOREM ServesOnlyMigrated == StartupSpec => []ServesMigrated
<1>1. ASSUME MigrationInv, NEW t \in Threads, At(t, "run") \/ ready[Proc(t)]
      PROVE  Migrated /\ \A i \in Ids : Exists(i) => rows[i].key # None
  <2>1. MigrationOf(t) BY <1>1 DEF MigrationInv
  <2>2. Served(t) \/ ready[Proc(t)] BY <1>1, <2>1 DEF MigrationOf, GoalFits, Served, At
  <2> QED BY <2>1, <2>2 DEF MigrationOf, ServedOK, Keyed, Keyless
<1>2. MigrationInv => ServesMigrated BY <1>1 DEF ServesMigrated
<1> QED BY <1>2, MigrationInit, MigrationInvStep, PTL DEF StartupSpec
=============================================================================
