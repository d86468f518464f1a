------------------------------ MODULE Startup ------------------------------
(***************************************************************************)
(* How a process gets at the database (app/core/db.py): every call opens   *)
(* the connection pool and migrates the schema first if its process has    *)
(* not done so, under _state_lock, a migration being a row of statements   *)
(* that commit one by one.  Several processes (server workers, the import  *)
(* script) do so against one database, which may be older than all of      *)
(* them; each may fail anywhere, crash, or close its pool.                 *)
(*                                                                         *)
(* A listing is reduced to the version of its content and to what is       *)
(* derived from it: the endpoint_key of its URL and its search_vector.     *)
(***************************************************************************)
EXTENDS Integers, FiniteSets

CONSTANTS
    Processes,
    Threads,
    ProcessOf,     \* [Threads -> Processes]
    NoThread,
    Pools, NoPool, \* identities of ConnectionPool objects
    Ids, Missing,
    MaxVersion     \* bound on the versions of a listing

ASSUME StartupAssumption ==
    /\ ProcessOf \in [Threads -> Processes]
    /\ NoThread \notin Threads
    /\ NoPool \notin Pools
    /\ MaxVersion \in Nat

VARIABLES
    rows,      \* the listings table
    schema,    \* what the database has: columns, indexes, tables, the trigger
    pool,      \* _pool of each process
    openPools, \* the pools that hold connections: <<process, pool>>
    ready,     \* _schema_ready
    lock,      \* who holds _state_lock
    thread

startupVars == <<rows, schema, pool, openPools, ready, lock, thread>>
databaseVars == <<rows, schema>>

Versions == 0 .. MaxVersion
None == -1     \* NULL
Row == [version : Versions, key : Versions \cup {None}, vector : Versions \cup {None}]

ASSUME MissingRowAssumption == Missing \notin Row

Exists(i) == rows[i] # Missing
Objects == {"key", "guard", "trigger", "vector", "imports"}
Migrated == {"key", "guard", "vector", "imports"} \subseteq schema

(* A statement that writes rows: the trigger, if there is one, derives     *)
(* search_vector anew, whatever column was set.                            *)
Triggered(row) == IF "trigger" \in schema THEN [row EXCEPT !.vector = row.version] ELSE row

(* goal: what the pool is wanted for; mine: the pool a thread got; todo:   *)
(* the listings without a key, with the version read of each.              *)
Idle == [pc |-> "idle", goal |-> "call", mine |-> NoPool, todo |-> {}]
Proc(t) == ProcessOf[t]
Usable(t) == <<Proc(t), thread[t].mine>> \in openPools
Free(t) == lock[Proc(t)] = NoThread
At(t, pc) == thread[t].pc = pc
Goes(t, pc) == thread' = [thread EXCEPT ![t].pc = pc]
Acquires(t) == lock' = [lock EXCEPT ![Proc(t)] = t]
Releases(t) == lock' = [lock EXCEPT ![Proc(t)] = NoThread]
Raises(t) == thread' = [thread EXCEPT ![t] = Idle]

-----------------------------------------------------------------------------
(* _ensure_schema, up to the migration *)

(* _connection of any function of db.py: _schema_ready is read without the *)
(* lock.                                                                   *)
Call(t) ==
    /\ At(t, "idle")
    /\ Goes(t, IF ready[Proc(t)] THEN "want" ELSE "first")
    /\ UNCHANGED <<databaseVars, pool, openPools, ready, lock>>

(* The first look under the lock, which is given back before the pool. *)
FirstCheck(t) ==
    /\ At(t, "first") /\ Free(t)
    /\ thread' = [thread EXCEPT ![t].pc = "want",
                                ![t].goal = IF ready[Proc(t)] THEN "call" ELSE "schema"]
    /\ UNCHANGED <<databaseVars, pool, openPools, ready, lock>>

(* The second look, after another thread may have migrated. *)
SecondCheck(t) ==
    /\ At(t, "second") /\ Free(t)
    /\ \/ /\ ready[Proc(t)]
          /\ thread' = [thread EXCEPT ![t] = [Idle EXCEPT !.pc = "want"]]
          /\ UNCHANGED lock
       \/ ~ready[Proc(t)] /\ Usable(t) /\ Acquires(t) /\ Goes(t, "columns")
       \/ ~ready[Proc(t)] /\ ~Usable(t) /\ Raises(t) /\ UNCHANGED lock
    /\ UNCHANGED <<databaseVars, pool, openPools, ready>>

-----------------------------------------------------------------------------
(* _get_pool *)

(* Read without the lock. *)
LookForPool(t) ==
    /\ At(t, "want")
    /\ Goes(t, IF pool[Proc(t)] # NoPool THEN "return" ELSE "open")
    /\ UNCHANGED <<databaseVars, pool, openPools, ready, lock>>

(* Mutant: _pool is not looked at again once the lock is held.             *)
BeginOpenUnchecked(t) ==
    /\ At(t, "open") /\ Free(t)
    /\ Acquires(t) /\ Goes(t, "opening")
    /\ UNCHANGED <<databaseVars, pool, openPools, ready>>

BeginOpen(t) ==
    /\ At(t, "open") /\ Free(t)
    /\ \/ pool[Proc(t)] = NoPool /\ Acquires(t) /\ Goes(t, "opening")
       \/ pool[Proc(t)] # NoPool /\ Goes(t, "return") /\ UNCHANGED lock
    /\ UNCHANGED <<databaseVars, pool, openPools, ready>>

InUse(p) == {x \in Pools : \/ <<p, x>> \in openPools \/ pool[p] = x
                           \/ \E t \in Threads : Proc(t) = p /\ thread[t].mine = x}

PoolOpens(t) ==
    /\ At(t, "opening")
    /\ \E x \in Pools \ InUse(Proc(t)) :
         /\ openPools' = openPools \cup {<<Proc(t), x>>}
         /\ pool' = [pool EXCEPT ![Proc(t)] = x]
    /\ Releases(t) /\ Goes(t, "return")
    /\ UNCHANGED <<databaseVars, ready>>

(* The database does not answer in time; the new pool is closed again. *)
PoolFailsToOpen(t) ==
    /\ At(t, "opening")
    /\ Releases(t) /\ Raises(t)
    /\ UNCHANGED <<databaseVars, pool, openPools, ready>>

(* "return _pool" reads the global again: None, if it was closed since. *)
ReturnPool(t) ==
    /\ At(t, "return")
    /\ thread' = [thread EXCEPT ![t].pc = IF thread[t].goal = "schema" THEN "second" ELSE "run",
                                ![t].mine = pool[Proc(t)]]
    /\ UNCHANGED <<databaseVars, pool, openPools, ready, lock>>

-----------------------------------------------------------------------------
(* The migration, statement by statement, under the lock. *)

Migration == {"columns", "select", "backfill", "guard", "drop", "create", "vectors", "imports", "publish"}
Migrating(t) == thread[t].pc \in Migration
Holding(t) == At(t, "opening") \/ Migrating(t)

Statement(t, here, next) ==
    /\ At(t, here) /\ Goes(t, next)
    /\ UNCHANGED <<pool, openPools, ready, lock>>

(* CREATE TABLE and ADD COLUMN IF NOT EXISTS *)
AddColumns(t) ==
    /\ Statement(t, "columns", "select")
    /\ schema' = schema \cup {"key"}
    /\ UNCHANGED rows

SelectUnkeyed(t) ==
    /\ At(t, "select")
    /\ thread' = [thread EXCEPT ![t].pc = "backfill",
                                ![t].todo = {<<i, rows[i].version>> : i \in {j \in Ids : Exists(j) /\ rows[j].key = None}}]
    /\ UNCHANGED <<databaseVars, pool, openPools, ready, lock>>

(* One UPDATE per listing, with the key of the URL as it was selected. *)
BackfillKey(t) ==
    /\ At(t, "backfill")
    /\ \E job \in thread[t].todo :
         /\ thread' = [thread EXCEPT ![t].todo = @ \ {job}]
         /\ rows' = [rows EXCEPT ![job[1]] =
                       IF @ = Missing THEN @ ELSE Triggered([@ EXCEPT !.key = job[2]])]
    /\ UNCHANGED <<schema, pool, openPools, ready, lock>>

KeysBackfilled(t) ==
    /\ thread[t].todo = {}
    /\ Statement(t, "backfill", "guard")
    /\ UNCHANGED databaseVars

CreateGuard(t) ==
    /\ Statement(t, "guard", "drop")
    /\ schema' = schema \cup {"guard"}
    /\ UNCHANGED rows

(* The column is added, and the trigger dropped if there is one. *)
DropTrigger(t) ==
    /\ Statement(t, "drop", "create")
    /\ schema' = (schema \cup {"vector"}) \ {"trigger"}
    /\ UNCHANGED rows

(* Fails if another process has created it in between. *)
CreateTrigger(t) ==
    /\ "trigger" \notin schema
    /\ Statement(t, "create", "vectors")
    /\ schema' = schema \cup {"trigger"}
    /\ UNCHANGED rows

BackfillVectors(t) ==
    /\ Statement(t, "vectors", "imports")
    /\ rows' = [i \in Ids |-> IF Exists(i) /\ rows[i].vector = None
                              THEN [rows[i] EXCEPT !.vector = rows[i].version] ELSE rows[i]]
    /\ UNCHANGED schema

(* The columns, the index and the tables of imports, and the rest. *)
AddImports(t) ==
    /\ Statement(t, "imports", "publish")
    /\ schema' = schema \cup {"imports"}
    /\ UNCHANGED rows

PublishReady(t) ==
    /\ At(t, "publish")
    /\ ready' = [ready EXCEPT ![Proc(t)] = TRUE]
    /\ Releases(t)
    /\ thread' = [thread EXCEPT ![t] = [Idle EXCEPT !.pc = "want"]]
    /\ UNCHANGED <<databaseVars, pool, openPools>>

(* Mutant: the flag is set in a finally.                                   *)
MigrationFailsReady(t) ==
    /\ Migrating(t)
    /\ ready' = [ready EXCEPT ![Proc(t)] = TRUE]
    /\ Releases(t) /\ Raises(t)
    /\ UNCHANGED <<databaseVars, pool, openPools>>

(* Any statement may raise; what was done before it stays. *)
MigrationFails(t) ==
    /\ Migrating(t)
    /\ Releases(t) /\ Raises(t)
    /\ UNCHANGED <<databaseVars, pool, openPools, ready>>

-----------------------------------------------------------------------------
(* What the caller came for, close_db, and crashes. *)

Insert(i) == ~Exists(i) /\ rows' = [rows EXCEPT ![i] = Triggered([version |-> 0, key |-> 0, vector |-> None])]
Edit(i) ==
    /\ Exists(i) /\ rows[i].version < MaxVersion
    /\ LET v == rows[i].version + 1 IN
       rows' = [rows EXCEPT ![i] = Triggered([@ EXCEPT !.version = v, !.key = v])]
Delete(i) == Exists(i) /\ rows' = [rows EXCEPT ![i] = Missing]

(* The statement runs, or the pool is closed by now and it raises. *)
Run(t) ==
    /\ At(t, "run")
    /\ \/ Usable(t) /\ \E i \in Ids : Insert(i) \/ Edit(i) \/ Delete(i)
       \/ UNCHANGED rows
    /\ Raises(t)
    /\ UNCHANGED <<schema, pool, openPools, ready, lock>>

(* close_db takes the pool away under the lock and closes it after. *)
CloseDb(t) ==
    /\ At(t, "idle") /\ Free(t) /\ pool[Proc(t)] # NoPool
    /\ thread' = [thread EXCEPT ![t] = [Idle EXCEPT !.pc = "close", !.mine = pool[Proc(t)]]]
    /\ pool' = [pool EXCEPT ![Proc(t)] = NoPool]
    /\ ready' = [ready EXCEPT ![Proc(t)] = FALSE]
    /\ UNCHANGED <<databaseVars, openPools, lock>>

ClosePool(t) ==
    /\ At(t, "close")
    /\ openPools' = openPools \ {<<Proc(t), thread[t].mine>>}
    /\ Raises(t)
    /\ UNCHANGED <<databaseVars, pool, ready, lock>>

(* A process dies, in the middle of a migration or not, and is replaced. *)
Crash(p) ==
    /\ pool' = [pool EXCEPT ![p] = NoPool]
    /\ openPools' = {x \in openPools : x[1] # p}
    /\ ready' = [ready EXCEPT ![p] = FALSE]
    /\ lock' = [lock EXCEPT ![p] = NoThread]
    /\ thread' = [t \in Threads |-> IF Proc(t) = p THEN Idle ELSE thread[t]]
    /\ UNCHANGED databaseVars

MigrationStep(t) ==
    \/ AddColumns(t) \/ SelectUnkeyed(t) \/ BackfillKey(t) \/ KeysBackfilled(t) \/ CreateGuard(t)
    \/ DropTrigger(t) \/ CreateTrigger(t) \/ BackfillVectors(t) \/ AddImports(t)
    \/ PublishReady(t) \/ MigrationFails(t)

(* What a call does once it has begun. *)
CallStep(t) ==
    \/ FirstCheck(t) \/ SecondCheck(t)
    \/ LookForPool(t) \/ BeginOpen(t) \/ PoolOpens(t) \/ PoolFailsToOpen(t) \/ ReturnPool(t)
    \/ MigrationStep(t)
    \/ Run(t)

(* A database without a schema, or one from before the keys. *)
StartupInit ==
    /\ rows \in [Ids -> {Missing, [version |-> 0, key |-> None, vector |-> None]}]
    /\ schema = {}
    /\ pool = [p \in Processes |-> NoPool]
    /\ openPools = {}
    /\ ready = [p \in Processes |-> FALSE]
    /\ lock = [p \in Processes |-> NoThread]
    /\ thread = [t \in Threads |-> Idle]

StartupNext ==
    \/ \E t \in Threads : Call(t) \/ CallStep(t) \/ CloseDb(t) \/ ClosePool(t)
    \/ \E p \in Processes : Crash(p)

StartupSpec == StartupInit /\ [][StartupNext]_startupVars

-----------------------------------------------------------------------------
CallPcs == {"first", "want", "open", "opening", "return", "second", "run", "close"}
Pcs == {"idle"} \cup CallPcs \cup Migration
Jobs == SUBSET (Ids \X Versions)
Thread == [pc : Pcs, goal : {"call", "schema"}, mine : Pools \cup {NoPool}, todo : Jobs]

StartupTypeOK ==
    /\ rows \in [Ids -> Row \cup {Missing}]
    /\ schema \subseteq Objects
    /\ pool \in [Processes -> Pools \cup {NoPool}]
    /\ openPools \subseteq Processes \X Pools
    /\ ready \in [Processes -> BOOLEAN]
    /\ lock \in [Processes -> Threads \cup {NoThread}]
    /\ thread \in [Threads -> Thread]

(* A statement never runs against a schema that is not there, and a        *)
(* process that says it is ready finds every listing with a key and the    *)
(* duplicate guard in force, however migrations of several processes       *)
(* failed, crashed and were taken up again.                                *)
ServesMigrated ==
    \A t \in Threads :
        At(t, "run") \/ ready[Proc(t)] => Migrated /\ \A i \in Ids : Exists(i) => rows[i].key # None

(* _state_lock is held exactly by the one thread of its process that opens *)
(* the pool or migrates, and a process that is ready does not migrate:     *)
(* it would take the trigger away under its own requests.                  *)
OneMigratorPerProcess ==
    /\ \A t \in Threads : Holding(t) <=> lock[Proc(t)] = t
    /\ \A t \in Threads : Migrating(t) => ~ready[Proc(t)]

(* No pool is forgotten: an open one is the process's own or about to be   *)
(* closed, so a process never holds connections nothing will give back.    *)
PoolsAreAccounted ==
    \A x \in openPools :
        \/ pool[x[1]] = x[2]
        \/ \E t \in Threads : Proc(t) = x[1] /\ At(t, "close") /\ thread[t].mine = x[2]

(* A trigger "keeps it exactly as current as a generated column would"     *)
(* (db.py:176-177): while somebody serves and nobody migrates, search sees *)
(* each listing as it is.                                                  *)
SearchIsCurrent ==
    (\E p \in Processes : ready[p]) /\ (\A t \in Threads : ~Migrating(t))
        => \A i \in Ids : Exists(i) => rows[i].vector = rows[i].version
=============================================================================
