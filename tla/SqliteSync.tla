----------------------------- MODULE SqliteSync -----------------------------
(***************************************************************************)
(* The SQLite side: crates/database/src/dialect/sqlite.rs.                 *)
(*                                                                         *)
(* A device keeps an SQLite database whose triggers record every change in *)
(* __sync_log__.  The server makes the first copy (new) or takes the bytes *)
(* of the device's copy into a temporary file (from), migrates it to the   *)
(* schema it serves, drops the triggers, and at the end creates them again *)
(* and hands out the bytes of the file (bytes).  An SqliteDatabase can be  *)
(* cloned: the clones share the pool of connections and the file, and the  *)
(* last one to go removes the file.                                        *)
(*                                                                         *)
(* One action is one transaction, one await or one file operation of a     *)
(* handle.  A call may return an error, or its future may be dropped,      *)
(* between any two of them.  The model follows one line of copies: while   *)
(* the server holds the database the device does not write (what it wrote  *)
(* would be overwritten by the bytes it gets back).  SQLite and the pool   *)
(* are modelled from how this code uses them: a transaction is atomic, a   *)
(* commit goes to the WAL and from there to the file when SQLite sees fit, *)
(* and when the last connection closes the WAL is folded into the file.    *)
(*                                                                         *)
(* Of a column the model keeps what alter_tables compares: name, type and  *)
(* whether it is the key.  Defaults, NOT NULL, UNIQUE, CHECK and FOREIGN   *)
(* KEY clauses are left out; that one of them makes a script fail is not.  *)
(* Operators marked (mutant) are wrong variants of the definition that     *)
(* follows them; nothing uses them but mutation testing.                   *)
(***************************************************************************)
EXTENDS Integers, FiniteSets

CONSTANTS
    Handles,        \* the SqliteDatabase values there may be at one time
    Names,          \* table names
    Keys,           \* the primary keys of rows, as text
    Shapes,         \* schema -> table -> its columns, {} when there is none
    Served,         \* the [shape, hash] pairs the server may have loaded
    None,           \* Rust's None
    Active,         \* bound: the tables whose rows the device changes
    MaxChanges      \* bound: how many rows it changes

Schemas == DOMAIN Shapes

Records == Names \X Keys

\* load_schema reads the columns and the hash in two statements (postgres.rs):
\* a DDL commit in between gives a schema with the hash of another.
Torn(s) == s.shape # s.hash

ASSUME SchemasAssumption ==
    /\ \A s \in Schemas : DOMAIN Shapes[s] = Names
    /\ Served \subseteq [shape : Schemas, hash : Schemas]

\* A column of a schema, with the name of its ValueType.
SchemaColumn == [name : STRING, type : STRING, key : BOOLEAN]

ASSUME ColumnsAssumption ==
    \A s \in Schemas, n \in Names :
        IsFiniteSet(Shapes[s][n]) /\ Shapes[s][n] \subseteq SchemaColumn

ASSUME ConstantsAssumption ==
    /\ IsFiniteSet(Handles) /\ Handles # {}
    /\ Active \subseteq Names /\ MaxChanges \in Nat
    /\ None \notin Schemas

LogEntry == [op : {"I", "U", "D"}, version : Nat \ {0}]

\* A column of a table of the file, with its SQLite type.
Column == [name : STRING, type : {"INTEGER", "REAL", "BLOB", "TEXT"},
           key : BOOLEAN]

\* The content of a database.  Its field trust is an observer: "full" as long
\* as stored hash and log can be relied on, "hash" when only the hash can,
\* "none" when a hash was stored that may not be that of the tables.
Content ==
    [tables : [Names -> SUBSET Column],
     rows : [Names -> SUBSET Keys],
     log : [Records -> LogEntry \cup {None}] \cup {None},
     hash : Schemas \cup {None},
     triggers : [Names -> STRING \cup {None}],
     trust : {"full", "hash", "none"}]

ASSUME NoneAssumption ==
    /\ None \notin LogEntry
    /\ None \notin [Records -> LogEntry \cup {None}]
    /\ None \notin STRING
    /\ None \notin Content

VARIABLES
    device,     \* the content of the device's copy, or None
    schema,     \* the schema the open SqliteDatabase was made with, or None
    db,         \* what its connections see: the file and its WAL; or None
    flushed,    \* does the file alone hold all of it?
    file,       \* does the temporary file exist?
    sidecars,   \* do the -wal and -shm files of the last one?
    pool,       \* "none", "open" or "closed"
    pc,         \* handle -> the step it comes to
    failed,     \* has the migration script of this open failed?
    changes     \* how many rows the device has changed

storage == <<device, schema, db, flushed, file, sidecars, pool, failed>>
vars == <<storage, pc, changes>>

\* new and from before there is an SqliteDatabase, and until they return.
Connecting == {"connect", "optimize"}
Opening == Connecting \cup {"hash", "alter", "dropall", "create", "untrigger"}
Exporting == {"commit", "checkpoint", "shut", "read"}
InCall == Opening \cup Exporting \cup {"drain"}
Steps == InCall \cup {"free", "live"}

-----------------------------------------------------------------------------
(* What a transaction makes of the content of a database.                  *)

EmptyLog == [r \in Records |-> None]

Blank ==
    [tables |-> [n \in Names |-> {}], rows |-> [n \in Names |-> {}],
     log |-> None, hash |-> None, triggers |-> [n \in Names |-> None],
     trust |-> "full"]

\* sqlite_type.
SqliteType(ty) ==
    CASE ty \in {"Bool", "Int"} -> "INTEGER"
      [] ty = "Float" -> "REAL"
      [] ty \in {"Blob", "Null"} -> "BLOB"
      [] OTHER -> "TEXT"

\* The table that write_create_table makes of the columns of the schema.
Made(columns) ==
    {[name |-> c.name, type |-> SqliteType(c.type), key |-> c.key]
        : c \in columns}

Wanted(s) == [n \in Names |-> Made(Shapes[s][n])]

KeyColumns(columns) == {c \in columns : c.key}

\* TableRef::primary_key, the last of several.  A table of the file has at
\* most one: CREATE TABLE refuses a second column marked PRIMARY KEY.
KeyOf(columns) ==
    IF KeyColumns(columns) = {} THEN None
                                ELSE (CHOOSE c \in columns : c.key).name

Creatable(columns) == Cardinality(KeyColumns(columns)) <= 1

\* (mutant) A table with a new column is rebuilt as well.
RebuildForNewColumn(live, want) ==
    \/ \E w \in want : ~ \E l \in live : l.name = w.name
    \/ \E w \in want, l \in live :
          l.name = w.name /\ (l.type # w.type \/ l.key # w.key)
    \/ \E l \in KeyColumns(live) : \A w \in want : w.name # l.name

\* Must a table be dropped and created again to get the columns it needs?
Rebuild(live, want) ==
    \/ \E w \in want, l \in live :
          l.name = w.name /\ (l.type # w.type \/ l.key # w.key)
    \/ \E w \in KeyColumns(want) : \A l \in live : w.name # l.name
    \/ \E l \in KeyColumns(live) : \A w \in want : w.name # l.name

\* The tables of c that stay, with columns added and dropped.
Kept(c, want) ==
    {n \in Names : c.tables[n] # {} /\ want[n] # {}
                   /\ ~ Rebuild(c.tables[n], want[n])}

Trust(c, s, sure) ==
    IF Torn(s) \/ ~ sure THEN "none"
    ELSE IF c.trust = "full" THEN "full" ELSE "hash"

\* (mutant) Columns that the schema no longer has are left where they are.
AlteredLeavesColumns(c, s) ==
    LET want == Wanted(s.shape)
        kept == Kept(c, want)
    IN  [c EXCEPT
          !.tables = [n \in Names |->
              IF n \in kept THEN want[n] \cup {l \in c.tables[n] :
                                   \A w \in want[n] : w.name # l.name}
                            ELSE want[n]],
          !.rows = [n \in Names |-> IF n \in kept THEN @[n] ELSE {}],
          !.triggers = [n \in Names |-> IF n \in kept THEN @[n] ELSE None],
          !.hash = s.hash,
          !.trust = Trust(c, s, TRUE)]

\* The script of alter_tables.  DROP TABLE takes the triggers along and fires
\* none of them: the log does not learn of the rows that go.
Altered(c, s) ==
    LET want == Wanted(s.shape)
        kept == Kept(c, want)
    IN  [tables |-> want,
         rows |-> [n \in Names |-> IF n \in kept THEN c.rows[n] ELSE {}],
         log |-> c.log,
         hash |-> s.hash,
         triggers |-> [n \in Names |-> IF n \in kept THEN c.triggers[n]
                                                   ELSE None],
         trust |-> Trust(c, s, TRUE)]

\* (mutant) The log and the meta table are among the tables found.
DroppedWithLog(c) ==
    [Blank EXCEPT !.trust = c.trust]

\* The fallback: every table but __sync_log__ and __meta__ is dropped.
Dropped(c) ==
    [tables |-> Blank.tables, rows |-> Blank.rows, log |-> c.log,
     hash |-> c.hash, triggers |-> Blank.triggers, trust |-> c.trust]

\* create_tables: CREATE TABLE IF NOT EXISTS leaves a table that is there as
\* it is, and the new hash is stored all the same.
Created(c, s) ==
    [tables |-> [n \in Names |-> IF c.tables[n] = {} THEN Wanted(s.shape)[n]
                                                    ELSE c.tables[n]],
     rows |-> c.rows,
     log |-> IF c.log = None THEN EmptyLog ELSE c.log,
     hash |-> s.hash,
     triggers |-> c.triggers,
     trust |-> Trust(c, s, \/ \A n \in Names : c.tables[n] = {}
                           \/ c.hash = s.hash /\ c.trust # "none")]

\* setup_triggers: three triggers per table of the schema, which record its
\* primary key.  They are created on the tables the file has.
Triggered(c, s) ==
    [c EXCEPT !.triggers = [n \in Names |->
        IF Shapes[s.shape][n] # {} /\ @[n] = None
        THEN KeyOf(Shapes[s.shape][n]) ELSE @[n]]]

Untriggered(c) == [c EXCEPT !.triggers = [n \in Names |-> None]]

-----------------------------------------------------------------------------
(* Handles.                                                                *)

Init ==
    /\ device = None
    /\ schema = None
    /\ db = None
    /\ flushed = TRUE
    /\ file = FALSE
    /\ sidecars = FALSE
    /\ pool = "none"
    /\ pc = [h \in Handles |-> "free"]
    /\ failed = FALSE
    /\ changes = 0

Goto(h, step) == pc' = [pc EXCEPT ![h] = step]

Idle == \A h \in Handles : pc[h] = "free"

\* The handle h is the last one: Arc::into_inner gives it the file.
Last(h) == \A g \in Handles \ {h} : pc[g] = "free"

\* A transaction commits, into the WAL.
Commit(content) ==
    /\ db' = content
    /\ flushed' = FALSE

Gone ==
    /\ schema' = None
    /\ db' = None
    /\ flushed' = TRUE
    /\ file' = FALSE
    /\ pool' = "none"
    /\ failed' = FALSE

\* (mutant) remove_sidecar_files is not called.
LetGoLeavesSidecars(h) ==
    /\ Goto(h, "free")
    /\ IF Last(h) THEN Gone
                  ELSE UNCHANGED <<schema, db, flushed, file, pool, failed>>
    /\ UNCHANGED sidecars

\* (mutant) Every handle that goes removes the files.
LetGoAlways(h) ==
    /\ Goto(h, "free")
    /\ Gone
    /\ sidecars' = FALSE

\* Drop, and the end of bytes and close: the last handle removes the sidecar
\* files and the file.
LetGo(h) ==
    /\ Goto(h, "free")
    /\ IF Last(h) THEN Gone /\ sidecars' = FALSE
                  ELSE UNCHANGED <<schema, db, flushed, file, sidecars, pool,
                                   failed>>

Release(h) == LetGo(h) /\ UNCHANGED device

\* The file as NamedTempFile::drop leaves it: the sidecars are not its own.
ReleaseFile(h) ==
    /\ Goto(h, "free")
    /\ IF Last(h) THEN Gone
                  ELSE UNCHANGED <<schema, db, flushed, file, pool, failed>>
    /\ UNCHANGED <<device, sidecars>>

\* An error is returned, or the future dropped.
Abandon(h) ==
    /\ pc[h] \in InCall \ Connecting
    /\ IF pc[h] = "read" THEN ReleaseFile(h) ELSE Release(h)

\* The same while there is no SqliteDatabase yet, whose Drop would run: the
\* file goes with NamedTempFile::drop, and whether a connection that closes
\* takes the sidecars along is open.
AbandonConnecting(h) ==
    /\ pc[h] \in Connecting
    /\ Goto(h, "free")
    /\ Gone
    /\ sidecars' \in BOOLEAN
    /\ UNCHANGED device

Drop(h) == pc[h] = "live" /\ Release(h)

Clone(h, g) ==
    /\ pc[h] = "live"
    /\ pc[g] = "free"
    /\ Goto(g, "live")
    /\ UNCHANGED storage

\* The temporary file is made, under a new name, and written.
Open(h, content, s) ==
    /\ Idle
    /\ schema' = s
    /\ db' = content
    /\ flushed' = TRUE
    /\ file' = TRUE
    /\ sidecars' = FALSE
    /\ Goto(h, "connect")
    /\ UNCHANGED <<device, pool, failed>>

New(h, s) == device = None /\ Open(h, Blank, s)

From(h, s) == device # None /\ Open(h, device, s)

\* connect_with; after it new has an SqliteDatabase, from has not.
Connect(h) ==
    /\ pc[h] = "connect"
    /\ pool' = "open"
    /\ sidecars' = TRUE
    /\ Goto(h, IF device = None THEN "create" ELSE "optimize")
    /\ UNCHANGED <<device, schema, db, flushed, file, failed>>

\* PRAGMA optimize, whose result is ignored; it may write statistics.
Optimize(h) ==
    /\ pc[h] = "optimize"
    /\ flushed' \in BOOLEAN
    /\ Goto(h, "hash")
    /\ UNCHANGED <<device, schema, db, file, sidecars, pool, failed>>

-----------------------------------------------------------------------------
(* new and from, once the file is open.                                    *)

\* stored_schema_hash: an error is taken for a hash that is not there.
StoredHashes(c) == {c.hash, None}

\* With a torn schema the triggers will be those of the shape, the tables stay
\* those of the hash.
TrustOnOpen == IF Torn(schema) /\ db.trust = "full" THEN "hash" ELSE db.trust

ReadHash(h) ==
    /\ pc[h] = "hash"
    /\ \E stored \in StoredHashes(db) :
          /\ Goto(h, IF stored = schema.hash THEN "untrigger"
                     ELSE IF stored = None THEN "create" ELSE "alter")
          /\ db' = IF stored = schema.hash
                   THEN [db EXCEPT !.trust = TrustOnOpen] ELSE db
    /\ UNCHANGED <<device, schema, flushed, file, sidecars, pool, failed>>

\* alter_tables: introspection, comparison and one transaction.
Alter(h) ==
    /\ pc[h] = "alter"
    /\ \A n \in Names \ Kept(db, Wanted(schema.shape)) :
          Creatable(Wanted(schema.shape)[n])
    /\ Commit(Altered(db, schema))
    /\ Goto(h, "untrigger")
    /\ UNCHANGED <<device, schema, file, sidecars, pool, failed>>

\* The script fails and is rolled back: a unique index over rows that already
\* have the default, a column that cannot be dropped, two key columns.
AlterFails(h) ==
    /\ pc[h] = "alter"
    /\ failed' = TRUE
    /\ Goto(h, "dropall")
    /\ UNCHANGED <<device, schema, db, flushed, file, sidecars, pool>>

DropAll(h) ==
    /\ pc[h] = "dropall"
    /\ Commit(Dropped(db))
    /\ Goto(h, "create")
    /\ UNCHANGED <<device, schema, file, sidecars, pool, failed>>

CanCreate ==
    \A n \in Names : db.tables[n] = {} => Creatable(Wanted(schema.shape)[n])

Create(h) ==
    /\ pc[h] = "create"
    /\ CanCreate
    /\ Commit(Created(db, schema))
    /\ Goto(h, IF device = None THEN "live" ELSE "untrigger")
    /\ UNCHANGED <<device, schema, file, sidecars, pool, failed>>

\* "creating sqlite tables": a table has two key columns.
CreateFails(h) ==
    /\ pc[h] = "create"
    /\ ~ CanCreate
    /\ Release(h)

\* drop_triggers.
Untrigger(h) ==
    /\ pc[h] = "untrigger"
    /\ Commit(Untriggered(db))
    /\ Goto(h, "live")
    /\ UNCHANGED <<device, schema, file, sidecars, pool, failed>>

-----------------------------------------------------------------------------
(* bytes and close.                                                        *)

\* Every table of the schema has a key.
Triggerable ==
    \A n \in Names : Shapes[schema.shape][n] # {} =>
        KeyOf(Shapes[schema.shape][n]) # None

\* bytes, up to where setup_triggers has a connection and its transaction is
\* open; SQLite has one writer at a time.
Bytes(h) ==
    /\ pc[h] = "live"
    /\ Triggerable
    /\ pool = "open"
    /\ \A g \in Handles : pc[g] # "commit"
    /\ Goto(h, "commit")
    /\ UNCHANGED storage

\* "Table has no primary key", or another clone has closed the pool.
BytesFails(h) ==
    /\ pc[h] = "live"
    /\ ~ Triggerable \/ pool = "closed"
    /\ Release(h)

\* The file has every table that is to get a trigger.
TablesAreThere ==
    \A n \in Names : Shapes[schema.shape][n] # {} => db.tables[n] # {}

SetupTriggers(h) ==
    /\ pc[h] = "commit"
    /\ TablesAreThere
    /\ Commit(Triggered(db, schema))
    /\ Goto(h, "checkpoint")
    /\ UNCHANGED <<device, schema, file, sidecars, pool, failed>>

\* "creating sqlite triggers".
SetupTriggersFails(h) ==
    /\ pc[h] = "commit"
    /\ ~ TablesAreThere
    /\ Release(h)

\* (mutant) The file is read without closing the pool first.
CheckpointThenRead(h) ==
    /\ pc[h] = "checkpoint"
    /\ flushed' \in {flushed, pool = "open" \/ flushed}
    /\ pool' = "closed"
    /\ Goto(h, "read")
    /\ UNCHANGED <<device, schema, db, file, sidecars, failed>>

\* PRAGMA wal_checkpoint, whose result is ignored, and the start of
\* pool.close(), from where on nobody gets a connection.
Checkpoint(h) ==
    /\ pc[h] = "checkpoint"
    /\ flushed' \in {flushed, pool = "open" \/ flushed}
    /\ pool' = "closed"
    /\ Goto(h, "shut")
    /\ UNCHANGED <<device, schema, db, file, sidecars, failed>>

\* pool.close() waits for the connections in use; the last one to close folds
\* the WAL into the file and removes it.
Closed(h) ==
    /\ \A g \in Handles : pc[g] # "commit"
    /\ flushed' = TRUE
    /\ sidecars' = FALSE

Shut(h) ==
    /\ pc[h] = "shut"
    /\ Closed(h)
    /\ Goto(h, "read")
    /\ UNCHANGED <<device, schema, db, file, pool, failed>>

\* std::fs::read, then the end of bytes.  What is read is the database: the
\* file is flushed (ExportsAreReady).  The device may never get the bytes.
Read(h) ==
    /\ pc[h] = "read"
    /\ device' \in {db, device}
    /\ LetGo(h)

Close(h) ==
    /\ pc[h] = "live"
    /\ pool' = "closed"
    /\ Goto(h, "drain")
    /\ UNCHANGED <<device, schema, db, flushed, file, sidecars, failed>>

\* (mutant) close waits until the file is its own.
DrainWhenLast(h) ==
    /\ pc[h] = "drain"
    /\ Last(h)
    /\ Release(h)

Drain(h) ==
    /\ pc[h] = "drain"
    /\ \/ ~ Last(h)
          /\ Closed(h)
          /\ Goto(h, "free")
          /\ UNCHANGED <<device, schema, db, file, pool, failed>>
       \/ Last(h) /\ Release(h)

-----------------------------------------------------------------------------
(* The device, and its triggers.                                           *)

\* A row of n may be written.
Writable(n) ==
    /\ device # None
    /\ Idle
    /\ changes < MaxChanges
    /\ KeyOf(device.tables[n]) # None
    /\ device.triggers[n] # None =>
          /\ \E c \in device.tables[n] : c.name = device.triggers[n]
          /\ device.log # None

\* (mutant) VALUES (..., 0, ...).
TouchedFromZero(old, op) ==
    [op |-> op, version |-> IF old = None THEN 0 ELSE old.version + 1]

\* The body of a trigger: INSERT ... ON CONFLICT DO UPDATE.
Touched(old, op) ==
    [op |-> op, version |-> IF old = None THEN 1 ELSE old.version + 1]

\* (mutant) Only the INSERT trigger records NEW.
RecordedOld(op, old, new) == IF op = "I" THEN new ELSE old

\* The row whose key a trigger records: OLD for DELETE, else NEW.
Recorded(op, old, new) == IF op = "D" THEN old ELSE new

\* The log after a row with key old has become one with key new.
Touch(n, op, old, new) ==
    IF device.triggers[n] = None THEN device.log
    ELSE [device.log EXCEPT
            ![<<n, Recorded(op, old, new)>>] = Touched(@, op)]

Write(n, rows, log) ==
    /\ device' = [device EXCEPT !.rows[n] = rows, !.log = log]
    /\ changes' = changes + 1
    /\ UNCHANGED <<schema, db, flushed, file, sidecars, pool, failed, pc>>

Insert(n, k) ==
    /\ Writable(n)
    /\ k \notin device.rows[n]
    /\ Write(n, device.rows[n] \cup {k}, Touch(n, "I", k, k))

\* The row of k is changed, perhaps its key too.
Update(n, k, j) ==
    /\ Writable(n)
    /\ k \in device.rows[n]
    /\ j \in device.rows[n] => j = k
    /\ Write(n, (device.rows[n] \ {k}) \cup {j}, Touch(n, "U", k, j))

Delete(n, k) ==
    /\ Writable(n)
    /\ k \in device.rows[n]
    /\ Write(n, device.rows[n] \ {k}, Touch(n, "D", k, k))

-----------------------------------------------------------------------------
\* What a call does by itself.
Step(h) ==
    \/ Connect(h)
    \/ Optimize(h)
    \/ ReadHash(h)
    \/ Alter(h)
    \/ AlterFails(h)
    \/ DropAll(h)
    \/ Create(h)
    \/ CreateFails(h)
    \/ Untrigger(h)
    \/ SetupTriggers(h)
    \/ SetupTriggersFails(h)
    \/ Checkpoint(h)
    \/ Shut(h)
    \/ Read(h)
    \/ Drain(h)

Next ==
    \/ \E h \in Handles :
          /\ \/ Step(h)
             \/ Bytes(h)
             \/ BytesFails(h)
             \/ Close(h)
             \/ Drop(h)
             \/ Abandon(h)
             \/ AbandonConnecting(h)
             \/ \E g \in Handles : Clone(h, g)
             \/ \E s \in Served : New(h, s) \/ From(h, s)
          /\ UNCHANGED changes
    \/ \E n \in Active, k \in Keys : Insert(n, k) \/ Delete(n, k)
    \/ \E n \in Active, k, j \in Keys : Update(n, k, j)

Spec == Init /\ [][Next]_vars

\* A future that is polled goes on.
Fairness == \A h \in Handles : WF_vars(Step(h) /\ UNCHANGED changes)

FairSpec == Spec /\ Fairness

-----------------------------------------------------------------------------
(* Properties.                                                             *)

TypeOK ==
    /\ {device, db} \subseteq Content \cup {None}
    /\ schema \in Served \cup {None}
    /\ {flushed, file, sidecars, failed} \subseteq BOOLEAN
    /\ pool \in {"none", "open", "closed"}
    /\ pc \in [Handles -> Steps]
    /\ changes \in 0..MaxChanges

\* The copies that are not in the middle of being opened.
Settled ==
    {device, IF \E h \in Handles : pc[h] \in Opening THEN None ELSE db}
        \ {None}

\* from() skips the migration when the stored hash is that of its schema: a
\* copy carries a hash only when its tables are those of that schema, unless
\* a hash was stored after a failed read or with a torn schema.  The next
\* migration puts such a copy right, whatever tables it has.
HashIsHonest ==
    \A c \in Settled :
        c.trust # "none" => c.hash # None /\ c.tables = Wanted(c.hash)

\* A row of a table is in the log, and not as deleted: neither migrations nor
\* changes of the key lose sight of it.
RowsAreLogged ==
    \A c \in Settled : c.trust = "full" =>
        \A n \in Names : \A k \in c.rows[n] :
            c.log[<<n, k>>] # None /\ c.log[<<n, k>>].op # "D"

\* The log of the copies is a sync log: it goes through the server and its
\* migrations unchanged, and only the device's changes count in it.
Log == INSTANCE SyncLog WITH
    log <- IF device = None THEN EmptyLog ELSE device.log,
    Removable <- FALSE

ImplementsSyncLog == Log!Spec

\* What bytes() reads from the file is the whole database, WAL included, with
\* a log and with a trigger on the key of every table.
ExportsAreReady ==
    \A h \in Handles : pc[h] = "read" =>
        /\ flushed
        /\ db.log # None
        /\ db.trust = "full" => \A n \in Names : db.tables[n] # {} =>
              db.triggers[n] = KeyOf(db.tables[n])

\* The file is there as long as a handle or a call needs it, and not longer,
\* whichever of them ends last and wherever it ends.
FileMatchesUsers == file <=> ~ Idle

\* The sidecars go with the file, or before it, except when new() or from()
\* ends before there is an SqliteDatabase to be dropped.
SidecarsGoWithFile ==
    [][file /\ ~ file' =>
          ~ sidecars' \/ \E h \in Handles : pc[h] \in Connecting]_vars

\* The tables whose rows can stay: the key is the same column of the same type
\* and no other column changes its type.
Compatible(n) ==
    LET old == device.tables[n]
        new == Wanted(schema.shape)[n]
    IN  /\ KeyColumns(old) = KeyColumns(new)
        /\ \A c \in old, d \in new : c.name = d.name => c = d

\* from() loses rows only when it has to: when the table is gone, or its key
\* or a type differs, or the script failed.
RowsSurvive ==
    device # None /\ (\E h \in Handles : pc[h] \in {"live"} \cup Exporting)
        /\ ~ failed =>
        \A n \in Names :
            Wanted(schema.shape)[n] # {} /\ Compatible(n) =>
                db.rows[n] = device.rows[n]

\* new, from, bytes and close return: clones that export or close at the same
\* time do not wait for each other.
CallsReturn ==
    \A h \in Handles : pc[h] \in InCall ~> pc[h] \in {"free", "live"}
=============================================================================
