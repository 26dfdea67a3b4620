# Verification of boomerang

boomerang keeps a Postgres database and a SQLite copy of it in step. Triggers on
both sides record every change of a row in a sync log; the truth table reads the
two logs and tells, record by record, which side has to be applied to the other.
This directory holds TLA+ models of that code, the TLC configurations that check
them, and TLAPS proofs. Paths below are relative to `crates/database/src/`.

## 1. Inventory

| component | source | state | operations |
|---|---|---|---|
| truth table | `sync/truth_table.rs`, `sync/log_row.rs` | two streams, a one-row lookahead and a table memo for each | `new`, `next_entry` (`pull`, `advance`, `resolve`) |
| string interner | `core/string_interner.rs` | per shard: hash table behind a lock, arena region with cursor and poison flag, lock-free array of chunks; per thread: a 4-way cache | `get_or_intern`, `get`, `resolve`, `bytes`, `from_bytes`, `offset_of`, `resolve_raw_offset` |
| Postgres dialect | `dialect/postgres.rs`, `sql/database_schema.sql` | in the database: schema `boomerang`, `sync_log`, trigger functions and triggers; in the server: the loaded schema | `new` (one transaction: set up, load schema, backfill, create triggers), `remove_setup` |
| SQLite dialect | `dialect/sqlite.rs` | temporary file shared by clones, pool, tables, `__sync_log__`, `__meta__` | `new`, `from`, `bytes`, `close`, `Drop`; `create_tables`, `alter_tables`, `setup_triggers`, `drop_triggers` |
| schema builder | `core/schema_builder.rs` | tables, columns and foreign keys under construction | `add_row`, `build` |
| schema and codec | `core/schema.rs` | immutable tables, columns, pools, index by name | lookups, `encode`, `decode`, `decode_unchecked` |
| values, quoting, errors | `core/value.rs`, `core.rs`, `dialect.rs` | none | conversions |

How they interact. The Postgres dialect feeds the catalogue to the builder, which
interns every name; the schema it builds is shared, read-only, by the SQLite
dialect and the truth table. Servers and ordinary clients share the Postgres
database and meet only there, through its locks. The truth table reads both logs
and looks their table names up in the schema's interner.

What is hard. Threads that intern the same string, readers that take no lock, a
save in the middle of it; two fetches that complete in either order, fail or are
dropped; servers that set up, crash and remove the setup while others do the same
and clients write, each of them waiting for locks the others keep; memos, caches, counts and lists that are stale when used; and
regions, chunks, indices and names at their limits; a migration that fails half way
or was told the wrong hash; a call that ends before it has a database handle; clones that export and close over one pool and one file;
cycles and dangling references in a schema whose parts are renumbered. `PROJECT.json` lists each of
these at its line under `hazards`, with the property that would notice.

What makes each component correct.

* Truth table: every record on which the logs differ is reported exactly once, in
  key order, with the verdict of the documented policy; `Ok(None)` means there is
  none left; no panic; every call returns.
* Interner: one symbol per string, for ever and for all threads; what was given
  out is found; unchecked reads are safe; a save decodes to the same symbols.
* Postgres dialect: the log counts every change of a record, in the step that makes it,
  and so tells which records exist; versions never go back; setups do not wait for each
  other in a circle; setting up and removing return, whoever else does the same.
* SQLite dialect: what is exported is the whole database, with log and triggers; the
  stored hash is that of the tables; a migration loses no row it need not; what is there
  is in the log; the file goes when its last user goes, and its sidecars with it; calls
  return.
* Both dialects: the log holds one row per record, with the last operation and a version
  that counts the changes by ones.
* Builder and codec: foreign keys point where they did, tables come after those they
  refer to unless there is a cycle, a table is found by its name, `decode` inverts
  `encode` and refuses what is cut short.

## 2. Modules

| module | what it is |
|---|---|
| `TruthTableSpec` | abstract: the promise of the truth table, over the two logs alone |
| `TruthTable` | the merge-join; implements `TruthTableSpec` |
| `TruthTable_proofs` | its theorems |
| `StringInterner`, `StringInterner_proofs` | the concurrent interner and its theorems |
| `SyncLog` | abstract: what a sync log promises its reader, whichever database keeps it |
| `CapturedLog` | abstract: what change capture promises of rows and log together |
| `PostgresSync` | change capture in Postgres; implements `SyncLog` |
| `PostgresCapture` | `PostgresSync` with a count of the changes clients make; implements `CapturedLog` |
| `PostgresSync_proofs` | theorems about both |
| `SqliteSync`, `SqliteSync_proofs` | the SQLite dialect and the device, and its theorems; implements `SyncLog`, as `PostgresSync` does |
| `Schema`, `Schema_proofs` | a schema, its lookups and its codec, as operators, and theorems about searching, sorting and lists |
| `SchemaCodec_proofs` | theorems about `encode` and `decode` of any schema; EXTENDS `Schema_proofs` |
| `SchemaBuilder` | how a schema is built from the rows of the catalogue; EXTENDS `Schema` |
| `SchemaBuilder_proofs` | theorems about its arrays and Kahn's algorithm; EXTENDS `Schema_proofs` |
| `SchemaLinks_proofs` | theorems that compare its result with the rows; EXTENDS `SchemaBuilder_proofs` and `SchemaCodec_proofs` |
| `MCTruthTable`, `MCStringInterner`, `MCPostgresSync`, `MCPostgresCapture`, `MCSqliteSync`, `MCSchema` | values of the constants for TLC |

Operators marked `(mutant)` are wrong variants of the definition after them, used
for mutation testing only: each property is known to fail on the variant that
`PROJECT.json` names for it.

### TruthTable

State: the two logs as the streams' snapshots (`pgLog`, `sqLog`), the rows not yet
delivered (`rest`), memo (`cache`), lookahead (`head`), and the locals of the
round in progress (`polled`, `inflight`, `fetched`). An action is what happens
between two awaits: `PullRow`, `PullEnd`, `PullUnknownTable` and `PullError`
complete one pull; `NextEntry` is a call up to its first await; `Emit` and `Skip`
are the rest of a round, up to the return or to the next round's await; `Cancel`
drops the future. Keys are pairs of numbers whose order is the byte-wise order both
queries ask for; symbols are injective in names and ordered differently from them.
Left out: decoding of columns (an error of it is `PullError`) and wording.

The code says errors are terminal, so nothing happens after `failed`; the caller may
also stop calling. Hence `CHECK_DEADLOCK FALSE` in these two configurations.

### StringInterner

One action per step that another thread can tell apart; the write section is cut at
each store a lock-free reader sees. Arena records are named by their position in
the region, so that slot value 0 means "not stored", as offset 0 does in the code.
The thread's cache is modelled with its ways, its choice of a way to overwrite, its
key and its comparison of long strings, which reads 4 bytes past where the string
begins; what is there may even be a record another thread is writing, so a hit on a
long string is never certain (`CacheMiss`). Entries of other interners compete for
the same ways (`OtherInterner`). History variables (`observed`, `known`, `before`,
`denied`) record what calls have answered.

Assumed of the constants: up to 8 bytes, length and prefix determine a string
(`ShortKeyAssumption`, what `prefix8` is for); two long strings of equal length,
prefix and 32-bit hash, one of which is the other moved by 4 bytes, do not exist
(`ShiftAssumption`). Left out: the static symbols (empty and one-byte strings never
reach this path), `LAST_CHUNK` (a published chunk is never replaced), `offset_of`,
`resolve_raw_offset`, the wrap-around of interner ids, and reorderings weaker than
the acquire/release pairs of the code, each of which orders the one store it guards.

### PostgresSync

One action per statement of `new` and `remove_setup`, or per client transaction. The
database follows READ COMMITTED: a statement sees what is committed when it starts.
A server's uncommitted work (`creates`, `pending`, `made`, `bodies`) becomes visible
at `Commit` and vanishes at `Rollback`, which also stands for a crash; what a removal
has done so far is in `listed`, `current` and `dropped`. `ListFunctions` finds the trigger
functions, `DropFunction` drops one of them, in whatever order `pg_proc` gives them, and
`DropSetup` drops the schema and commits.

Locks are kept to the end of a transaction. `Blockers(s)` are the servers whose locks the
next statement of `s` needs, and the guards of the actions say that there is none.
One transaction at a time creates the log. A backfill waits for a removal that has dropped
the table's trigger and for an uncommitted log row of the table; `CREATE OR REPLACE` waits
for whoever has changed the function or the table (`HoldsUpTrigger`), and `DROP FUNCTION`,
which locks the tables of the triggers that go with it (`Stripped`), for whoever has changed
the function or read one of these tables (`HoldsUpDrop`). `DROP SCHEMA` waits for the
transactions that have read the log. So a removal that holds tables and waits for the log,
and a `new` that holds the log and waits for tables, do wait for each other, and Postgres
ends one of the two (`BreakDeadlock`). Clients are one transaction each and wait, holding
nothing. Postgres and the clients are external and modelled from how the code relies on
them.

`RecordOf` says what of a key is logged, `FuncOf` which function a table's
trigger gets, `Late` which tables appear later; with the identity and no late tables
everything is as the code intends. `MCLastColumn` and `MCTruncated` of
`MCPostgresCapture` are the two values the code's own limits give them (section 4).
Clients have not set `boomerang.sync_write`. Left out: `updated_at`, columns, the
schema's hash. All servers visit tables in one order; the order of two servers can
differ if foreign keys are changed between their two schema loads.

### SyncLog

The log of either database as its reader sees it: a change of a record sets its last
operation and raises its version by one (`Change`), records older than the log enter at
version 1 (`Backfill`), and Postgres can remove the log as a whole (`Remove`,
`Removable`). `PostgresSync` maps its `log`, with pairs of table and record, to it;
`SqliteSync` maps the log of the device's copy. Under this mapping everything the server
does to a copy (migrations, fallbacks, failed exports) has to be a stutter. `SyncLog`
knows the log alone: a change that never reaches the log is a stutter too.

### CapturedLog and PostgresCapture

`CapturedLog` knows the rows as well: the log appears in one step with the records there
are, and from then on each insert, update and delete of a record is one more change, with
that number as the version of its log row in the same step, until the log is removed.
`PostgresCapture` adds the history variable `changes` to `PostgresSync`, which counts what
clients do to a record whether or not a trigger sees it; `CapturesChanges` is the
refinement. It fails on a gap in the setup, an old record left by a key update or a
table without a trigger, and holds under `CleanUse` (section 4).

### SqliteSync

The device's copy (`device`), and on the server one open database: what its connections
see (`db`), whether the file alone already holds it (`flushed`), whether file and
sidecars exist, the pool, and for each handle the step it has come to (`pc`). One action
is one transaction, one await or one file operation: `Open` makes and writes the temporary
file, `Connect` is the await of the pool, with which the sidecars appear, `Optimize` that
of `from`'s `PRAGMA optimize`. A call may fail, or its future be dropped, at every step.
Once there is an `SqliteDatabase` its `Drop` cleans up (`Abandon`); before that only
`NamedTempFile` is dropped, and the sidecars may stay (`AbandonConnecting`). The guard of an action is what SQLite itself would
refuse. SQLite, sqlx's pool and the device are external: a commit goes to the WAL,
`pool.close()` lets nobody in, waits for the connections in use, and the last connection
folds the WAL into the file; there is one writer at a time. The device writes only while
the server does not hold the database (its writes would be overwritten), through the
triggers its copy has.

Of a column the model keeps name, type and key, which is what `alter_tables` compares;
of a schema, these columns and the hash. `Served` may pair the columns of one schema with
the hash of another, which `load_schema` can produce because it reads them in two
statements. The field `trust` of a copy is an observer: it is lost when a hash is stored
over tables that may not be its own, that is with such a torn schema or when
`stored_schema_hash` fails and `create_tables` runs over tables that exist; a migration
restores trust in the hash, but not in what was or was not logged in between. These are
exactly the copies that two of the hazards are about, so `HashIsHonest` and `RowsAreLogged`
say nothing of the tear (`dialect/postgres.rs:263`) and of the failed read
(`dialect/sqlite.rs:113`), except that they do no harm to other copies. Left out:
defaults, NOT NULL, UNIQUE, CHECK and FOREIGN KEY clauses (that they make a script fail
is `AlterFails`), times, SQLite's case-insensitive names, bytes that are no database.
`drop_triggers` is one action although its statements commit one by one: when it stops
half way, `from` fails and the file goes.

### Schema and SchemaBuilder

A schema is a record of arrays that point into each other by number, from 0, as in the
source; the interner is the sequence of its strings and a symbol the place of one.
Encoded, a schema is the sequence of the fields that `encode` writes; a field is read
whole or not at all, so truncated bytes are a sequence with fewer fields. `decode` and
`decode_unchecked` walk over it alike, and only the first checks. `Decode` is that one walk
with the checks, so that the two readers agree is a matter of the translation and not
checked. Symbols are ordered by interning; the source's order by shard first. No property
depends on the order: tables are sorted and searched by symbol in either.

In `SchemaBuilder` one action is one row (`AddRow`) or one round of a loop of `build`:
`Build` ends the last table and sorts the tables by name (`old_by_name`), `ResolveFk` takes
one foreign key, `StartSort`, `Visit` and `Relax` are Kahn's algorithm, `AddCycles` appends
the tables it has not reached, and `Finish` renumbers and compacts. The structs of the
source are sets of records (`TableMeta`, `Column`, `ForeignKey`, `DatabaseSchemaBuilder`).
Rows come as the query of `load_schema` orders them (`RowsAssumption`); `Hash` is the
argument of `build`, any string. The properties compare the result
with definitions over the rows alone (`Leads`, `RefersTo`, `Tangled`); names and checks are
compared as strings (`StringsOf`), which is what rows have where the result has symbols.
`U16` stands for 2^16; that tables and columns are fewer is `LimitsAssumption`, and then no
index is `u16::MAX`, which encodes None.

## 3. Runs

| run | shows | instance |
|---|---|---|
| `truth_table` | refinement of `TruthTableSpec`, `ReportsAreTruth`, the `unreachable!` and the `debug_assert!` | all pairs of logs over 3 keys in 2 tables and 4 rows; 408,075 states |
| `truth_table_cancel` | `ReportsAscend` with a dropped call, `DoneMeansKnown`, `CallsReturn` | 4 keys in 3 tables, one unknown to the schema, 1 cancellation; 284,359 |
| `interner_threads` | `Canonical`, `NeverDenied`, `UncheckedIsSafe`, `SnapshotDecodes` | 2 interning threads, a third that resolves or saves, 2 shards, chunks of 1; 754,494 |
| `interner_limits` | `ArenaInBounds`, `Canonical`, `CallsReturn`, types | 3 strings, two with one cache key, 1 cache way shared with another interner, a region too small for all; 98,743 |
| `postgres_capture` | `LogIsCurrent` and refinement of `CapturedLog` under `CleanUse`, `SetupsDoNotDeadlock`, `SetupReturns` | 2 servers, 2 tables, 2 keys, versions to 2; 116,843 |
| `postgres_versions` | `VersionsNeverGoBack`, types | 2 servers, a late table without a key, key changes, clients that do not wait, versions to 3; 146,476 |
| `sqlite` | `HashIsHonest`, `RowsAreLogged`, `RowsSurvive`, `ExportsAreReady`, `FileMatchesUsers`, `SidecarsGoWithFile`, refinement of `SyncLog`, `CallsReturn`, types | 2 handles, 2 tables, 2 keys, 3 schemas and a torn one, 2 changes on the device; 348,898 |
| `schema` | `CountsAreRight`, `OrderIsTopological`, `ForeignKeysLeadHome`, `TablesAreFound`, `EndsAreFound`, `RoundTrip`, `DamageIsRefused`, `BuildReturns`, types | 3 tables of 1 or 2 columns in either order, one with a composite key, up to 2 foreign keys each, 0 to 2 checks a column, own and shared ones; 18,388 |

Why the bounds are enough. Three keys in two tables let the heads meet in the same
table, in different tables and after one stream has ended; the four rows reach every
arm of `resolve`. Two threads are what it takes to race for a lock, and one shard is
where they race; two shards let a save see one of them later than the other. Chunks of
one or two slots make every push or every other push publish a chunk; the limits run
runs out of each resource, and its one cache way makes every entry evict another. Two servers are what it takes to create at once,
wait for each other or drop what the other uses; two tables give an order of locks.
`MaxVersion` bounds versions: 2 shows a record inserted and then changed or deleted, 3
one that is changed in between. Two handles share a pool and a file
and can close and export at once; of the schemas, one adds, drops and retypes columns and
drops a table, one moves the key, and one has a composite key, so each arm of
`alter_tables` runs and each kind of failure occurs; two changes let a record be inserted
and then changed, deleted, moved or left behind by a migration. Three tables make cycles of one, two
and three, a table that refers to a cycle, and a double reference.
For the properties that are also proved (section 4), no bound matters.

Fairness. The truth table assumes that a pull that has been polled completes (the
database answers or the connection fails) and nothing of the caller. The interner
assumes that a thread in a call keeps running and that `parking_lot`'s lock, which is
eventually fair, does not pass a waiting thread over for ever: strong fairness of a
thread's next step. `postgres_capture` assumes that a statement that can run is run and
that Postgres grants locks in turn: strong fairness again; and that Postgres' detector
ends every deadlock sooner or later: weak fairness of `BreakDeadlock`. `sqlite` assumes that a future
that is polled goes on: weak fairness, since no step inside a call is disabled again by
others once it can run. `schema` assumes that `build`, a plain function, runs on. It may
stop at the end, hence `CHECK_DEADLOCK FALSE`. Only steps inside a call are
fair; nobody has to make another call, and no failure has to happen.

### Disagreements found

Each is a run in which TLC finds the property violated; `findings` quotes both sides.

* `interner_cache_hit`: the cached offset already points past the record's length, and
  the lookup adds 4 again, so strings of more than 8 bytes miss the thread's cache. The
  answers remain right (`Canonical`), the cache is of no use to them.
* `postgres_gap`: a row committed between backfill and `CREATE TRIGGER` is not logged.
* `postgres_key_update`: after a change of the key the old record stays alive in the log.
* `postgres_names`: the log says `public.t`, the interner knows `t`; the truth table
  ends with `UnknownTable` on the first row either dialect has logged.

## 4. Proofs

For all values of the constants; each theorem follows from an inductive invariant
that was first checked with TLC on the instances above.

* **TruthTable_proofs.** `TypeCorrect`, `UnreachableArm`, `AssertHolds`,
  `ReportsInOrder`, `UnknownTableIsReported`, `ReportsAreRight`, and `Refinement`:
  with no cancelled call, `Spec => Abstract!Spec`. None of the properties is inductive:
  that the reports are right needs to know which rows have been read. `IInv` says that
  every row held is a row of its log (`RowsAreReal`), the memo is right
  (`CacheIsRight`), each side is ordered: reported before head before fetched before
  the rest (`SidesAreOrdered`), and, the heart of it, that whatever one side has passed
  is smaller than all the other side has still to hand over (`Frontier`), so that a
  record absent from one head is absent from that log.
* **StringInterner_proofs.** `TypeCorrect`, `InterningIsCanonical`, `NothingIsDenied`,
  `UncheckedReadsAreSafe`, `SavedArenasDecode`, `ArenaStaysInBounds`. `IInv` relates the write section to the lock
  (`LockIsHeld`), counts records against slots in each phase of a push
  (`RecordsAreCounted`, `SlotsAreRight`), and says that table entries are stored and
  distinct (`EntriesAreStored`, `EntriesAreDistinct`), that every answer is backed by
  an entry (`AnswersAreBacked`), and every cache entry too (`CachesAreRight`). A save adds
  `SaveInv`: what it has read of a shard is still below the cursor, and covers all that was
  given out before the save began. `SnapshotDecodes` is about saves without an overflowed
  record. When the indices of a shard run out, `Symbol::new` panics after the record is in
  the arena, and a save that holds it makes `from_bytes` panic too. With 16 shards a region
  of 512 MB / 16 ends before the indices do; with one shard it need not.
* **PostgresSync_proofs.** `TypeCorrect`; `VersionsAreKept`, because uncommitted log
  rows are new and nobody else's (`PendingIsNew`); `Refinement`, `Spec => Log!Spec`, from
  the same invariant: a commit is a backfill of records without a row, a trigger is one
  change, `remove_setup` a removal, and nothing else moves the log; `CaptureIsComplete`:
  `CleanUse => (Spec => []LogIsCurrent)`; and `CaptureIsExact`: `CleanUse => (CaptureSpec =>
  CapturesChanges)`. `CleanUse` is that clients stay away from
  tables being set up, tables are there from the start, keys do not change, and records
  and functions have names of their own. Each conjunct is needed. `postgres_gap` and
  `postgres_key_update` show it of the first and the third; for the others, one change
  of a constant in `MCPostgresCapture.cfg` makes TLC find `LogIsCurrent` violated:
  `Late = {2}` (a table that appears later is not backfilled), `RecordOf <-
  MCLastColumn` (of a composite key only the last column is logged) and `FuncOf <-
  MCTruncated` (names cut at 63 bytes make two tables share one trigger function).
  The argument: a log that exists covers all tables (`AllHaveTriggers`), so only the
  transaction that creates it has anything to backfill (`PendingIsRight`), and while
  that transaction is open no client can write (`OneCreator`). `CaptureIsExact` adds that
  the version of a log row is the number of changes of its record.
  `SetupsKeepOrder`, that calls of `new` alone never wait in a circle, needs only that
  tables have functions of their own (`OwnFunctions`): a call
  waits only for one that is ahead of it, in a later loop or at a later table of the same
  loop, so in a circle the one that is furthest waits for nobody (`LocksInOrder`).

* **SqliteSync_proofs.** `TypeCorrect`, `FilesMatchUsers`, `SidecarsGo`, `HashesAreHonest`,
  `NoRowIsUnlogged`, `ExportsAreWhole`, `RowsAreKept`, and `Refinement`, `Spec => Log!Spec`.
  A property of the exported copy is decided steps earlier, so `IInv` says what the
  database is at each step of a call: on the way in it is the device's (`Unmigrated`);
  when tables are created there are none, or they are those of the stored hash
  (`ToCreate`); from then on it has the schema and the rows that had to survive
  (`Serving`), with no triggers but its own, and all of them before the bytes are read
  (`TriggersAreOwn`). Of the handles it says that one that opens is alone (`OpensAlone`),
  that files exist as long as somebody uses them (`UsersHaveFiles`), and that whoever reads
  the file reads it after the WAL is folded in (`ReadersAreLast`). `DeviceIsGood` is what an
  export has to establish for the next open; `LogIsCarried`, that the log is everywhere
  the device's, makes all the server does a stutter of `SyncLog`.
* **Schema_proofs.** Of the operators: `SearchFinds` (binary search finds what is there in
  a sorted list, and only that), `SortedBySorts` (`sort_by_key` gives a permutation in the
  order of the keys, ties in their old order), `LookupFinds` (a table is found by a symbol
  exactly when one has it), `FlattenSeqIs` (where each element of each part is in a
  flattened list). They are recursive functions. The library's induction theorems take
  predicates, which the provers cannot instantiate; here induction is over sets: `Least`
  (a nonempty set of numbers has a least element), from which `UpTo`, that a recursive
  function exists (`RecursiveFunction`), and that a recursion over tails computes what it
  says (`TailRecursion`).
* **SchemaBuilder_proofs.** `TypeCorrect`, which includes that every range lies in its pool
  and every resolved foreign key names a table; `CountsStayRight`, the invariant of Kahn's
  algorithm: a table waits for as many references as lead from it to tables not visited,
  and is sorted or queued, once, exactly when it waits for none; `TablesAreKept`: every
  table is in the result exactly once, whatever the cycles; `LookupsAreExact`: the index by
  name, made after the renumbering, finds every table of the result and no other;
  `ReferencesComeFirst`: over the references `build` resolved, a table comes after all it
  refers to unless it refers, directly or not, to a cycle, and those come last. `IInv` ties each phase to what the earlier
  ones left (`EarlyInv`, `IndexInv`, `GraphInv`), and counts occurrences in the order
  (`OrderInv`), since `AddCycles` adds what is missing and must add nothing twice. The order
  rests on `BeforeInv` (what waits for nothing is after all it refers to) and `TangleInv`
  (what still waits when the queue is empty waits for another that does).
* **SchemaCodec_proofs.** For every schema of the right type: `DecodeInverts` (both decoders
  give back what `encode` wrote, if no primary key has the number `u16::MAX`, which stands
  for None), `CutsAreRefused` (`decode` refuses a buffer cut short anywhere) and
  `ZeroSymbolsAreRefused`. The argument says where each list of the encoding begins and
  each of its elements lies, although the elements vary in width, and that the walk of the
  decoders comes by exactly these places. Of a buffer that was cut or zeroed it says which of
  the checks fails: the fields that steer the walk are never symbols, so a zeroed
  buffer is walked like the whole one, and one that is cut is too short for the walk.
* **SchemaLinks_proofs.** The properties of the result of `build` that speak of the rows
  of the catalogue, for any rows: `DamageRefused`, `SchemaComesBack`, `OrderFollowsReferences`,
  `TablesComeBack`, `ForeignKeysComeHome`, `EndsComeBack`. What they need is an invariant
  that never lets go of the rows: `LinkInv` says that the column at each place is that of
  the row at this place, that its keys are a piece of the pool as long as the row's keys, that its range of
  constraints holds the symbols of the row's checks (`ChecksLinked`),
  that a table is a stretch of columns with one name, and that what is unresolved at each
  place of the pool names what the row names. `ResolveInv` says of the keys resolved so far
  that exactly those that name a reported column are there and lead to it, and that the graph
  has an edge exactly where a row refers to another table. Both were checked with TLC on
  the instance of `MCSchema` first. At the end, a pool with gaps is compacted while
  the tables are renumbered; the proof cuts the compacted pool into the pieces of the
  columns and shows each to be what is left of its row's keys, in their order.

  Postgres has at most 1600 columns in a table. Three of the numbers that the code cuts to
  16 bits are bounded by nothing: the tables, whose indices wrap beyond 2^16, the checks of
  a column and the foreign keys of a table, which count with `as u16`. Of the tables
  `LimitsAssumption` says that they are fewer, and all theorems rest on it. `TablesComeBack` has
  the premise `ChecksFit`, and `ForeignKeysComeHome` and `EndsComeBack` have `KeyCountsFit`,
  that these numbers of the rows are below 2^16; they are premises about the rows
  inside the theorems, not assumptions. The second is needed: in a copy of the instance of
  `MCSchema` with four keys in one table and `U16 = 4`, the count is 0 and TLC finds
  `ForeignKeysLeadHome` and `EndsAreFound` violated, and the other properties not.

Assumptions are the named `ASSUME`s of the modules, which TLC evaluates in the runs.

Only model-checked: liveness (`CallsReturn`, `SetupReturns`, `BuildReturns`), because
fairness and ENABLED are out of the prover's reach. Every invariant, action property and
refinement that a passing run checks is also a theorem, and the refinement of `SyncLog` by
`PostgresSync` is only proved; the four runs that end in a violation
have nothing to prove.

## 5. Plan

Done: all modules of section 2, and the proofs of section 4; nothing of the plan is left.
If the code grows, these are the places to go on: the code that applies verdicts, with which
the two dialects and the truth table could be composed (section 6), and the
hazards that have no property, once the repository says what is expected there.

## 6. Not modelled

* What is done with a verdict. The truth table hands out entries; the code that would
  apply them to rows of the other database is not in the repository, so the two dialects
  and the truth table cannot be composed any further than through the log: `SyncLog` is
  what one side promises, rows in key order with versions is what the other reads. Nor can
  the logs tell whether records of equal version, time and operation, which the truth table
  takes for being in sync, have the same content.
* `core/value.rs` beyond `ValueType` (conversions, one arm each), `core.rs` (quoting, by
  characters), `dialect.rs` (an enum), the binary (prints a line), the benchmarks.
* Of the interner: the static symbols, `LAST_CHUNK` and the wrap-around of interner ids
  (2^32 interners in one process), `offset_of` and `resolve_raw_offset` (no caller).
* Of the codec: damage other than truncation and zero symbols.
* Of SQLite: what of a column is not compared by `alter_tables` (section 2).
