---------------------------- MODULE PostgresSync ----------------------------
(***************************************************************************)
(* Change capture in Postgres: crates/database/src/dialect/postgres.rs.    *)
(*                                                                         *)
(* PostgresDatabase::new runs one transaction: create the sync log, load   *)
(* the schema, fill an empty log with a row per existing record, create a  *)
(* trigger function and a trigger per table, commit.  From then on every   *)
(* row a client changes is recorded by the trigger.  remove_setup takes    *)
(* all of it away again.                                                   *)
(*                                                                         *)
(* Postgres itself is modelled from how this code uses it: READ COMMITTED, *)
(* so every statement sees what is committed when it starts; a lock that a *)
(* statement takes is kept until its transaction ends, and who wants a     *)
(* conflicting one waits (Blockers); of transactions that wait for each    *)
(* other in a circle Postgres ends one.  One action is one statement, or   *)
(* one transaction of a client, who has not set boomerang.sync_write.      *)
(*                                                                         *)
(* Tables are numbers; their order stands for that of schema.tables().     *)
(* Operators marked (mutant) are wrong variants of the definition that     *)
(* follows them; nothing uses them but mutation testing.                   *)
(***************************************************************************)
EXTENDS Integers, FiniteSets

CONSTANTS
    Servers,        \* the processes that open a PostgresDatabase
    Tables,         \* the tables of the namespace public
    Late,           \* those created only while the system runs
    Keyed,          \* those with a primary key
    Keys,           \* the primary keys of rows
    RecordOf,       \* key -> text of its last column, the only one logged
    FuncOf,         \* table -> name of its trigger function, at most 63 bytes
    None,           \* Rust's None, SQL's absence of a row
    KeyUpdates,     \* do clients change primary keys?
    QuietSetup,     \* do they stay away from tables that are being set up?
    MaxVersion      \* bound on the version of a log row

Records == {RecordOf[k] : k \in Keys}

Functions == {FuncOf[t] : t \in Tables}

ASSUME TablesAssumption ==
    /\ Tables \subseteq Nat /\ IsFiniteSet(Tables)
    /\ Late \subseteq Tables /\ Keyed \subseteq Tables
    /\ DOMAIN RecordOf = Keys /\ DOMAIN FuncOf = Tables

ASSUME FlagsAssumption ==
    /\ KeyUpdates \in BOOLEAN /\ QuietSetup \in BOOLEAN
    /\ MaxVersion \in Nat \ {0}

LogEntry == [op : {"I", "U", "D"}, version : 1..MaxVersion]

ASSUME NoneAssumption ==
    None \notin LogEntry /\ None \notin Tables /\ None \notin Functions

VARIABLES
    tables,     \* the tables that exist
    rows,       \* table -> the keys of its rows
    installed,  \* do schema boomerang and its sync_log exist?
    log,        \* table, record -> row of the sync log, or None
    functions,  \* function name -> the table its body names, or None
    triggers,   \* the tables with a trigger
    pc,         \* server -> the statement it comes to
    creates,    \* server -> has its transaction created the sync log?
    schema,     \* server -> the tables of the schema it loaded
    todo,       \* server -> the tables its loop has still to visit
    pending,    \* server -> the log rows its transaction has inserted
    read,       \* server -> the tables its backfill has read
    made,       \* server -> the tables its transaction has put a trigger on
    bodies,     \* server -> the functions its transaction has replaced
    listed,     \* server -> the functions remove_setup has found, to drop
    current,    \* server -> the one of them its script has come to, or None
    dropped     \* server -> those its transaction has dropped

database == <<tables, rows, installed, log, functions, triggers>>
setup == <<creates, schema, todo, pending, read, made, bodies>>
removal == <<listed, current, dropped>>
vars == <<database, pc, setup, removal>>

Steps == {"down", "load", "count", "backfill", "triggers", "up", "drop"}

\* The transaction of PostgresDatabase::new is open.
InSetup(s) == pc[s] \in {"load", "count", "backfill", "triggers"}

\* ... and has read the log.
UsesLog(s) == pc[s] \in {"backfill", "triggers"}

Others(s) == Servers \ {s}

Init ==
    /\ tables = Tables \ Late
    /\ rows = [t \in Tables |-> {}]
    /\ installed = FALSE
    /\ log = [p \in Tables \X Records |-> None]
    /\ functions = [f \in Functions |-> None]
    /\ triggers = {}
    /\ pc = [s \in Servers |-> "down"]
    /\ creates = [s \in Servers |-> FALSE]
    /\ schema = [s \in Servers |-> {}]
    /\ todo = [s \in Servers |-> {}]
    /\ pending = [s \in Servers |-> {}]
    /\ read = [s \in Servers |-> {}]
    /\ made = [s \in Servers |-> {}]
    /\ bodies = [s \in Servers |-> [f \in Functions |-> None]]
    /\ listed = [s \in Servers |-> {}]
    /\ current = [s \in Servers |-> None]
    /\ dropped = [s \in Servers |-> {}]

-----------------------------------------------------------------------------
(* Who waits for whom.                                                     *)

\* (mutant) The tables are visited in no particular order.
NextTableAnyOrder(s, t) == t \in todo[s]

\* The next table of the loop over schema.tables().
NextTable(s, t) == t \in todo[s] /\ \A u \in todo[s] : t <= u

\* DROP FUNCTION ... CASCADE locks the tables whose triggers it drops, against
\* any other use.
Stripped(s) == {t \in triggers : FuncOf[t] \in dropped[s]}

\* The backfill of t waits for who has dropped its trigger, and for who has
\* inserted one of its log rows.
HoldsUpBackfill(r, t) ==
    \/ t \in Stripped(r)
    \/ \E k \in rows[t] : <<t, RecordOf[k]>> \in pending[r]

\* CREATE OR REPLACE FUNCTION and TRIGGER wait for who has changed either.
HoldsUpTrigger(r, t) ==
    \/ t \in made[r] \cup Stripped(r)
    \/ bodies[r][FuncOf[t]] # None
    \/ FuncOf[t] \in dropped[r]

\* DROP FUNCTION waits for who has changed it, and for who has used a table
\* whose trigger goes with it.  One that is not there is passed over.
HoldsUpDrop(r, f) ==
    /\ functions[f] # None
    /\ \/ f \in dropped[r]
       \/ bodies[r][f] # None
       \/ \E t \in triggers : FuncOf[t] = f /\ t \in made[r] \cup read[r]

\* The others whose locks the next statement of s has to wait for.  Two cannot
\* create the log at once; DROP SCHEMA waits for the transactions that have
\* read the log.
Blockers(s) ==
    {r \in Others(s) :
        \/ pc[s] = "down" /\ creates[r]
        \/ \E t \in Tables : NextTable(s, t) /\
              \/ pc[s] = "backfill" /\ HoldsUpBackfill(r, t)
              \/ pc[s] = "triggers" /\ HoldsUpTrigger(r, t)
        \/ pc[s] = "drop" /\
              \/ current[s] # None /\ HoldsUpDrop(r, current[s])
              \/ current[s] = None /\ installed /\ UsesLog(r)}

\* All of D wait for another one of D.
Deadlocked(D) == D # {} /\ \A s \in D : Blockers(s) \cap D # {}

-----------------------------------------------------------------------------
(* PostgresDatabase::new.                                                  *)

Goto(s, step) == pc' = [pc EXCEPT ![s] = step]

\* perform_setup.
PerformSetup(s) ==
    /\ pc[s] = "down"
    /\ \A r \in Others(s) : ~ creates[r]
    /\ creates' = [creates EXCEPT ![s] = ~ installed]
    /\ Goto(s, "load")
    /\ UNCHANGED <<database, schema, todo, pending, read, made, bodies, removal>>

\* load_schema.
LoadSchema(s) ==
    /\ pc[s] = "load"
    /\ installed \/ creates[s]
    /\ schema' = [schema EXCEPT ![s] = tables]
    /\ todo' = [todo EXCEPT ![s] = tables]
    /\ Goto(s, "count")
    /\ UNCHANGED <<database, creates, pending, read, made, bodies, removal>>

LogIsEmpty == \A p \in DOMAIN log : log[p] = None

\* backfill_sync_logs: only an empty log is filled.
CountLog(s) ==
    /\ pc[s] = "count"
    /\ installed \/ creates[s]
    /\ Goto(s, IF LogIsEmpty THEN "backfill" ELSE "triggers")
    /\ UNCHANGED <<database, setup, removal>>

\* (mutant) ON CONFLICT DO UPDATE instead of DO NOTHING.
BackfillOverwrites(s, t) ==
    /\ pc[s] = "backfill"
    /\ NextTable(s, t)
    /\ t \in Keyed
    /\ \A r \in Others(s) : ~ HoldsUpBackfill(r, t)
    /\ pending' = [pending EXCEPT ![s] = @ \cup
          {<<t, RecordOf[k]>> : k \in rows[t]}]
    /\ read' = [read EXCEPT ![s] = @ \cup {t}]
    /\ todo' = [todo EXCEPT ![s] = @ \ {t}]
    /\ UNCHANGED <<database, pc, creates, schema, made, bodies, removal>>

\* (mutant) return instead of the next turn of the loop.
BackfillFirstOnly(s, t) ==
    /\ pc[s] = "backfill"
    /\ NextTable(s, t)
    /\ t \in Keyed
    /\ \A r \in Others(s) : ~ HoldsUpBackfill(r, t)
    /\ pending' = [pending EXCEPT ![s] = @ \cup
          {p \in {<<t, RecordOf[k]>> : k \in rows[t]} : log[p] = None}]
    /\ read' = [read EXCEPT ![s] = @ \cup {t}]
    /\ todo' = [todo EXCEPT ![s] = {}]
    /\ UNCHANGED <<database, pc, creates, schema, made, bodies, removal>>

\* backfill_sync_logs: INSERT ... SELECT ... ON CONFLICT DO NOTHING.
Backfill(s, t) ==
    /\ pc[s] = "backfill"
    /\ NextTable(s, t)
    /\ t \in Keyed
    /\ \A r \in Others(s) : ~ HoldsUpBackfill(r, t)
    /\ pending' = [pending EXCEPT ![s] = @ \cup
          {p \in {<<t, RecordOf[k]>> : k \in rows[t]} : log[p] = None}]
    /\ read' = [read EXCEPT ![s] = @ \cup {t}]
    /\ todo' = [todo EXCEPT ![s] = @ \ {t}]
    /\ UNCHANGED <<database, pc, creates, schema, made, bodies, removal>>

BackfillDone(s) ==
    /\ pc[s] = "backfill"
    /\ todo[s] = {}
    /\ todo' = [todo EXCEPT ![s] = schema[s]]
    /\ Goto(s, "triggers")
    /\ UNCHANGED <<database, creates, schema, pending, read, made, bodies,
                   removal>>

\* (mutant) A table without a primary key gets a trigger as well.
CreateTriggerUnkeyed(s, t) ==
    /\ pc[s] = "triggers"
    /\ NextTable(s, t)
    /\ \A r \in Others(s) : ~ HoldsUpTrigger(r, t)
    /\ made' = [made EXCEPT ![s] = @ \cup {t}]
    /\ bodies' = [bodies EXCEPT ![s][FuncOf[t]] = t]
    /\ todo' = [todo EXCEPT ![s] = @ \ {t}]
    /\ UNCHANGED <<database, pc, creates, schema, pending, read, removal>>

\* setup_triggers: CREATE OR REPLACE of the function and trigger of a table.
CreateTrigger(s, t) ==
    /\ pc[s] = "triggers"
    /\ NextTable(s, t)
    /\ t \in Keyed
    /\ \A r \in Others(s) : ~ HoldsUpTrigger(r, t)
    /\ made' = [made EXCEPT ![s] = @ \cup {t}]
    /\ bodies' = [bodies EXCEPT ![s][FuncOf[t]] = t]
    /\ todo' = [todo EXCEPT ![s] = @ \ {t}]
    /\ UNCHANGED <<database, pc, creates, schema, pending, read, removal>>

\* The transaction of s is over.
Ended(s) ==
    /\ creates' = [creates EXCEPT ![s] = FALSE]
    /\ todo' = [todo EXCEPT ![s] = {}]
    /\ pending' = [pending EXCEPT ![s] = {}]
    /\ read' = [read EXCEPT ![s] = {}]
    /\ made' = [made EXCEPT ![s] = {}]
    /\ bodies' = [bodies EXCEPT ![s] = [f \in Functions |-> None]]

Backfilled == [op |-> "I", version |-> 1]

Commit(s) ==
    /\ pc[s] = "triggers"
    /\ todo[s] = {}
    /\ installed' = (installed \/ creates[s])
    /\ log' = [p \in Tables \X Records |->
                  IF p \in pending[s] THEN Backfilled ELSE log[p]]
    /\ functions' = [f \in Functions |->
                        IF bodies[s][f] # None THEN bodies[s][f]
                                               ELSE functions[f]]
    /\ triggers' = triggers \cup made[s]
    /\ Goto(s, "up")
    /\ Ended(s)
    /\ UNCHANGED <<tables, rows, schema, removal>>

Rollback(s) ==
    /\ Goto(s, "down")
    /\ Ended(s)
    /\ schema' = [schema EXCEPT ![s] = {}]
    /\ UNCHANGED <<database, removal>>

\* "Table has no primary key", in either loop.
NoPrimaryKey(s, t) ==
    /\ UsesLog(s)
    /\ NextTable(s, t)
    /\ t \notin Keyed
    /\ Rollback(s)

\* (mutant) The setup is tried again, in the same transaction.
LogIsGoneRetries(s) ==
    /\ pc[s] \in {"load", "count"}
    /\ ~ (installed \/ creates[s])
    /\ Goto(s, "load")
    /\ UNCHANGED <<database, setup, removal>>

\* The log was dropped between two statements.
LogIsGone(s) ==
    /\ pc[s] \in {"load", "count"}
    /\ ~ (installed \/ creates[s])
    /\ Rollback(s)

\* Any other error, or a crash: the transaction is rolled back.
Fail(s) == InSetup(s) /\ Rollback(s)

-----------------------------------------------------------------------------
(* The life of a server after new(), and remove_setup.                     *)

Stop(s) ==
    /\ pc[s] = "up"
    /\ Goto(s, "down")
    /\ schema' = [schema EXCEPT ![s] = {}]
    /\ UNCHANGED <<database, creates, todo, pending, read, made, bodies, removal>>

\* The functions of S come in the order of pg_proc, which is any.
ComeTo(s, S) ==
    /\ listed' = [listed EXCEPT ![s] = S]
    /\ \/ S = {} /\ current' = [current EXCEPT ![s] = None]
       \/ \E f \in S : current' = [current EXCEPT ![s] = f]

\* remove_setup: find the trigger functions.
ListFunctions(s) ==
    /\ pc[s] = "up"
    /\ ComeTo(s, {f \in Functions : functions[f] # None})
    /\ Goto(s, "drop")
    /\ UNCHANGED <<database, setup, dropped>>

\* remove_setup: DROP FUNCTION IF EXISTS ... CASCADE, with its triggers.
DropFunction(s) ==
    /\ pc[s] = "drop"
    /\ current[s] # None
    /\ \A r \in Others(s) : ~ HoldsUpDrop(r, current[s])
    /\ dropped' = [dropped EXCEPT ![s] =
          @ \cup {f \in {current[s]} : functions[f] # None}]
    /\ ComeTo(s, listed[s] \ {current[s]})
    /\ UNCHANGED <<database, pc, setup>>

\* remove_setup: DROP SCHEMA IF EXISTS ... CASCADE, and the commit.
DropSetup(s) ==
    /\ pc[s] = "drop"
    /\ current[s] = None
    /\ installed => \A r \in Others(s) : ~ UsesLog(r)
    /\ functions' = [f \in Functions |->
                        IF f \in dropped[s] THEN None ELSE functions[f]]
    /\ triggers' = triggers \ Stripped(s)
    /\ installed' = FALSE
    /\ log' = [p \in Tables \X Records |-> None]
    /\ dropped' = [dropped EXCEPT ![s] = {}]
    /\ Goto(s, "up")
    /\ UNCHANGED <<tables, rows, setup, listed, current>>

\* Any error: the transaction is rolled back.
DropFailed(s) ==
    /\ pc[s] = "drop"
    /\ listed' = [listed EXCEPT ![s] = {}]
    /\ current' = [current EXCEPT ![s] = None]
    /\ dropped' = [dropped EXCEPT ![s] = {}]
    /\ Goto(s, "up")
    /\ UNCHANGED <<database, setup>>

\* Postgres ends one of the transactions that wait for each other.
BreakDeadlock(D) == Deadlocked(D) /\ \E s \in D : Fail(s) \/ DropFailed(s)

-----------------------------------------------------------------------------
(* The clients of the database, and its trigger.                           *)

\* The log row that a change of t's row with key k goes to.
LogKey(t, k) == <<functions[FuncOf[t]], RecordOf[k]>>

\* CREATE TRIGGER waits for writers and keeps them out; so do the DROP of a
\* trigger and an uncommitted log row.  A trigger without a log is an error.
Writable(t, k) ==
    /\ t \in tables
    /\ \A s \in Servers : t \notin made[s] \cup Stripped(s)
    /\ t \in triggers =>
          /\ installed
          /\ \A s \in Servers : LogKey(t, k) \notin pending[s]
          /\ log[LogKey(t, k)] # None => log[LogKey(t, k)].version < MaxVersion
    /\ QuietSetup /\ t \notin triggers => \A s \in Servers : ~ InSetup(s)

\* The trigger function: INSERT ... ON CONFLICT DO UPDATE.
Touched(old, op) ==
    [op |-> op, version |-> IF old = None THEN 1 ELSE old.version + 1]

\* (mutant) AFTER INSERT OR DELETE.
TouchNotUpdated(t, k, op) ==
    log' = IF t \in triggers /\ op # "U"
           THEN [log EXCEPT ![LogKey(t, k)] = Touched(@, op)]
           ELSE log

\* The trigger, if the table has one.
Touch(t, k, op) ==
    log' = IF t \in triggers THEN [log EXCEPT ![LogKey(t, k)] = Touched(@, op)]
                             ELSE log

ClientInsert(t, k) ==
    /\ Writable(t, k)
    /\ k \notin rows[t]
    /\ rows' = [rows EXCEPT ![t] = @ \cup {k}]
    /\ Touch(t, k, "I")
    /\ UNCHANGED <<tables, installed, functions, triggers, pc, setup, removal>>

\* An update of other columns than the key.
ClientUpdate(t, k) ==
    /\ Writable(t, k)
    /\ k \in rows[t]
    /\ Touch(t, k, "U")
    /\ UNCHANGED <<tables, rows, installed, functions, triggers, pc, setup,
                   removal>>

\* An update of the key: the trigger records NEW only.
ClientUpdateKey(t, k, j) ==
    /\ KeyUpdates
    /\ Writable(t, j)
    /\ k \in rows[t]
    /\ j \notin rows[t]
    /\ rows' = [rows EXCEPT ![t] = (@ \ {k}) \cup {j}]
    /\ Touch(t, j, "U")
    /\ UNCHANGED <<tables, installed, functions, triggers, pc, setup, removal>>

ClientDelete(t, k) ==
    /\ Writable(t, k)
    /\ k \in rows[t]
    /\ rows' = [rows EXCEPT ![t] = @ \ {k}]
    /\ Touch(t, k, "D")
    /\ UNCHANGED <<tables, installed, functions, triggers, pc, setup, removal>>

CreateTable(t) ==
    /\ t \notin tables
    /\ tables' = tables \cup {t}
    /\ UNCHANGED <<rows, installed, log, functions, triggers, pc, setup, removal>>

-----------------------------------------------------------------------------
\* What a server does by itself once new() or remove_setup() is called.
Step(s) ==
    \/ LoadSchema(s)
    \/ CountLog(s)
    \/ \E t \in Tables : Backfill(s, t)
    \/ BackfillDone(s)
    \/ \E t \in Tables : CreateTrigger(s, t)
    \/ Commit(s)
    \/ \E t \in Tables : NoPrimaryKey(s, t)
    \/ LogIsGone(s)
    \/ DropFunction(s)
    \/ DropSetup(s)

\* The steps of a server that leave the database as it is.
InTransaction(s) ==
    \/ PerformSetup(s)
    \/ LoadSchema(s)
    \/ CountLog(s)
    \/ \E t \in Tables : Backfill(s, t)
    \/ BackfillDone(s)
    \/ \E t \in Tables : CreateTrigger(s, t)
    \/ \E t \in Tables : NoPrimaryKey(s, t)
    \/ LogIsGone(s)
    \/ Fail(s)
    \/ Stop(s)
    \/ ListFunctions(s)
    \/ DropFunction(s)
    \/ DropFailed(s)

ClientStep(t, k) == ClientInsert(t, k) \/ ClientUpdate(t, k) \/ ClientDelete(t, k)

Next ==
    \/ \E s \in Servers : InTransaction(s) \/ Commit(s) \/ DropSetup(s)
    \/ \E t \in Tables, k \in Keys : ClientStep(t, k)
    \/ \E t \in Tables, k, j \in Keys : ClientUpdateKey(t, k, j)
    \/ \E t \in Tables : CreateTable(t)

Spec == Init /\ [][Next]_vars

\* A statement that can run is run, Postgres grants locks in turn, and it sees
\* to it that no deadlock lasts.
Fairness ==
    /\ \A s \in Servers : SF_vars(Step(s))
    /\ \A D \in SUBSET Servers : WF_vars(BreakDeadlock(D))

FairSpec == Spec /\ Fairness

-----------------------------------------------------------------------------
(* Properties.                                                             *)

TypeOK ==
    /\ tables \subseteq Tables
    /\ rows \in [Tables -> SUBSET Keys]
    /\ installed \in BOOLEAN
    /\ log \in [Tables \X Records -> LogEntry \cup {None}]
    /\ functions \in [Functions -> Tables \cup {None}]
    /\ triggers \subseteq tables
    /\ pc \in [Servers -> Steps]
    /\ creates \in [Servers -> BOOLEAN]
    /\ schema \in [Servers -> SUBSET tables]
    /\ todo \in [Servers -> SUBSET tables]
    /\ pending \in [Servers -> SUBSET (Tables \X Records)]
    /\ made \in [Servers -> SUBSET (tables \cap Keyed)]
    /\ bodies \in [Servers -> [Functions -> Tables \cup {None}]]
    /\ read \in [Servers -> SUBSET tables]
    /\ listed \in [Servers -> SUBSET Functions]
    /\ current \in [Servers -> Functions \cup {None}]
    /\ dropped \in [Servers -> SUBSET Functions]

\* The last change of a record, as its log row has it, did not delete it.
Alive(e) == e # None /\ e.op # "D"

\* Every change of a record is recorded: once its table has a trigger, the
\* log row of a record tells whether the record exists.
LogIsCurrent ==
    installed =>
        \A t \in triggers, r \in Records :
            (\E k \in rows[t] : RecordOf[k] = r) <=> Alive(log[<<t, r>>])

\* The version of a log row never goes back, and the row never disappears,
\* as long as the log is there: a late backfill does not overwrite what the
\* trigger has recorded.
VersionsNeverGoBack ==
    [][installed /\ installed' =>
          \A p \in DOMAIN log : log[p] # None =>
              log'[p] # None /\ log'[p].version >= log[p].version]_vars

\* The log of Postgres is a sync log: whatever setups, backfills, clients and
\* removals do to it, and in whatever order, a row enters at version 1 and its
\* version moves by one, until the log goes as a whole.  Of changes that never
\* reach the log this says nothing.
Log == INSTANCE SyncLog WITH Records <- Tables \X Records, Removable <- TRUE

ImplementsSyncLog == Log!Spec

\* new() and remove_setup() return, if only with the error that breaks a
\* deadlock: no server waits for ever.
SetupReturns ==
    \A s \in Servers :
        InSetup(s) \/ pc[s] = "drop" ~> pc[s] \in {"up", "down"}

\* Calls of new() alone never wait for each other in a circle: they lock the
\* tables one by one and keep the locks, but all in the same order.  With a
\* remove_setup(), which locks the tables before the log that new() has read
\* before the tables, they may.
SetupsDoNotDeadlock ==
    \A D \in SUBSET Servers :
        Deadlocked(D) => \E s \in D : pc[s] = "drop"

\* Names are <<qualifier, table>>.  The log holds "public.<table>", the
\* interner the bare names of the schema's tables.
LoggedName(t) == <<"public.", t>>

InternedNames(s) == {<<"", t>> : t \in schema[s]}

\* TableCache::symbol_for: "the log references a table unknown to the schema,
\* which the guarantee forbids".
LoggedTablesAreKnown ==
    \A s \in Servers : pc[s] = "up" =>
        \A p \in DOMAIN log : log[p] # None /\ p[1] \in schema[s] =>
            LoggedName(p[1]) \in InternedNames(s)
=============================================================================
