------------------------ MODULE PostgresSync_proofs ------------------------
(***************************************************************************)
(* Proofs about change capture in Postgres, modules PostgresSync and       *)
(* PostgresCapture, for any number of servers, tables and keys.            *)
(*                                                                         *)
(* Type correctness, VersionsNeverGoBack and the refinement of SyncLog     *)
(* hold for all parameters.                                                *)
(* LogIsCurrent and the refinement of CapturedLog, which ties the log to   *)
(* the rows, hold when the clients leave tables alone that are being set   *)
(* up, tables are there from the start, keys are never changed, and both   *)
(* records and trigger functions have names of their own: CleanUse.  Each  *)
(* of these conditions is needed, as section 4 of the README shows.        *)
(* SetupsDoNotDeadlock needs only the last of them.                        *)
(***************************************************************************)
EXTENDS PostgresCapture, FiniteSetTheorems, WellFoundedInduction, TLAPS

OwnFunctions == \A t, u \in Tables : FuncOf[t] = FuncOf[u] => t = u

\* The conditions under which the log is current.
CleanUse ==
    /\ QuietSetup
    /\ ~ KeyUpdates
    /\ Late = {}
    /\ \A j, k \in Keys : RecordOf[j] = RecordOf[k] => j = k
    /\ OwnFunctions

-----------------------------------------------------------------------------
(* The inductive invariants.                                               *)

\* A row that a backfill has inserted and not committed is in nobody's way.
PendingIsNew ==
    \A s \in Servers :
        /\ \A p \in pending[s] : log[p] = None
        /\ \A r \in Others(s) : pending[r] \cap pending[s] = {}

\* The tables whose rows the transaction of s has put into the log.
Done(s) ==
    IF pc[s] = "backfill" THEN Tables \ todo[s]
    ELSE IF pc[s] = "triggers" THEN Tables ELSE {}

HasRow(t, r) == \E k \in rows[t] : RecordOf[k] = r

\* Only a transaction that creates the log fills it, with what is there.
PendingIsRight ==
    \A s \in Servers :
        /\ ~ creates[s] => pending[s] = {}
        /\ creates[s] =>
              \A t \in Tables, r \in Records :
                  <<t, r>> \in pending[s] <=> t \in Done(s) /\ HasRow(t, r)

\* While the log does not exist, at most one transaction creates it.
OneCreator ==
    \A s \in Servers : creates[s] =>
        /\ ~ installed
        /\ InSetup(s)
        /\ \A r \in Others(s) : ~ creates[r]

\* A transaction that has read the log reads one that stays.
LogUsers == \A s \in Servers : UsesLog(s) => installed \/ creates[s]

NoLogWithoutSetup == ~ installed => LogIsEmpty

\* All tables are set up together, each with its own function.
AllHaveTriggers == installed => triggers = Tables

TriggersAreOwn ==
    /\ \A t \in triggers : functions[FuncOf[t]] = t
    /\ \A s \in Servers : \A t \in Tables :
          IF t \in made[s] THEN bodies[s][FuncOf[t]] = t
                           ELSE bodies[s][FuncOf[t]] = None

SchemaIsWhole ==
    /\ tables = Tables
    /\ \A s \in Servers :
          /\ pc[s] \in {"count", "backfill", "triggers"} => schema[s] = Tables
          /\ pc[s] = "count" => todo[s] = Tables
          /\ made[s] = IF pc[s] = "triggers" THEN Tables \ todo[s] ELSE {}

IInv ==
    /\ TypeOK
    /\ PendingIsRight
    /\ OneCreator
    /\ LogUsers
    /\ NoLogWithoutSetup
    /\ AllHaveTriggers
    /\ TriggersAreOwn
    /\ SchemaIsWhole
    /\ LogIsCurrent

-----------------------------------------------------------------------------
(* Type correctness.                                                       *)

LEMMA NamesAreTyped ==
    /\ \A k \in Keys : RecordOf[k] \in Records
    /\ \A t \in Tables : FuncOf[t] \in Functions
BY DEF Records, Functions

\* Where a log row may go after a change: the trigger keeps the type.
LEMMA TouchType ==
    ASSUME TypeOK, NEW t \in Tables, NEW k \in Keys, NEW op \in {"I", "U", "D"},
           Writable(t, k), Touch(t, k, op)
    PROVE  log' \in [Tables \X Records -> LogEntry \cup {None}]
<1>1. CASE t \notin triggers
  BY <1>1 DEF TypeOK, Touch
<1>2. CASE t \in triggers /\ LogKey(t, k) \notin Tables \X Records
  BY <1>2 DEF TypeOK, Touch
<1>3. CASE t \in triggers /\ LogKey(t, k) \in Tables \X Records
  <2> DEFINE x == LogKey(t, k)
  <2>1. log' = [log EXCEPT ![x] = Touched(log[x], op)]
    BY <1>3 DEF Touch, TypeOK
  <2>2. log[x] \in LogEntry \cup {None}
    BY <1>3 DEF TypeOK
  <2>3. Touched(log[x], op) \in LogEntry
    BY <1>3, <2>2, FlagsAssumption DEF Touched, LogEntry, Writable
  <2> HIDE DEF x
  <2>4. log \in [Tables \X Records -> LogEntry \cup {None}]
    BY DEF TypeOK
  <2> QED BY <2>1, <2>3, <2>4
<1> QED BY <1>1, <1>2, <1>3

\* The end of a transaction keeps the types of its variables.
LEMMA EndedType ==
    ASSUME TypeOK, NEW s \in Servers, Ended(s)
    PROVE  /\ creates' \in [Servers -> BOOLEAN]
           /\ todo' \in [Servers -> SUBSET tables]
           /\ pending' \in [Servers -> SUBSET (Tables \X Records)]
           /\ read' \in [Servers -> SUBSET tables]
           /\ made' \in [Servers -> SUBSET (tables \cap Keyed)]
           /\ bodies' \in [Servers -> [Functions -> Tables \cup {None}]]
BY DEF TypeOK, Ended

LEMMA RollbackType ==
    ASSUME TypeOK, NEW s \in Servers, Rollback(s)
    PROVE  TypeOK'
<1>1. pc' \in [Servers -> Steps]
  BY DEF TypeOK, Rollback, Goto, Steps
<1>2. schema' \in [Servers -> SUBSET tables]
  BY DEF TypeOK, Rollback
<1>3. Ended(s) /\ UNCHANGED <<database, listed, current, dropped>>
  BY DEF Rollback, removal
<1> QED BY <1>1, <1>2, <1>3, EndedType DEF TypeOK, database

LEMMA TypeStep ==
    ASSUME TypeOK, [Next]_vars
    PROVE  TypeOK'
<1> USE TablesAssumption DEF Goto, Steps, database, setup, removal
<1>1. ASSUME NEW s \in Servers, PerformSetup(s)
      PROVE  TypeOK'
  BY <1>1 DEF TypeOK, PerformSetup
<1>2. ASSUME NEW s \in Servers, LoadSchema(s)
      PROVE  TypeOK'
  BY <1>2 DEF TypeOK, LoadSchema
<1>3. ASSUME NEW s \in Servers, CountLog(s)
      PROVE  TypeOK'
  BY <1>3 DEF TypeOK, CountLog
<1>4. ASSUME NEW s \in Servers, BackfillDone(s)
      PROVE  TypeOK'
  BY <1>4 DEF TypeOK, BackfillDone
<1>5. ASSUME NEW s \in Servers, Commit(s)
      PROVE  TypeOK'
  <2>1. log' \in [Tables \X Records -> LogEntry \cup {None}]
    BY <1>5, FlagsAssumption DEF TypeOK, Commit, Backfilled, LogEntry
  <2>2. functions' \in [Functions -> Tables \cup {None}]
    <3>1. bodies[s] \in [Functions -> Tables \cup {None}]
      BY DEF TypeOK
    <3>2. functions \in [Functions -> Tables \cup {None}]
      BY DEF TypeOK
    <3>3. functions' = [f \in Functions |->
             IF bodies[s][f] # None THEN bodies[s][f] ELSE functions[f]]
      BY <1>5 DEF Commit
    <3> QED BY <3>1, <3>2, <3>3
  <2>3. /\ installed' \in BOOLEAN
        /\ triggers' \subseteq tables
        /\ pc' \in [Servers -> Steps]
    BY <1>5 DEF TypeOK, Commit
  <2>4. Ended(s) /\ UNCHANGED <<tables, rows, schema, listed, current, dropped>>
    BY <1>5 DEF Commit
  <2> QED BY <2>1, <2>2, <2>3, <2>4, EndedType DEF TypeOK
<1>6. ASSUME NEW s \in Servers, LogIsGone(s)
      PROVE  TypeOK'
  BY <1>6, RollbackType DEF LogIsGone
<1>7. ASSUME NEW s \in Servers, Fail(s)
      PROVE  TypeOK'
  BY <1>7, RollbackType DEF Fail
<1>8. ASSUME NEW s \in Servers, Stop(s)
      PROVE  TypeOK'
  BY <1>8 DEF TypeOK, Stop
<1>9. ASSUME NEW s \in Servers, ListFunctions(s)
      PROVE  TypeOK'
  <2>1. listed' \in [Servers -> SUBSET Functions]
    BY <1>9 DEF TypeOK, ListFunctions, ComeTo
  <2>2. current' \in [Servers -> Functions \cup {None}]
    BY <1>9 DEF TypeOK, ListFunctions, ComeTo
  <2> QED BY <1>9, <2>1, <2>2 DEF TypeOK, ListFunctions
<1>10. ASSUME NEW s \in Servers, DropSetup(s)
       PROVE  TypeOK'
  BY <1>10 DEF TypeOK, DropSetup
<1>11. ASSUME NEW s \in Servers, DropFailed(s)
       PROVE  TypeOK'
  BY <1>11 DEF TypeOK, DropFailed
<1>12. ASSUME NEW s \in Servers, NEW t \in Tables, Backfill(s, t)
       PROVE  TypeOK'
  <2>1. {p \in {<<t, RecordOf[k]>> : k \in rows[t]} : log[p] = None}
           \subseteq Tables \X Records
    <3>1. \A k \in rows[t] : RecordOf[k] \in Records
      BY NamesAreTyped DEF TypeOK
    <3> QED BY <3>1
  <2>2. pending' \in [Servers -> SUBSET (Tables \X Records)]
    BY <1>12, <2>1 DEF TypeOK, Backfill
  <2> QED BY <1>12, <2>2 DEF TypeOK, Backfill, NextTable
<1>13. ASSUME NEW s \in Servers, NEW t \in Tables, CreateTrigger(s, t)
       PROVE  TypeOK'
  <2>1. bodies' \in [Servers -> [Functions -> Tables \cup {None}]]
    BY <1>13, NamesAreTyped DEF TypeOK, CreateTrigger
  <2> QED BY <1>13, <2>1 DEF TypeOK, CreateTrigger, NextTable
<1>14. ASSUME NEW s \in Servers, NEW t \in Tables, NoPrimaryKey(s, t)
       PROVE  TypeOK'
  BY <1>14, RollbackType DEF NoPrimaryKey
<1>15. ASSUME NEW t \in Tables, NEW k \in Keys, ClientInsert(t, k)
       PROVE  TypeOK'
  BY <1>15, TouchType DEF TypeOK, ClientInsert
<1>16. ASSUME NEW t \in Tables, NEW k \in Keys, ClientUpdate(t, k)
       PROVE  TypeOK'
  BY <1>16, TouchType DEF TypeOK, ClientUpdate
<1>17. ASSUME NEW t \in Tables, NEW k \in Keys, ClientDelete(t, k)
       PROVE  TypeOK'
  BY <1>17, TouchType DEF TypeOK, ClientDelete
<1>18. ASSUME NEW t \in Tables, NEW k \in Keys, NEW j \in Keys,
              ClientUpdateKey(t, k, j)
       PROVE  TypeOK'
  BY <1>18, TouchType DEF TypeOK, ClientUpdateKey
<1>19. ASSUME NEW t \in Tables, CreateTable(t)
       PROVE  TypeOK'
  BY <1>19 DEF TypeOK, CreateTable
<1>20. ASSUME NEW s \in Servers, DropFunction(s)
       PROVE  TypeOK'
  <2>1. listed' \in [Servers -> SUBSET Functions]
    BY <1>20 DEF TypeOK, DropFunction, ComeTo
  <2>2. current' \in [Servers -> Functions \cup {None}]
    BY <1>20 DEF TypeOK, DropFunction, ComeTo
  <2>3. dropped' \in [Servers -> SUBSET Functions]
    BY <1>20 DEF TypeOK, DropFunction
  <2> QED BY <1>20, <2>1, <2>2, <2>3 DEF TypeOK, DropFunction
<1>21. CASE UNCHANGED vars
  BY <1>21 DEF TypeOK, vars
<1> QED
  BY <1>1, <1>2, <1>3, <1>4, <1>5, <1>6, <1>7, <1>8, <1>9, <1>10, <1>11, <1>12,
     <1>13, <1>14, <1>15, <1>16, <1>17, <1>18, <1>19, <1>20, <1>21
     DEF Next, InTransaction, ClientStep

LEMMA TypeInit == Init => TypeOK
<1> SUFFICES ASSUME Init
             PROVE  TypeOK
  OBVIOUS
<1>1. /\ log \in [Tables \X Records -> LogEntry \cup {None}]
      /\ functions \in [Functions -> Tables \cup {None}]
  BY DEF Init
<1>2. bodies \in [Servers -> [Functions -> Tables \cup {None}]]
  BY DEF Init
<1>3. /\ tables \subseteq Tables
      /\ rows \in [Tables -> SUBSET Keys]
      /\ installed \in BOOLEAN
      /\ triggers \subseteq tables
      /\ listed \in [Servers -> SUBSET Functions]
      /\ current \in [Servers -> Functions \cup {None}]
      /\ dropped \in [Servers -> SUBSET Functions]
      /\ read \in [Servers -> SUBSET tables]
  BY DEF Init
<1>4. /\ pc \in [Servers -> Steps]
      /\ creates \in [Servers -> BOOLEAN]
      /\ schema \in [Servers -> SUBSET tables]
      /\ todo \in [Servers -> SUBSET tables]
      /\ pending \in [Servers -> SUBSET (Tables \X Records)]
      /\ made \in [Servers -> SUBSET (tables \cap Keyed)]
  BY DEF Init, Steps
<1> QED BY <1>1, <1>2, <1>3, <1>4 DEF TypeOK

\* The variables keep their types, whatever the parameters; in particular a
\* version stays within its bound and a server only sets up tables that exist.
THEOREM TypeCorrect == Spec => []TypeOK
BY TypeInit, TypeStep, PTL DEF Spec

-----------------------------------------------------------------------------
(* Versions.                                                               *)

\* What a step may do to the log rows of a log that stays.
Kept == \A p \in DOMAIN log : log[p] # None =>
            log'[p] # None /\ log'[p].version >= log[p].version

\* A change of a client raises the version of the row it touches, a row that
\* no backfill has in hand.
LEMMA TouchKeeps ==
    ASSUME TypeOK, PendingIsNew,
           NEW t \in Tables, NEW k \in Keys, NEW op \in {"I", "U", "D"},
           Writable(t, k), Touch(t, k, op), pending' = pending
    PROVE  Kept /\ PendingIsNew'
<1>1. CASE log' = log
  <2>1. Kept
    BY <1>1 DEF Kept, TypeOK, LogEntry
  <2> QED BY <1>1, <2>1 DEF PendingIsNew
<1>2. CASE log' # log
  <2> DEFINE x == LogKey(t, k)
  <2>1. /\ t \in triggers
        /\ log' = [log EXCEPT ![x] = Touched(log[x], op)]
    BY <1>2 DEF Touch
  <2>2. x \in DOMAIN log
    BY <1>2, <2>1 DEF TypeOK
  <2>3. \A s \in Servers : x \notin pending[s]
    BY <2>1 DEF Writable
  <2>4. log[x] \in LogEntry \cup {None}
    BY <2>2 DEF TypeOK
  <2>5. /\ Touched(log[x], op) # None
        /\ log[x] # None => Touched(log[x], op).version >= log[x].version
    <3>1. Touched(log[x], op) \in LogEntry
      BY <2>1, <2>4, FlagsAssumption DEF Touched, LogEntry, Writable
    <3> QED BY <2>4, <3>1, NoneAssumption DEF Touched, LogEntry
  <2> HIDE DEF x
  <2>6. Kept
    <3> SUFFICES ASSUME NEW p \in DOMAIN log, log[p] # None
                 PROVE  log'[p] # None /\ log'[p].version >= log[p].version
      BY DEF Kept
    <3>1. CASE p = x
      BY <2>1, <2>2, <2>5, <3>1
    <3>2. CASE p # x
      BY <2>1, <3>2 DEF TypeOK, LogEntry
    <3> QED BY <3>1, <3>2
  <2>7. PendingIsNew'
    BY <2>1, <2>3 DEF PendingIsNew, Others, TypeOK
  <2> QED BY <2>6, <2>7
<1> QED BY <1>1, <1>2

\* Steps that leave the log alone and at most empty a transaction.
LEMMA QuietKeeps ==
    ASSUME TypeOK, PendingIsNew, log' = log,
           \A s \in Servers : pending'[s] \in {pending[s], {}}
    PROVE  Kept /\ PendingIsNew'
<1>1. Kept
  BY DEF Kept, TypeOK, LogEntry
<1>2. PendingIsNew'
  BY DEF PendingIsNew, Others
<1> QED BY <1>1, <1>2

LEMMA VersionsStep ==
    ASSUME TypeOK, PendingIsNew, [Next]_vars
    PROVE  PendingIsNew' /\ (installed /\ installed' => Kept)
<1> USE DEF database, setup
<1>1. ASSUME NEW s \in Servers,
             PerformSetup(s) \/ LoadSchema(s) \/ CountLog(s) \/ BackfillDone(s)
             \/ Stop(s) \/ ListFunctions(s) \/ DropFunction(s) \/ DropFailed(s)
      PROVE  Kept /\ PendingIsNew'
  BY <1>1, QuietKeeps DEF PerformSetup, LoadSchema, CountLog, BackfillDone, Stop,
                          ListFunctions, DropFunction, DropFailed
<1>2. ASSUME NEW s \in Servers,
             LogIsGone(s) \/ Fail(s) \/ \E t \in Tables : NoPrimaryKey(s, t)
      PROVE  Kept /\ PendingIsNew'
  <2>1. Rollback(s)
    BY <1>2 DEF LogIsGone, Fail, NoPrimaryKey
  <2> QED BY <2>1, QuietKeeps DEF Rollback, Ended, TypeOK
<1>3. ASSUME NEW s \in Servers, NEW t \in Tables, CreateTrigger(s, t)
      PROVE  Kept /\ PendingIsNew'
  BY <1>3, QuietKeeps DEF CreateTrigger
<1>4. ASSUME NEW s \in Servers, NEW t \in Tables, Backfill(s, t)
      PROVE  Kept /\ PendingIsNew'
  <2>1. log' = log
    BY <1>4 DEF Backfill
  <2> DEFINE new == {p \in {<<t, RecordOf[k]>> : k \in rows[t]} : log[p] = None}
  <2>2. pending' = [pending EXCEPT ![s] = pending[s] \cup new]
    BY <1>4 DEF Backfill, TypeOK
  <2>3. \A r \in Others(s) : pending[r] \cap new = {}
    BY <1>4 DEF Backfill, HoldsUpBackfill
  <2>4. \A p \in new : log[p] = None
    OBVIOUS
  <2> HIDE DEF new
  <2>5. PendingIsNew'
    <3> SUFFICES ASSUME NEW r \in Servers
                 PROVE  /\ \A p \in pending'[r] : log[p] = None
                        /\ \A q \in Others(r) : pending'[q] \cap pending'[r] = {}
      BY <2>1 DEF PendingIsNew, Others
    <3>1. /\ \A p \in pending[r] : log[p] = None
          /\ \A q \in Others(r) : pending[q] \cap pending[r] = {}
      BY DEF PendingIsNew
    <3>2. pending'[r] = IF r = s THEN pending[s] \cup new ELSE pending[r]
      BY <2>2 DEF TypeOK
    <3>3. \A q \in Others(r) :
             pending'[q] = IF q = s THEN pending[s] \cup new ELSE pending[q]
      BY <2>2 DEF TypeOK, Others
    <3> QED BY <2>3, <2>4, <3>1, <3>2, <3>3 DEF Others
  <2> QED BY <2>1, <2>5 DEF Kept, TypeOK, LogEntry
<1>5. ASSUME NEW s \in Servers, Commit(s)
      PROVE  Kept /\ PendingIsNew'
  <2>1. /\ log' = [p \in Tables \X Records |->
                      IF p \in pending[s] THEN Backfilled ELSE log[p]]
        /\ pending' = [pending EXCEPT ![s] = {}]
    BY <1>5 DEF Commit, Ended
  <2>2. \A p \in pending[s] : log[p] = None
    BY DEF PendingIsNew
  <2>3. Kept
    BY <2>1, <2>2 DEF Kept, TypeOK, LogEntry
  <2>4. PendingIsNew'
    <3> SUFFICES ASSUME NEW r \in Servers
                 PROVE  /\ \A p \in pending'[r] : log'[p] = None
                        /\ \A q \in Others(r) : pending'[q] \cap pending'[r] = {}
      BY DEF PendingIsNew, Others
    <3>1. CASE r = s
      BY <2>1, <3>1 DEF TypeOK
    <3>2. CASE r # s
      BY <2>1, <3>2 DEF TypeOK, PendingIsNew, Others
    <3> QED BY <3>1, <3>2
  <2> QED BY <2>3, <2>4
<1>6. ASSUME NEW s \in Servers, DropSetup(s)
      PROVE  PendingIsNew' /\ ~ installed'
  BY <1>6 DEF DropSetup, PendingIsNew, TypeOK, Others
<1>7. ASSUME NEW t \in Tables, NEW k \in Keys,
             ClientInsert(t, k) \/ ClientUpdate(t, k) \/ ClientDelete(t, k)
      PROVE  Kept /\ PendingIsNew'
  BY <1>7, TouchKeeps DEF ClientInsert, ClientUpdate, ClientDelete
<1>8. ASSUME NEW t \in Tables, NEW k \in Keys, NEW j \in Keys,
             ClientUpdateKey(t, k, j)
      PROVE  Kept /\ PendingIsNew'
  BY <1>8, TouchKeeps DEF ClientUpdateKey
<1>9. ASSUME NEW t \in Tables, CreateTable(t)
      PROVE  Kept /\ PendingIsNew'
  BY <1>9, QuietKeeps DEF CreateTable
<1>10. CASE UNCHANGED vars
  BY <1>10, QuietKeeps DEF vars
<1> QED
  BY <1>1, <1>2, <1>3, <1>4, <1>5, <1>6, <1>7, <1>8, <1>9, <1>10
  DEF Next, InTransaction, ClientStep

\* A backfill that another server starts late, or a crash in the middle of
\* one, never overwrites or loses a version the triggers have recorded.
THEOREM VersionsAreKept == Spec => VersionsNeverGoBack
<1>1. Init => PendingIsNew
  BY DEF Init, PendingIsNew, Others
<1>2. TypeOK /\ PendingIsNew /\ [Next]_vars => PendingIsNew'
  BY VersionsStep
<1>3. TypeOK /\ PendingIsNew /\ [Next]_vars =>
        [installed /\ installed' =>
            \A p \in DOMAIN log : log[p] # None =>
                log'[p] # None /\ log'[p].version >= log[p].version]_vars
  BY VersionsStep DEF Kept
<1> QED
  BY <1>1, <1>2, <1>3, TypeCorrect, PTL DEF Spec, VersionsNeverGoBack

-----------------------------------------------------------------------------
(* PostgresSync implements SyncLog.                                        *)

\* A trigger changes one record of the log, or none when its function is gone.
LEMMA TouchIsChange ==
    ASSUME TypeOK, NEW t \in Tables, NEW k \in Keys,
           NEW op \in {"I", "U", "D"}, Touch(t, k, op)
    PROVE  [Log!Next]_log
<1>1. CASE log' = log
  BY <1>1
<1>2. CASE log' # log
  <2> DEFINE x == LogKey(t, k)
  <2>1. log' = [log EXCEPT ![x] = Touched(log[x], op)]
    BY <1>2 DEF Touch
  <2>2. x \in Tables \X Records
    BY <1>2, <2>1 DEF TypeOK
  <2>3. Touched(log[x], op) = Log!After(log[x], op)
    BY DEF Touched, Log!After
  <2> HIDE DEF x
  <2>4. Log!Change(x, op)
    BY <2>1, <2>3 DEF Log!Change
  <2> QED BY <2>2, <2>4 DEF Log!Next
<1> QED BY <1>1, <1>2

\* A commit adds rows for records that had none.
LEMMA CommitIsBackfill ==
    ASSUME TypeOK, PendingIsNew, NEW s \in Servers, Commit(s)
    PROVE  Log!Next
<1>1. log' = [p \in Tables \X Records |->
                 IF p \in pending[s] THEN Backfilled ELSE log[p]]
  BY DEF Commit
<1>2. \A p \in pending[s] : log[p] = None
  BY DEF PendingIsNew
<1>3. Backfilled = Log!After(None, "I")
  BY DEF Backfilled, Log!After
<1>4. Log!Backfill
  BY <1>1, <1>2, <1>3 DEF Log!Backfill
<1> QED BY <1>1, <1>4 DEF Log!Next

\* Every step is a step of the abstract log or leaves it alone.
LEMMA RefinementStep ==
    ASSUME TypeOK, PendingIsNew, [Next]_vars
    PROVE  [Log!Next]_log
<1>1. ASSUME NEW s \in Servers, Commit(s)
      PROVE  [Log!Next]_log
  BY <1>1, CommitIsBackfill
<1>2. ASSUME NEW s \in Servers, DropSetup(s)
      PROVE  [Log!Next]_log
  BY <1>2 DEF DropSetup, Log!Next, Log!Remove, Log!Empty
<1>3. ASSUME NEW t \in Tables, NEW k \in Keys,
             ClientInsert(t, k) \/ ClientUpdate(t, k) \/ ClientDelete(t, k)
      PROVE  [Log!Next]_log
  BY <1>3, TouchIsChange DEF ClientInsert, ClientUpdate, ClientDelete
<1>4. ASSUME NEW t \in Tables, NEW k \in Keys, NEW j \in Keys,
             ClientUpdateKey(t, k, j)
      PROVE  [Log!Next]_log
  BY <1>4, TouchIsChange DEF ClientUpdateKey
<1>5. ASSUME NEW s \in Servers,
             \/ PerformSetup(s) \/ LoadSchema(s) \/ CountLog(s)
             \/ BackfillDone(s) \/ LogIsGone(s) \/ Fail(s) \/ Stop(s)
             \/ ListFunctions(s) \/ DropFunction(s) \/ DropFailed(s)
             \/ \E t \in Tables : \/ Backfill(s, t) \/ CreateTrigger(s, t)
                                  \/ NoPrimaryKey(s, t)
      PROVE  log' = log
  BY <1>5 DEF PerformSetup, LoadSchema, CountLog, BackfillDone, LogIsGone, Fail,
              Rollback, Stop, ListFunctions, DropFunction, DropFailed, Backfill,
              CreateTrigger, NoPrimaryKey, database
<1>6. ASSUME NEW t \in Tables, CreateTable(t)
      PROVE  log' = log
  BY <1>6 DEF CreateTable
<1>7. CASE UNCHANGED vars
  BY <1>7 DEF vars, database
<1> QED
  BY <1>1, <1>2, <1>3, <1>4, <1>5, <1>6, <1>7
  DEF Next, InTransaction, ClientStep

\* To whoever reads it, the log that any number of servers set up, fill and
\* remove while clients write is a sync log: in every interleaving of backfills,
\* triggers and crashes a version starts at 1 and moves by one.  It does not say
\* that a change reaches the log: CaptureIsExact does.
THEOREM Refinement == Spec => ImplementsSyncLog
<1>1. Init => PendingIsNew /\ Log!Init
  BY DEF Init, PendingIsNew, Others, Log!Init, Log!Empty
<1>2. TypeOK /\ PendingIsNew /\ [Next]_vars => PendingIsNew'
  BY VersionsStep
<1>3. TypeOK /\ PendingIsNew /\ [Next]_vars => [Log!Next]_log
  BY RefinementStep
<1> QED
  BY <1>1, <1>2, <1>3, TypeCorrect, PTL DEF Spec, ImplementsSyncLog, Log!Spec

-----------------------------------------------------------------------------
(* Completeness of the log, under CleanUse.                                *)

\* No client writes while a transaction creates the log.
LEMMA WritersSeeNoCreator ==
    ASSUME CleanUse, OneCreator, NEW t \in Tables, NEW k \in Keys, Writable(t, k)
    PROVE  \A s \in Servers : ~ creates[s]
BY DEF CleanUse, OneCreator, Writable

\* A change of a row and what the trigger makes of it: the log row of the
\* record, and no other, follows.
LEMMA ClientKeeps ==
    ASSUME CleanUse, IInv, TypeOK',
           NEW t \in Tables, NEW k \in Keys, NEW op \in {"I", "U", "D"},
           Writable(t, k), Touch(t, k, op),
           rows' = [rows EXCEPT ![t] = IF op = "D" THEN rows[t] \ {k}
                                                   ELSE rows[t] \cup {k}],
           UNCHANGED <<tables, installed, functions, triggers, pc, setup, removal>>
    PROVE  IInv'
<1> DEFINE x == <<t, RecordOf[k]>>
<1>1. CASE t \in triggers
  <2>1. /\ installed
        /\ x \in Tables \X Records
        /\ log' = [log EXCEPT ![x] = Touched(log[x], op)]
    BY <1>1, NamesAreTyped DEF IInv, TypeOK, TriggersAreOwn, LogKey, Touch, Writable
  <2>2. Alive(Touched(log[x], op)) <=> op # "D"
    <3>1. Touched(log[x], op) \in LogEntry
      <4>1. log[x] \in LogEntry \cup {None}
        BY <2>1 DEF IInv, TypeOK
      <4>2. log[x] # None => log[x].version < MaxVersion
        BY <1>1 DEF Writable, LogKey, IInv, TriggersAreOwn
      <4> QED BY <4>1, <4>2, FlagsAssumption DEF Touched, LogEntry
    <3>2. Touched(log[x], op).op = op
      BY DEF Touched
    <3> QED BY <3>1, <3>2, NoneAssumption DEF Alive
  <2>3. ASSUME NEW u \in triggers, NEW r \in Records
        PROVE  (\E j \in rows'[u] : RecordOf[j] = r) <=> Alive(log'[<<u, r>>])
    <3>1. (\E j \in rows[u] : RecordOf[j] = r) <=> Alive(log[<<u, r>>])
      BY <2>1 DEF IInv, LogIsCurrent
    <3>2. rows[u] \subseteq Keys /\ u \in Tables
      BY DEF IInv, TypeOK
    <3>3. rows'[u] = IF u = t THEN (IF op = "D" THEN rows[t] \ {k}
                                               ELSE rows[t] \cup {k})
                              ELSE rows[u]
      BY <3>2 DEF IInv, TypeOK
    <3>4. CASE u = t /\ r = RecordOf[k]
      <4>1. (\E j \in rows'[u] : RecordOf[j] = r) <=> op # "D"
        BY <3>2, <3>3, <3>4 DEF CleanUse
      <4>2. log'[<<u, r>>] = Touched(log[x], op)
        BY <2>1, <3>4 DEF IInv, TypeOK
      <4> QED BY <2>2, <4>1, <4>2
    <3>5. CASE ~ (u = t /\ r = RecordOf[k])
      <4>1. (\E j \in rows'[u] : RecordOf[j] = r)
               <=> (\E j \in rows[u] : RecordOf[j] = r)
        BY <3>3, <3>5
      <4>2. log'[<<u, r>>] = log[<<u, r>>]
        BY <2>1, <3>2, <3>5 DEF IInv, TypeOK
      <4> QED BY <3>1, <4>1, <4>2
    <3> QED BY <3>4, <3>5
  <2>4. LogIsCurrent'
    BY <2>3 DEF LogIsCurrent
  <2>5. PendingIsRight'
    BY WritersSeeNoCreator DEF IInv, PendingIsRight, setup
  <2>6. NoLogWithoutSetup'
    BY <2>1 DEF NoLogWithoutSetup
  <2> QED BY <2>4, <2>5, <2>6
          DEF IInv, OneCreator, LogUsers, AllHaveTriggers, TriggersAreOwn,
              SchemaIsWhole, InSetup, UsesLog, Others, setup
<1>2. CASE t \notin triggers
  <2>1. log' = log /\ ~ installed
    BY <1>2 DEF Touch, IInv, AllHaveTriggers
  <2>2. LogIsCurrent'
    BY <2>1 DEF LogIsCurrent
  <2>3. PendingIsRight'
    BY WritersSeeNoCreator DEF IInv, PendingIsRight, setup
  <2>4. NoLogWithoutSetup'
    BY <2>1 DEF IInv, NoLogWithoutSetup, LogIsEmpty
  <2> QED BY <2>2, <2>3, <2>4
          DEF IInv, OneCreator, LogUsers, AllHaveTriggers, TriggersAreOwn,
              SchemaIsWhole, InSetup, UsesLog, Others, setup
<1> QED BY <1>1, <1>2

\* The steps of a server's transaction that change nothing but where it is.
LEMMA PerformSetupKeeps ==
    ASSUME IInv, TypeOK', NEW s \in Servers, PerformSetup(s)
    PROVE  IInv'
<1> USE DEF Goto, database
<1>1. pc' = [pc EXCEPT ![s] = "load"] /\ creates' = [creates EXCEPT ![s] = ~ installed]
  BY DEF PerformSetup
<1>2. ~ creates[s] /\ \A r \in Others(s) : ~ creates[r]
  BY DEF PerformSetup, IInv, OneCreator, InSetup
<1>3. pending[s] = {} /\ Done(s)' = {}
  BY <1>1, <1>2 DEF IInv, PendingIsRight, TypeOK, Done
<1>4. PendingIsRight'
  <2> SUFFICES ASSUME NEW r \in Servers
               PROVE  PendingIsRight!(r)'
    BY DEF PendingIsRight
  <2>1. PendingIsRight!(r)
    BY DEF IInv, PendingIsRight
  <2>2. CASE r = s
    BY <1>1, <1>3, <2>2 DEF PerformSetup
  <2>3. CASE r # s
    BY <1>1, <1>2, <2>1, <2>3 DEF PerformSetup, Others, IInv, TypeOK
  <2> QED BY <2>2, <2>3
<1>5. OneCreator'
  BY <1>1, <1>2 DEF PerformSetup, OneCreator, InSetup, Others, IInv, TypeOK
<1>6. LogUsers'
  BY <1>1, <1>2 DEF PerformSetup, LogUsers, UsesLog, IInv, TypeOK
<1>7. NoLogWithoutSetup' /\ AllHaveTriggers' /\ TriggersAreOwn' /\ LogIsCurrent'
  BY DEF PerformSetup, IInv, NoLogWithoutSetup, LogIsEmpty, AllHaveTriggers,
         TriggersAreOwn, LogIsCurrent
<1>8. SchemaIsWhole'
  BY <1>1 DEF PerformSetup, SchemaIsWhole, IInv, TypeOK
<1> QED BY <1>4, <1>5, <1>6, <1>7, <1>8 DEF IInv

LEMMA LoadSchemaKeeps ==
    ASSUME IInv, TypeOK', NEW s \in Servers, LoadSchema(s)
    PROVE  IInv'
<1> USE DEF Goto, database
<1>1. /\ pc' = [pc EXCEPT ![s] = "count"]
      /\ schema' = [schema EXCEPT ![s] = Tables]
      /\ todo' = [todo EXCEPT ![s] = Tables]
  BY DEF LoadSchema, IInv, SchemaIsWhole
<1>2. \A r \in Servers : Done(r)' = Done(r)
  BY ZenonT(60), <1>1 DEF LoadSchema, Done, IInv, TypeOK
<1>3. PendingIsRight'
  BY <1>2 DEF LoadSchema, PendingIsRight, HasRow, IInv
<1>4. OneCreator' /\ LogUsers'
  BY <1>1 DEF LoadSchema, OneCreator, LogUsers, UsesLog, InSetup, Others, IInv, TypeOK
<1>5. NoLogWithoutSetup' /\ AllHaveTriggers' /\ TriggersAreOwn' /\ LogIsCurrent'
  BY DEF LoadSchema, IInv, NoLogWithoutSetup, LogIsEmpty, AllHaveTriggers,
         TriggersAreOwn, LogIsCurrent
<1>6. SchemaIsWhole'
  BY <1>1 DEF LoadSchema, SchemaIsWhole, IInv, TypeOK
<1> QED BY <1>3, <1>4, <1>5, <1>6 DEF IInv

\* A transaction that creates the log finds it empty.
LEMMA CountLogKeeps ==
    ASSUME IInv, TypeOK', NEW s \in Servers, CountLog(s)
    PROVE  IInv'
<1> USE DEF Goto, database, setup
<1>1. /\ pc[s] = "count"
      /\ pc' = [pc EXCEPT ![s] = IF LogIsEmpty THEN "backfill" ELSE "triggers"]
      /\ todo[s] = Tables /\ made[s] = {}
  BY DEF CountLog, IInv, SchemaIsWhole
<1>2. \A r \in Servers : creates[r] => Done(r)' = Done(r)
  <2>1. creates[s] => LogIsEmpty
    BY DEF IInv, OneCreator, NoLogWithoutSetup
  <2> QED BY <1>1, <2>1 DEF CountLog, Done, IInv, TypeOK
<1>3. PendingIsRight'
  BY <1>2 DEF CountLog, PendingIsRight, HasRow, IInv
<1>4. OneCreator' /\ LogUsers'
  BY <1>1 DEF CountLog, OneCreator, LogUsers, UsesLog, InSetup, Others, IInv, TypeOK
<1>5. NoLogWithoutSetup' /\ AllHaveTriggers' /\ TriggersAreOwn' /\ LogIsCurrent'
  BY DEF CountLog, IInv, NoLogWithoutSetup, LogIsEmpty, AllHaveTriggers,
         TriggersAreOwn, LogIsCurrent
<1>6. SchemaIsWhole'
  BY <1>1 DEF CountLog, SchemaIsWhole, IInv, TypeOK
<1> QED BY <1>3, <1>4, <1>5, <1>6 DEF IInv

LEMMA BackfillDoneKeeps ==
    ASSUME IInv, TypeOK', NEW s \in Servers, BackfillDone(s)
    PROVE  IInv'
<1> USE DEF Goto, database
<1>1. /\ pc[s] = "backfill" /\ todo[s] = {} /\ made[s] = {}
      /\ pc' = [pc EXCEPT ![s] = "triggers"]
      /\ todo' = [todo EXCEPT ![s] = Tables]
  BY DEF BackfillDone, IInv, SchemaIsWhole
<1>2. \A r \in Servers : Done(r)' = Done(r)
  BY ZenonT(60), <1>1 DEF BackfillDone, Done, IInv, TypeOK
<1>3. PendingIsRight'
  BY <1>2 DEF BackfillDone, PendingIsRight, HasRow, IInv
<1>4. OneCreator' /\ LogUsers'
  BY <1>1 DEF BackfillDone, OneCreator, LogUsers, UsesLog, InSetup, Others, IInv, TypeOK
<1>5. NoLogWithoutSetup' /\ AllHaveTriggers' /\ TriggersAreOwn' /\ LogIsCurrent'
  BY DEF BackfillDone, IInv, NoLogWithoutSetup, LogIsEmpty, AllHaveTriggers,
         TriggersAreOwn, LogIsCurrent
<1>6. SchemaIsWhole'
  BY <1>1 DEF BackfillDone, SchemaIsWhole, IInv, TypeOK
<1> QED BY <1>3, <1>4, <1>5, <1>6 DEF IInv

\* One table is backfilled: with all its rows by the transaction that creates
\* the log, with none by any other, which finds them all recorded.
LEMMA BackfillKeeps ==
    ASSUME IInv, TypeOK', NEW s \in Servers, NEW t \in Tables, Backfill(s, t)
    PROVE  IInv'
<1> USE DEF database
<1> DEFINE new == {p \in {<<t, RecordOf[k]>> : k \in rows[t]} : log[p] = None}
<1>1. /\ pc[s] = "backfill" /\ t \in todo[s]
      /\ pending' = [pending EXCEPT ![s] = pending[s] \cup new]
      /\ todo' = [todo EXCEPT ![s] = todo[s] \ {t}]
      /\ UNCHANGED <<rows, log, pc, creates>>
  BY DEF Backfill, NextTable, IInv, TypeOK
<1>2. ASSUME ~ creates[s]
      PROVE  new = {}
  <2>1. installed /\ t \in triggers
    BY <1>1, <1>2 DEF IInv, LogUsers, UsesLog, AllHaveTriggers
  <2>2. ASSUME NEW k \in rows[t]
        PROVE  log[<<t, RecordOf[k]>>] # None
    <3>1. RecordOf[k] \in Records
      BY NamesAreTyped DEF IInv, TypeOK
    <3> QED BY <2>1, <3>1 DEF IInv, LogIsCurrent, Alive
  <2> QED BY <2>2
<1>3. ASSUME creates[s], NEW u \in Tables, NEW r \in Records
      PROVE  <<u, r>> \in new <=> u = t /\ HasRow(t, r)
  <2>1. log[<<u, r>>] = None
    BY <1>3 DEF IInv, OneCreator, NoLogWithoutSetup, LogIsEmpty, TypeOK
  <2> QED BY <2>1 DEF HasRow
<1> HIDE DEF new
<1>4. PendingIsRight'
  <2> SUFFICES ASSUME NEW q \in Servers
               PROVE  PendingIsRight!(q)'
    BY DEF PendingIsRight
  <2>1. PendingIsRight!(q)
    BY DEF IInv, PendingIsRight
  <2>2. CASE q # s
    BY <1>1, <2>1, <2>2 DEF Done, HasRow, IInv, TypeOK
  <2>3. CASE q = s /\ ~ creates[s]
    BY <1>1, <1>2, <2>1, <2>3 DEF IInv, TypeOK
  <2>4. CASE q = s /\ creates[s]
    <3>1. pending'[s] = pending[s] \cup new
      BY <1>1 DEF IInv, TypeOK
    <3>2. Done(s)' = Done(s) \cup {t}
      BY <1>1 DEF Done, IInv, TypeOK
    <3>3. \A u \in Tables, r \in Records : HasRow(u, r)' <=> HasRow(u, r)
      BY <1>1 DEF HasRow
    <3> QED BY <1>1, <1>3, <2>1, <2>4, <3>1, <3>2, <3>3
  <2> QED BY <2>2, <2>3, <2>4
<1>5. OneCreator' /\ LogUsers'
  BY DEF Backfill, OneCreator, LogUsers, UsesLog, InSetup, Others, IInv
<1>6. NoLogWithoutSetup' /\ AllHaveTriggers' /\ TriggersAreOwn' /\ LogIsCurrent'
  BY DEF Backfill, IInv, NoLogWithoutSetup, LogIsEmpty, AllHaveTriggers,
         TriggersAreOwn, LogIsCurrent
<1>7. SchemaIsWhole'
  BY <1>1 DEF Backfill, SchemaIsWhole, IInv, TypeOK
<1> QED BY <1>4, <1>5, <1>6, <1>7 DEF IInv

LEMMA CreateTriggerKeeps ==
    ASSUME CleanUse, IInv, TypeOK',
           NEW s \in Servers, NEW t \in Tables, CreateTrigger(s, t)
    PROVE  IInv'
<1> USE DEF database
<1>1. /\ pc[s] = "triggers" /\ t \in todo[s]
      /\ made' = [made EXCEPT ![s] = made[s] \cup {t}]
      /\ bodies' = [bodies EXCEPT ![s] = [bodies[s] EXCEPT ![FuncOf[t]] = t]]
      /\ todo' = [todo EXCEPT ![s] = todo[s] \ {t}]
  BY DEF CreateTrigger, NextTable, IInv, TypeOK
<1>2. PendingIsRight'
  <2>1. \A r \in Servers : Done(r)' = Done(r)
    BY <1>1 DEF CreateTrigger, Done, IInv, TypeOK
  <2> QED BY <2>1 DEF CreateTrigger, PendingIsRight, HasRow, IInv
<1>3. OneCreator' /\ LogUsers'
  BY DEF CreateTrigger, OneCreator, LogUsers, UsesLog, InSetup, Others, IInv
<1>4. NoLogWithoutSetup' /\ AllHaveTriggers' /\ LogIsCurrent'
  BY DEF CreateTrigger, IInv, NoLogWithoutSetup, LogIsEmpty, AllHaveTriggers,
         LogIsCurrent
<1>5. TriggersAreOwn'
  <2> SUFFICES ASSUME NEW r \in Servers, NEW u \in Tables
               PROVE  bodies'[r][FuncOf[u]] = IF u \in made'[r] THEN u ELSE None
    BY DEF TriggersAreOwn, CreateTrigger, IInv
  <2>1. bodies[r][FuncOf[u]] = IF u \in made[r] THEN u ELSE None
    BY DEF TriggersAreOwn, IInv
  <2>2. CASE r # s
    BY <1>1, <2>1, <2>2 DEF IInv, TypeOK
  <2>3. CASE r = s
    <3>1. bodies'[s] = [bodies[s] EXCEPT ![FuncOf[t]] = t]
      BY <1>1 DEF IInv, TypeOK
    <3>2. made'[s] = made[s] \cup {t}
      BY <1>1 DEF IInv, TypeOK
    <3>3. FuncOf[t] \in DOMAIN bodies[s] /\ FuncOf[u] \in DOMAIN bodies[s]
      BY NamesAreTyped DEF IInv, TypeOK
    <3>4. FuncOf[u] = FuncOf[t] <=> u = t
      BY DEF CleanUse, OwnFunctions
    <3> QED BY <2>1, <2>3, <3>1, <3>2, <3>3, <3>4
  <2> QED BY <2>2, <2>3
<1>6. SchemaIsWhole'
  <2> SUFFICES ASSUME NEW r \in Servers
               PROVE  SchemaIsWhole!2!(r)'
    BY DEF SchemaIsWhole, IInv, CreateTrigger
  <2>1. SchemaIsWhole!2!(r)
    BY DEF SchemaIsWhole, IInv
  <2>2. schema' = schema /\ pc' = pc
    BY DEF CreateTrigger
  <2>3. CASE r = s
    <3>1. made'[s] = made[s] \cup {t} /\ todo'[s] = todo[s] \ {t}
      BY <1>1 DEF IInv, TypeOK
    <3> QED BY <1>1, <2>1, <2>2, <2>3, <3>1
  <2>4. CASE r # s
    BY <1>1, <2>1, <2>2, <2>4 DEF IInv, TypeOK
  <2> QED BY <2>3, <2>4
<1> QED BY <1>2, <1>3, <1>4, <1>5, <1>6 DEF IInv

\* The end of a transaction of new(), committed or not, as its own variables
\* and those of the other servers see it.
LEMMA EndedKeeps ==
    ASSUME CleanUse, IInv, NEW s \in Servers, Ended(s),
           NEW step \in {"up", "down"}, Goto(s, step),
           UNCHANGED <<tables, rows>>,
           \A r \in Others(s) : schema'[r] = schema[r]
    PROVE  /\ PendingIsRight'
           /\ \A r \in Servers : creates'[r] =>
                 r # s /\ creates[r] /\ InSetup(r)' /\ \A q \in Others(r) : ~ creates'[q]
           /\ \A r \in Servers : UsesLog(r)' => r # s /\ UsesLog(r)
           /\ \A r \in Servers, t \in Tables :
                 bodies'[r][FuncOf[t]] = IF t \in made'[r] THEN t ELSE None
           /\ SchemaIsWhole'
<1>1. /\ creates' = [creates EXCEPT ![s] = FALSE]
      /\ todo' = [todo EXCEPT ![s] = {}]
      /\ pending' = [pending EXCEPT ![s] = {}]
      /\ made' = [made EXCEPT ![s] = {}]
      /\ bodies' = [bodies EXCEPT ![s] = [f \in Functions |-> None]]
      /\ pc' = [pc EXCEPT ![s] = step]
  BY DEF Ended, Goto
<1>2. PendingIsRight'
  <2> SUFFICES ASSUME NEW r \in Servers
               PROVE  PendingIsRight!(r)'
    BY DEF PendingIsRight
  <2>1. PendingIsRight!(r)
    BY DEF IInv, PendingIsRight
  <2>2. CASE r = s
    BY <1>1, <2>2 DEF IInv, TypeOK
  <2>3. CASE r # s
    BY <1>1, <2>1, <2>3 DEF IInv, TypeOK, Done, HasRow
  <2> QED BY <2>2, <2>3
<1>3. \A r \in Servers : creates'[r] =>
         r # s /\ creates[r] /\ InSetup(r)' /\ \A q \in Others(r) : ~ creates'[q]
  BY <1>1 DEF IInv, TypeOK, OneCreator, InSetup, Others
<1>4. \A r \in Servers : UsesLog(r)' => r # s /\ UsesLog(r)
  BY <1>1 DEF IInv, TypeOK, UsesLog
<1>5. ASSUME NEW r \in Servers, NEW t \in Tables
      PROVE  bodies'[r][FuncOf[t]] = IF t \in made'[r] THEN t ELSE None
  <2>1. CASE r = s
    BY <1>1, <2>1, NamesAreTyped DEF IInv, TypeOK
  <2>2. CASE r # s
    BY <1>1, <2>2 DEF IInv, TypeOK, TriggersAreOwn
  <2> QED BY <2>1, <2>2
<1>6. SchemaIsWhole'
  <2> SUFFICES ASSUME NEW r \in Servers
               PROVE  SchemaIsWhole!2!(r)'
    BY DEF SchemaIsWhole, IInv
  <2>1. SchemaIsWhole!2!(r)
    BY DEF SchemaIsWhole, IInv
  <2>2. CASE r = s
    BY <1>1, <2>2 DEF IInv, TypeOK
  <2>3. CASE r # s
    BY <1>1, <2>1, <2>3 DEF IInv, TypeOK, Others
  <2> QED BY <2>2, <2>3
<1> QED BY <1>2, <1>3, <1>4, <1>5, <1>6

LEMMA RollbackKeeps ==
    ASSUME CleanUse, IInv, TypeOK', NEW s \in Servers, Rollback(s)
    PROVE  IInv'
<1>1. /\ Ended(s) /\ Goto(s, "down")
      /\ UNCHANGED <<tables, rows, installed, log, functions, triggers>>
      /\ \A r \in Others(s) : schema'[r] = schema[r]
  BY DEF Rollback, database, IInv, TypeOK, Others
<1>2. OneCreator' /\ LogUsers'
  <2>1. \A r \in Servers : r # s => creates'[r] = creates[r]
    BY <1>1 DEF Ended, IInv, TypeOK
  <2>2. OneCreator'
    BY <1>1, EndedKeeps DEF IInv, OneCreator, Others
  <2>3. LogUsers'
    BY <1>1, <2>1, EndedKeeps DEF IInv, LogUsers
  <2> QED BY <2>2, <2>3
<1>3. NoLogWithoutSetup' /\ AllHaveTriggers' /\ LogIsCurrent'
  BY <1>1 DEF IInv, NoLogWithoutSetup, LogIsEmpty, AllHaveTriggers, LogIsCurrent
<1>4. TriggersAreOwn'
  BY <1>1, EndedKeeps DEF IInv, TriggersAreOwn
<1>5. PendingIsRight' /\ SchemaIsWhole'
  BY <1>1, EndedKeeps
<1> QED BY <1>2, <1>3, <1>4, <1>5 DEF IInv

\* The log appears with a row per record and a trigger per table; a
\* transaction that did not create it adds nothing.
LEMMA CommitKeeps ==
    ASSUME CleanUse, IInv, TypeOK', NEW s \in Servers, Commit(s)
    PROVE  IInv'
<1>1. /\ pc[s] = "triggers" /\ todo[s] = {}
      /\ Ended(s) /\ Goto(s, "up")
      /\ UNCHANGED <<tables, rows, schema>>
      /\ made[s] = Tables
      /\ triggers' = triggers \cup Tables
  BY DEF Commit, IInv, SchemaIsWhole
<1>2. /\ installed'
      /\ \A r \in Others(s) : ~ creates[r]
  BY <1>1 DEF Commit, IInv, LogUsers, UsesLog, OneCreator, Others
<1>3. triggers' = Tables
  BY <1>1 DEF IInv, TypeOK
<1>4. OneCreator' /\ LogUsers'
  BY <1>1, <1>2, EndedKeeps DEF OneCreator, LogUsers, Others
<1>5. NoLogWithoutSetup' /\ AllHaveTriggers'
  BY <1>2, <1>3 DEF NoLogWithoutSetup, AllHaveTriggers
<1>6. TriggersAreOwn'
  <2>1. ASSUME NEW t \in Tables
        PROVE  functions'[FuncOf[t]] = t
    <3>1. bodies[s][FuncOf[t]] = t
      BY <1>1 DEF IInv, TriggersAreOwn
    <3>2. t # None /\ FuncOf[t] \in Functions
      BY NoneAssumption, NamesAreTyped
    <3> QED BY <3>1, <3>2 DEF Commit
  <2> QED BY <1>1, <1>3, <2>1, EndedKeeps DEF TriggersAreOwn
<1>7. LogIsCurrent'
  <2> SUFFICES ASSUME NEW t \in Tables, NEW r \in Records
               PROVE  (\E k \in rows[t] : RecordOf[k] = r) <=> Alive(log'[<<t, r>>])
    BY ZenonT(60), <1>1, <1>3 DEF LogIsCurrent
  <2>1. log'[<<t, r>>] = IF <<t, r>> \in pending[s] THEN Backfilled ELSE log[<<t, r>>]
    BY DEF Commit
  <2>2. CASE creates[s]
    <3>1. <<t, r>> \in pending[s] <=> HasRow(t, r)
      BY <1>1, <2>2 DEF IInv, PendingIsRight, Done
    <3>2. log[<<t, r>>] = None
      BY <2>2 DEF IInv, OneCreator, NoLogWithoutSetup, LogIsEmpty, TypeOK
    <3>3. Alive(Backfilled) /\ ~ Alive(None)
      <4>1. Backfilled \in LogEntry
        BY FlagsAssumption DEF Backfilled, LogEntry
      <4> QED BY <4>1, NoneAssumption DEF Backfilled, Alive
    <3> QED BY <2>1, <3>1, <3>2, <3>3 DEF HasRow
  <2>3. CASE ~ creates[s]
    <3>1. pending[s] = {} /\ installed /\ t \in triggers
      BY <1>1, <2>3 DEF IInv, PendingIsRight, LogUsers, UsesLog, AllHaveTriggers
    <3> QED BY <2>1, <3>1 DEF IInv, LogIsCurrent
  <2> QED BY <2>2, <2>3
<1>8. PendingIsRight' /\ SchemaIsWhole'
  BY <1>1, EndedKeeps
<1> QED BY <1>4, <1>5, <1>6, <1>7, <1>8 DEF IInv

\* remove_setup, and a server that stops, in between transactions of new().
LEMMA ServerKeeps ==
    ASSUME IInv, TypeOK', NEW s \in Servers,
           Stop(s) \/ ListFunctions(s) \/ DropFunction(s) \/ DropSetup(s) \/ DropFailed(s)
    PROVE  IInv'
<1> USE DEF Goto, database, setup
<1>1. /\ pc[s] \in {"up", "drop"}
      /\ \E x \in {"up", "down", "drop"} : pc' = [pc EXCEPT ![s] = x]
      /\ UNCHANGED <<tables, rows, creates, todo, pending, made, bodies>>
      /\ \A r \in Others(s) : schema'[r] = schema[r]
  BY DEF Stop, ListFunctions, DropFunction, DropSetup, DropFailed, IInv, TypeOK, Others
<1>2. ASSUME NEW r \in Servers
      PROVE  /\ r # s => pc'[r] = pc[r]
             /\ pc'[s] \in {"up", "down", "drop"}
             /\ UsesLog(r)' <=> UsesLog(r)
             /\ InSetup(r)' <=> InSetup(r)
             /\ Done(r)' = Done(r)
  BY <1>1 DEF IInv, TypeOK, UsesLog, InSetup, Done
<1>3. \/ UNCHANGED <<installed, log, functions, triggers>>
      \/ DropSetup(s)
  BY DEF Stop, ListFunctions, DropFunction, DropFailed
<1>4. PendingIsRight'
  BY <1>1, <1>2 DEF IInv, PendingIsRight, HasRow
<1>5. OneCreator'
  BY <1>1, <1>2, <1>3 DEF IInv, OneCreator, Others, DropSetup
<1>6. LogUsers'
  BY <1>1, <1>2, <1>3 DEF IInv, LogUsers, Others, DropSetup, UsesLog
<1>7. NoLogWithoutSetup' /\ AllHaveTriggers' /\ LogIsCurrent'
  BY <1>1, <1>3 DEF IInv, NoLogWithoutSetup, LogIsEmpty, AllHaveTriggers,
                    LogIsCurrent, DropSetup
<1>8. TriggersAreOwn'
  <2>1. CASE UNCHANGED <<functions, triggers>>
    BY <1>1, <2>1 DEF IInv, TriggersAreOwn
  <2>2. CASE DropSetup(s)
    BY <1>1, <2>2, NamesAreTyped DEF IInv, TriggersAreOwn, TypeOK, DropSetup, Stripped
  <2> QED BY <1>3, <2>1, <2>2
<1>9. SchemaIsWhole'
  <2> SUFFICES ASSUME NEW r \in Servers
               PROVE  SchemaIsWhole!2!(r)'
    BY <1>1 DEF SchemaIsWhole, IInv
  <2>1. SchemaIsWhole!2!(r)
    BY DEF SchemaIsWhole, IInv
  <2>2. CASE r = s
    BY <1>1, <1>2, <2>1, <2>2
  <2>3. CASE r # s
    BY <1>1, <1>2, <2>1, <2>3 DEF Others
  <2> QED BY <2>2, <2>3
<1> QED BY <1>4, <1>5, <1>6, <1>7, <1>8, <1>9 DEF IInv

LEMMA CompleteStep ==
    ASSUME CleanUse, IInv, [Next]_vars
    PROVE  IInv'
<1>0. TypeOK'
  BY TypeStep DEF IInv
<1>1. ASSUME NEW s \in Servers,
             LogIsGone(s) \/ Fail(s) \/ \E t \in Tables : NoPrimaryKey(s, t)
      PROVE  IInv'
  BY <1>0, <1>1, RollbackKeeps DEF LogIsGone, Fail, NoPrimaryKey
<1>2. ASSUME NEW t \in Tables, NEW k \in Keys, ClientInsert(t, k)
      PROVE  IInv'
  BY <1>0, <1>2, ClientKeeps DEF ClientInsert, IInv, TypeOK
<1>3. ASSUME NEW t \in Tables, NEW k \in Keys, ClientUpdate(t, k)
      PROVE  IInv'
  <2>1. rows' = [rows EXCEPT ![t] = rows[t] \cup {k}]
    BY <1>3 DEF ClientUpdate, IInv, TypeOK
  <2> QED BY <1>0, <1>3, <2>1, ClientKeeps DEF ClientUpdate
<1>4. ASSUME NEW t \in Tables, NEW k \in Keys, ClientDelete(t, k)
      PROVE  IInv'
  BY <1>0, <1>4, ClientKeeps DEF ClientDelete, IInv, TypeOK
<1>5. ASSUME NEW t \in Tables, NEW k \in Keys, NEW j \in Keys,
             ClientUpdateKey(t, k, j)
      PROVE  FALSE
  BY <1>5 DEF ClientUpdateKey, CleanUse
<1>6. ASSUME NEW t \in Tables, CreateTable(t)
      PROVE  FALSE
  BY <1>6 DEF CreateTable, IInv, SchemaIsWhole
<1>7. CASE UNCHANGED vars
  BY <1>0, <1>7 DEF vars, database, setup, IInv, PendingIsRight, Done, HasRow,
              OneCreator, LogUsers, UsesLog, InSetup, Others, NoLogWithoutSetup,
              LogIsEmpty, AllHaveTriggers, TriggersAreOwn, SchemaIsWhole,
              LogIsCurrent
<1> QED
  BY <1>0, <1>1, <1>2, <1>3, <1>4, <1>5, <1>6, <1>7, PerformSetupKeeps,
     LoadSchemaKeeps, CountLogKeeps, BackfillDoneKeeps, BackfillKeeps,
     CreateTriggerKeeps, CommitKeeps, ServerKeeps
  DEF Next, InTransaction, ClientStep

LEMMA CompleteInit ==
    ASSUME CleanUse, Init
    PROVE  IInv
<1>1. TypeOK
  BY TypeInit
<1>2. PendingIsRight /\ OneCreator /\ LogUsers /\ LogIsCurrent
  BY DEF Init, PendingIsRight, OneCreator, LogUsers, LogIsCurrent, UsesLog
<1>3. NoLogWithoutSetup /\ AllHaveTriggers
  BY DEF Init, NoLogWithoutSetup, LogIsEmpty, AllHaveTriggers
<1>4. TriggersAreOwn
  BY NamesAreTyped DEF Init, TriggersAreOwn
<1>5. SchemaIsWhole
  BY TablesAssumption DEF Init, SchemaIsWhole, CleanUse
<1> QED BY <1>1, <1>2, <1>3, <1>4, <1>5 DEF IInv

\* With quiet setups, tables that are there from the start, keys that do not
\* change and names that do not collide, the log of any number of servers that
\* set up, crash, stop and remove the setup tells of every record whether it
\* exists.
THEOREM CaptureIsComplete == CleanUse => (Spec => []LogIsCurrent)
<1> SUFFICES ASSUME CleanUse
             PROVE  Spec => []LogIsCurrent
  OBVIOUS
<1>1. Init => IInv
  BY CompleteInit
<1>2. IInv /\ [Next]_vars => IInv'
  BY CompleteStep
<1>3. IInv => LogIsCurrent
  BY DEF IInv
<1> QED BY <1>1, <1>2, <1>3, PTL DEF Spec

-----------------------------------------------------------------------------
(* Every change is captured, under CleanUse.                               *)

\* The history variable counts what the log does.
CountsAgree ==
    /\ changes \in [Tables \X Records -> Nat]
    /\ \A p \in Tables \X Records :
          changes[p] = IF log[p] = None THEN 0 ELSE log[p].version

LEMMA PresentRows ==
    \A t \in Tables, r \in Records : <<t, r>> \in Present <=> HasRow(t, r)
BY DEF Present, HasRow

\* A step with its history is a step.
LEMMA CaptureNextIsNext == CaptureNext => Next
BY DEF CaptureNext, Aside, ClientChange, Next

\* The log appears with the records there are, or is left alone.
LEMMA CommitIsStart ==
    ASSUME IInv, CountsAgree, NEW s \in Servers, Commit(s),
           changes' = IF creates[s] THEN [p \in Tables \X Records |->
                                             IF p \in Present THEN 1 ELSE 0]
                                    ELSE changes
    PROVE  /\ CountsAgree'
           /\ [Captured!Next]_<<Present, changes, installed, log>>
<1>1. /\ pc[s] = "triggers"
      /\ log' = [p \in Tables \X Records |->
                    IF p \in pending[s] THEN Backfilled ELSE log[p]]
      /\ installed' = (installed \/ creates[s])
      /\ Present' = Present
  BY DEF Commit, Present
<1>2. CASE creates[s]
  <2>1. ~ installed /\ \A p \in Tables \X Records : log[p] = None
    BY <1>2 DEF IInv, OneCreator, NoLogWithoutSetup, LogIsEmpty, TypeOK
  <2>2. \A p \in Tables \X Records : p \in pending[s] <=> p \in Present
    BY <1>1, <1>2, PresentRows DEF IInv, PendingIsRight, Done
  <2>3. log' = [p \in Tables \X Records |-> IF p \in Present THEN Backfilled ELSE None]
    BY <1>1, <2>1, <2>2
  <2>4. changes' = [p \in Tables \X Records |-> IF p \in Present THEN 1 ELSE 0]
    BY <1>2
  <2>5. Captured!Start
    BY <1>1, <1>2, <2>1, <2>3, <2>4 DEF Captured!Start, Backfilled
  <2>6. Backfilled # None /\ Backfilled.version = 1
    BY FlagsAssumption, NoneAssumption DEF Backfilled, LogEntry
  <2>7. CountsAgree'
    <3> HIDE DEF Present
    <3> QED BY <2>3, <2>4, <2>6 DEF CountsAgree
  <2> QED BY <2>5, <2>7 DEF Captured!Next
<1>3. CASE ~ creates[s]
  <2>1. installed /\ pending[s] = {}
    BY <1>1, <1>3 DEF IInv, LogUsers, UsesLog, PendingIsRight
  <2>2. log' = log
    BY <1>1, <2>1 DEF IInv, TypeOK
  <2>3. changes' = changes /\ installed' = installed
    BY <1>1, <1>3, <2>1 DEF IInv, TypeOK
  <2> QED BY <1>1, <2>2, <2>3 DEF CountsAgree
<1> QED BY <1>2, <1>3

\* The log row of the record that a client changes is the next one.
LEMMA TouchCounts ==
    ASSUME CleanUse, IInv, CountsAgree,
           NEW t \in Tables, NEW k \in Keys, NEW op \in {"I", "U", "D"},
           Writable(t, k), Touch(t, k, op), Changed({<<t, RecordOf[k]>>}),
           installed' = installed
    PROVE  Captured!Change(<<t, RecordOf[k]>>, op) /\ CountsAgree'
<1> DEFINE x == <<t, RecordOf[k]>>
<1>0. x \in Tables \X Records
  BY NamesAreTyped
<1>1. CASE installed
  <2>1. t \in triggers /\ LogKey(t, k) = x
    BY <1>1 DEF IInv, AllHaveTriggers, TriggersAreOwn, LogKey
  <2>2. log' = [log EXCEPT ![x] = Touched(log[x], op)]
    BY <2>1 DEF Touch
  <2>3. Touched(log[x], op) = [op |-> op, version |-> changes[x] + 1]
    BY <1>0 DEF Touched, CountsAgree
  <2>4. Touched(log[x], op) # None
    <3>1. log[x] \in LogEntry \cup {None}
      BY <1>0 DEF IInv, TypeOK
    <3>2. log[x] # None => log[x].version < MaxVersion
      BY <2>1 DEF Writable
    <3>3. Touched(log[x], op) \in LogEntry
      BY <3>1, <3>2, FlagsAssumption DEF Touched, LogEntry
    <3> QED BY <3>3, NoneAssumption
  <2>5. changes' = [changes EXCEPT ![x] = changes[x] + 1]
    <3>1. changes \in [Tables \X Records -> Nat]
      BY DEF CountsAgree
    <3>2. changes' = [p \in Tables \X Records |->
             changes[p] + IF p \in {x} THEN 1 ELSE 0]
      BY <1>1 DEF Changed
    <3>3. ASSUME NEW p \in Tables \X Records
          PROVE  changes[p] + (IF p \in {x} THEN 1 ELSE 0)
                    = IF p = x THEN changes[x] + 1 ELSE changes[p]
      <4>1. changes[p] \in Nat
        BY <3>1
      <4> HIDE DEF x
      <4> QED BY <4>1
    <3>4. changes' = [p \in Tables \X Records |->
             IF p = x THEN changes[x] + 1 ELSE changes[p]]
      BY <3>2, <3>3
    <3> HIDE DEF x
    <3> QED BY <3>1, <3>4
  <2>6. Captured!Change(x, op)
    <3>1. log' = [log EXCEPT ![x] = [op |-> op, version |-> changes[x] + 1]]
      BY <2>2, <2>3
    <3> HIDE DEF x
    <3> QED BY ZenonT(60), <1>1, <2>5, <3>1 DEF Captured!Change
  <2>7. CountsAgree'
    <3>1. log \in [Tables \X Records -> LogEntry \cup {None}]
      BY DEF IInv, TypeOK
    <3>2. Touched(log[x], op).version = changes[x] + 1
      BY <2>3
    <3> HIDE DEF x
    <3> QED BY <1>0, <2>2, <2>4, <2>5, <3>1, <3>2 DEF CountsAgree
  <2> QED BY <2>6, <2>7
<1>2. CASE ~ installed
  <2>1. log' = log /\ changes' = changes
    BY <1>2 DEF Touch, Writable, Changed
  <2> QED BY <1>2, <2>1 DEF Captured!Change, CountsAgree
<1> QED BY <1>1, <1>2

LEMMA ClientIsCaptured ==
    ASSUME CleanUse, IInv, CountsAgree, NEW t \in Tables, NEW k \in Keys,
           ClientStep(t, k), Changed({<<t, RecordOf[k]>>})
    PROVE  CountsAgree' /\ Captured!Next
<1> DEFINE x == <<t, RecordOf[k]>>
<1>0. x \in Tables \X Records
  BY NamesAreTyped
<1>1. x \in Present <=> k \in rows[t]
  BY <1>0, NamesAreTyped, PresentRows DEF HasRow, CleanUse, IInv, TypeOK
<1>2. CASE ClientInsert(t, k)
  <2>1. CountsAgree' /\ Captured!Change(x, "I")
    BY <1>2, TouchCounts DEF ClientInsert
  <2>2. Present' = Present \cup {x}
    <3>1. rows' = [rows EXCEPT ![t] = rows[t] \cup {k}]
      BY <1>2 DEF ClientInsert
    <3>2. \A u \in Tables, r \in Records :
             HasRow(u, r)' <=> HasRow(u, r) \/ (u = t /\ r = RecordOf[k])
      BY <3>1 DEF HasRow, IInv, TypeOK
    <3>3. \A u \in Tables, r \in Records : <<u, r>> \in Present' <=> HasRow(u, r)'
      BY DEF Present, HasRow
    <3>4. Present \subseteq Tables \X Records /\ Present' \subseteq Tables \X Records
      BY DEF Present
    <3> QED BY <1>0, <3>2, <3>3, <3>4, PresentRows
  <2>3. Captured!Insert(x)
    BY <1>1, <1>2, <2>1, <2>2 DEF Captured!Insert, ClientInsert
  <2> QED BY <1>0, <2>1, <2>3 DEF Captured!Next
<1>3. CASE ClientUpdate(t, k)
  <2>1. CountsAgree' /\ Captured!Change(x, "U")
    BY <1>3, TouchCounts DEF ClientUpdate
  <2>2. Captured!Update(x)
    BY <1>1, <1>3, <2>1 DEF Captured!Update, ClientUpdate, Present
  <2> QED BY <1>0, <2>1, <2>2 DEF Captured!Next
<1>4. CASE ClientDelete(t, k)
  <2>1. CountsAgree' /\ Captured!Change(x, "D")
    BY <1>4, TouchCounts DEF ClientDelete
  <2>2. Present' = Present \ {x}
    <3>1. rows' = [rows EXCEPT ![t] = rows[t] \ {k}]
      BY <1>4 DEF ClientDelete
    <3>2. \A u \in Tables, r \in Records :
             HasRow(u, r)' <=> HasRow(u, r) /\ ~ (u = t /\ r = RecordOf[k])
      BY <3>1 DEF HasRow, CleanUse, IInv, TypeOK
    <3>3. \A u \in Tables, r \in Records : <<u, r>> \in Present' <=> HasRow(u, r)'
      BY DEF Present, HasRow
    <3>4. Present \subseteq Tables \X Records /\ Present' \subseteq Tables \X Records
      BY DEF Present
    <3> QED BY <3>2, <3>3, <3>4, PresentRows
  <2>3. Captured!Delete(x)
    BY <1>1, <1>4, <2>1, <2>2 DEF Captured!Delete, ClientDelete
  <2> QED BY <1>0, <2>1, <2>3 DEF Captured!Next
<1> QED BY <1>2, <1>3, <1>4 DEF ClientStep

LEMMA CaptureStep ==
    ASSUME CleanUse, IInv, CountsAgree, [CaptureNext]_<<vars, changes>>
    PROVE  /\ CountsAgree'
           /\ [Captured!Next]_<<Present, changes, installed, log>>
<1>1. ASSUME UNCHANGED <<database, changes>>
      PROVE  /\ CountsAgree'
             /\ UNCHANGED <<Present, changes, installed, log>>
  BY <1>1 DEF database, CountsAgree, Present
<1>2. ASSUME NEW s \in Servers, InTransaction(s), UNCHANGED changes
      PROVE  UNCHANGED <<database, changes>>
  BY <1>2 DEF InTransaction, PerformSetup, LoadSchema, CountLog, Backfill,
              BackfillDone, CreateTrigger, NoPrimaryKey, LogIsGone, Fail, Rollback,
              Stop, ListFunctions, DropFunction, DropFailed
<1>3. ASSUME NEW s \in Servers, DropSetup(s), changes' = Zero
      PROVE  CountsAgree' /\ Captured!Next
  <2>1. /\ log' = [p \in Tables \X Records |-> None]
        /\ installed' = FALSE
        /\ Present' = Present
    BY <1>3 DEF DropSetup, Present
  <2>2. CountsAgree'
    BY <1>3, <2>1 DEF CountsAgree, Zero
  <2>3. Captured!Remove
    BY <1>3, <2>1 DEF Captured!Remove, Captured!Zero, Captured!Empty, Zero
  <2> QED BY <2>2, <2>3 DEF Captured!Next
<1>4. ASSUME NEW t \in Tables, NEW k \in Keys, NEW j \in Keys,
             ClientUpdateKey(t, k, j)
      PROVE  FALSE
  BY <1>4 DEF ClientUpdateKey, CleanUse
<1>5. ASSUME NEW t \in Tables, CreateTable(t)
      PROVE  FALSE
  BY <1>5 DEF CreateTable, IInv, SchemaIsWhole
<1>6. CASE UNCHANGED <<vars, changes>>
  BY <1>1, <1>6 DEF vars
<1>7. CASE Aside /\ UNCHANGED changes
  BY <1>1, <1>2, <1>5, <1>7 DEF Aside
<1>8. ASSUME NEW t \in Tables, NEW k \in Keys, NEW j \in Keys, ClientChange(t, k, j),
             Changed({<<t, RecordOf[k]>>, <<t, RecordOf[j]>>})
      PROVE  CountsAgree' /\ Captured!Next
  <2>1. ClientStep(t, k) /\ j = k
    BY <1>4, <1>8 DEF ClientChange
  <2>2. {<<t, RecordOf[k]>>, <<t, RecordOf[j]>>} = {<<t, RecordOf[k]>>}
    BY <2>1
  <2> QED BY <1>8, <2>1, <2>2, ClientIsCaptured
<1> QED
  BY <1>3, <1>6, <1>7, <1>8, CommitIsStart DEF CaptureNext

\* Under the same conditions rows and log move together: the log begins with
\* the records there are, and no change of a record by a client, in whatever
\* interleaving with setups, crashes and removals, goes by without being counted
\* in the same step.
THEOREM CaptureIsExact == CleanUse => (CaptureSpec => CapturesChanges)
<1> SUFFICES ASSUME CleanUse
             PROVE  CaptureSpec => CapturesChanges
  OBVIOUS
<1>1. CaptureInit => IInv /\ CountsAgree /\ Captured!Init
  <2> SUFFICES ASSUME CaptureInit
               PROVE  IInv /\ CountsAgree /\ Captured!Init
    OBVIOUS
  <2>1. Present = {}
    BY DEF CaptureInit, Init, Present
  <2>2. CountsAgree
    BY DEF CaptureInit, Init, CountsAgree, Zero
  <2>3. Captured!Init
    BY <2>1 DEF CaptureInit, Init, Zero, Captured!Init, Captured!Zero, Captured!Empty
  <2> QED BY <2>2, <2>3, CompleteInit DEF CaptureInit
<1>2. IInv /\ [CaptureNext]_<<vars, changes>> => IInv'
  <2>1. [CaptureNext]_<<vars, changes>> => [Next]_vars
    BY CaptureNextIsNext
  <2> QED BY <2>1, CompleteStep
<1>3. IInv /\ CountsAgree /\ [CaptureNext]_<<vars, changes>> =>
         CountsAgree' /\ [Captured!Next]_<<Present, changes, installed, log>>
  BY CaptureStep
<1> QED
  BY <1>1, <1>2, <1>3, PTL DEF CaptureSpec, CapturesChanges, Captured!Spec

-----------------------------------------------------------------------------
(* Calls of new() do not deadlock.                                         *)

\* The locks of s: which it can hold where it is, and that those on tables
\* and their log rows belong to tables that its loop has passed.
LocksOf(s) ==
    /\ creates[s] => InSetup(s)
    /\ pending[s] # {} => UsesLog(s)
    /\ made[s] # {} => pc[s] = "triggers"
    /\ pc[s] = "backfill" =>
          \A p \in pending[s], u \in todo[s] : p[1] < u
    /\ \A t \in made[s], u \in todo[s] : t < u
    /\ \A t \in Tables : bodies[s][FuncOf[t]] # None => t \in made[s]
    /\ dropped[s] # {} => pc[s] = "drop"

LocksInOrder == \A s \in Servers : LocksOf(s)

\* What other servers do is nothing to the locks of r.
LEMMA OthersLocks ==
    ASSUME NEW r \in Servers, LocksOf(r),
           pc'[r] = pc[r], creates'[r] = creates[r], todo'[r] = todo[r],
           pending'[r] = pending[r], made'[r] = made[r], bodies'[r] = bodies[r],
           dropped'[r] = dropped[r]
    PROVE  LocksOf(r)'
BY DEF LocksOf, InSetup, UsesLog

\* After the end of its transaction a server holds no lock.
LEMMA EndedLocks ==
    ASSUME TypeOK, LocksInOrder, NEW s \in Servers, Ended(s),
           NEW step \in {"up", "down"}, Goto(s, step), UNCHANGED removal,
           pc[s] # "drop"
    PROVE  LocksInOrder'
<1> SUFFICES ASSUME NEW r \in Servers
             PROVE  LocksOf(r)'
  BY DEF LocksInOrder
<1> USE DEF removal
<1>1. CASE r # s
  BY <1>1, OthersLocks DEF LocksInOrder, TypeOK, Ended, Goto
<1>2. CASE r = s
  <2>1. /\ creates'[s] = FALSE /\ pending'[s] = {} /\ made'[s] = {}
        /\ bodies'[s] = [f \in Functions |-> None]
        /\ dropped'[s] = dropped[s] /\ pc'[s] = step
    BY DEF TypeOK, Ended, Goto
  <2>2. dropped[s] = {}
    BY DEF LocksInOrder, LocksOf
  <2> QED BY <1>2, <2>1, <2>2, NamesAreTyped DEF LocksOf
<1> QED BY <1>1, <1>2

LEMMA BackfillLocks ==
    ASSUME TypeOK, LocksInOrder, NEW s \in Servers, NEW t \in Tables,
           Backfill(s, t)
    PROVE  LocksInOrder'
<1> SUFFICES ASSUME NEW r \in Servers
             PROVE  LocksOf(r)'
  BY DEF LocksInOrder
<1> USE DEF removal, database
<1>1. CASE r # s
  BY <1>1, OthersLocks DEF LocksInOrder, TypeOK, Backfill
<1>2. CASE r = s
  <2>1. LocksOf(s)
    BY DEF LocksInOrder
  <2>2. /\ pc[s] = "backfill"
        /\ UNCHANGED <<pc, creates, made, bodies, dropped>>
        /\ todo'[s] = todo[s] \ {t}
        /\ \A u \in todo[s] : t <= u
    BY DEF Backfill, NextTable, TypeOK
  <2>3. \A p \in pending'[s] : p \in pending[s] \/ p[1] = t
    BY DEF Backfill, TypeOK
  <2>4. todo[s] \subseteq Nat /\ t \in Nat
    BY TablesAssumption DEF TypeOK
  <2>5. \A p \in pending'[s], u \in todo'[s] : p[1] < u
    BY <2>1, <2>2, <2>3, <2>4 DEF LocksOf
  <2> QED BY <1>2, <2>1, <2>2, <2>5 DEF LocksOf, InSetup, UsesLog
<1> QED BY <1>1, <1>2

LEMMA CreateTriggerLocks ==
    ASSUME OwnFunctions, TypeOK, LocksInOrder, NEW s \in Servers, NEW t \in Tables,
           CreateTrigger(s, t)
    PROVE  LocksInOrder'
<1> SUFFICES ASSUME NEW r \in Servers
             PROVE  LocksOf(r)'
  BY DEF LocksInOrder
<1> USE DEF removal, database
<1>1. CASE r # s
  BY <1>1, OthersLocks DEF LocksInOrder, TypeOK, CreateTrigger
<1>2. CASE r = s
  <2>1. LocksOf(s)
    BY DEF LocksInOrder
  <2>2. /\ pc[s] = "triggers"
        /\ UNCHANGED <<pc, creates, pending, dropped>>
        /\ todo'[s] = todo[s] \ {t}
        /\ made'[s] = made[s] \cup {t}
        /\ \A u \in todo[s] : t <= u
    BY DEF CreateTrigger, NextTable, TypeOK
  <2>3. todo[s] \subseteq Nat /\ t \in Nat
    BY TablesAssumption DEF TypeOK
  <2>4. \A v \in made'[s], u \in todo'[s] : v < u
    BY <2>1, <2>2, <2>3 DEF LocksOf
  <2>5. bodies'[s] = [bodies[s] EXCEPT ![FuncOf[t]] = t]
    BY DEF CreateTrigger, TypeOK
  <2>6. ASSUME NEW u \in Tables, bodies'[s][FuncOf[u]] # None
        PROVE  u \in made'[s]
    <3>1. CASE u = t
      BY <2>2, <3>1
    <3>2. CASE u # t
      <4>1. FuncOf[u] # FuncOf[t]
        BY <3>2 DEF OwnFunctions
      <4>2. bodies[s][FuncOf[u]] # None
        BY <2>5, <2>6, <4>1, NamesAreTyped DEF TypeOK
      <4> QED BY <2>1, <2>2, <4>2 DEF LocksOf
    <3> QED BY <3>1, <3>2
  <2> QED BY <1>2, <2>1, <2>2, <2>4, <2>6 DEF LocksOf, InSetup, UsesLog
<1> QED BY <1>1, <1>2

\* The other steps take no lock on a table.
LEMMA ServerLocks ==
    ASSUME TypeOK, LocksInOrder, NEW s \in Servers,
           \/ PerformSetup(s) \/ LoadSchema(s) \/ CountLog(s) \/ BackfillDone(s)
           \/ Stop(s) \/ ListFunctions(s) \/ DropFunction(s) \/ DropSetup(s)
           \/ DropFailed(s)
    PROVE  LocksInOrder'
<1> SUFFICES ASSUME NEW r \in Servers
             PROVE  LocksOf(r)'
  BY DEF LocksInOrder
<1> USE DEF removal, database, setup, Goto
<1>0. LocksOf(s)
  BY DEF LocksInOrder
<1>1. CASE r # s
  <2>1. /\ pc'[r] = pc[r] /\ creates'[r] = creates[r] /\ todo'[r] = todo[r]
        /\ dropped'[r] = dropped[r]
        /\ UNCHANGED <<pending, made, bodies>>
    BY <1>1 DEF TypeOK, PerformSetup, LoadSchema, CountLog, BackfillDone, Stop,
                ListFunctions, DropFunction, DropSetup, DropFailed
  <2> QED BY <2>1, OthersLocks DEF LocksInOrder
<1>2. CASE r = s
  <2>1. CASE PerformSetup(s) \/ LoadSchema(s) \/ CountLog(s)
    <3>1. /\ pc[s] \in {"down", "load", "count"}
          /\ pc'[s] \in {"load", "count", "backfill", "triggers"}
          /\ UNCHANGED <<pending, made, bodies, dropped>>
      BY <2>1 DEF TypeOK, PerformSetup, LoadSchema, CountLog
    <3>2. pending[s] = {} /\ made[s] = {} /\ dropped[s] = {}
      BY <1>0, <3>1 DEF LocksOf, UsesLog
    <3> QED BY <1>0, <1>2, <3>1, <3>2 DEF LocksOf, InSetup
  <2>2. CASE BackfillDone(s)
    <3>1. /\ pc[s] = "backfill" /\ pc'[s] = "triggers"
          /\ UNCHANGED <<pending, made, bodies, dropped, creates>>
      BY <2>2 DEF TypeOK, BackfillDone
    <3>2. made[s] = {} /\ dropped[s] = {}
      BY <1>0, <3>1 DEF LocksOf
    <3> QED BY <1>0, <1>2, <3>1, <3>2 DEF LocksOf, InSetup, UsesLog
  <2>3. CASE Stop(s) \/ ListFunctions(s) \/ DropFunction(s) \/ DropSetup(s)
             \/ DropFailed(s)
    <3>1. /\ pc[s] \in {"up", "drop"} /\ pc'[s] \in {"down", "drop", "up"}
          /\ UNCHANGED <<pending, made, bodies, creates>>
          /\ dropped'[s] # {} => pc'[s] = "drop"
      BY <1>0, <2>3 DEF TypeOK, LocksOf, Stop, ListFunctions, DropFunction,
                        DropSetup, DropFailed
    <3>2. ~ creates[s] /\ pending[s] = {} /\ made[s] = {}
      BY <1>0, <3>1 DEF LocksOf, UsesLog, InSetup
    <3> QED BY <1>0, <1>2, <3>1, <3>2 DEF LocksOf
  <2> QED BY <2>1, <2>2, <2>3
<1> QED BY <1>1, <1>2

LEMMA LocksStep ==
    ASSUME OwnFunctions, TypeOK, LocksInOrder, [Next]_vars
    PROVE  LocksInOrder'
<1>1. ASSUME NEW s \in Servers,
             LogIsGone(s) \/ Fail(s) \/ \E t \in Tables : NoPrimaryKey(s, t)
      PROVE  LocksInOrder'
  <2>1. Rollback(s) /\ pc[s] # "drop"
    BY <1>1 DEF LogIsGone, Fail, NoPrimaryKey, InSetup, UsesLog
  <2> QED BY <2>1, EndedLocks DEF Rollback
<1>2. ASSUME NEW s \in Servers, Commit(s)
      PROVE  LocksInOrder'
  BY <1>2, EndedLocks DEF Commit
<1>3. ASSUME UNCHANGED <<pc, setup, removal>>
      PROVE  LocksInOrder'
  BY <1>3 DEF setup, removal, LocksInOrder, LocksOf, InSetup, UsesLog
<1>4. ASSUME NEW t \in Tables, NEW k \in Keys, NEW j \in Keys,
             ClientStep(t, k) \/ ClientUpdateKey(t, k, j)
      PROVE  UNCHANGED <<pc, setup, removal>>
  BY <1>4 DEF ClientStep, ClientInsert, ClientUpdate, ClientDelete, ClientUpdateKey
<1>5. ASSUME NEW t \in Tables, CreateTable(t)
      PROVE  UNCHANGED <<pc, setup, removal>>
  BY <1>5 DEF CreateTable
<1>6. CASE UNCHANGED vars
  BY <1>3, <1>6 DEF vars
<1> QED
  BY <1>1, <1>2, <1>3, <1>4, <1>5, <1>6, BackfillLocks, CreateTriggerLocks,
     ServerLocks DEF Next, InTransaction

\* A finite set of natural numbers has a greatest one: the one with the fewest
\* above it.
LEMMA Greatest ==
    ASSUME NEW S \in SUBSET Nat, IsFiniteSet(S), S # {}
    PROVE  \E n \in S : \A m \in S : m <= n
<1> DEFINE Above(n) == {m \in S : n < m}
           T == {Above(n) : n \in S}
           R == StrictSubsetOrdering(S)
<1>1. IsWellFoundedOn(R, SUBSET S)
  BY FS_StrictSubsetOrderingWellFounded, FS_FiniteSubsetsOfFinite
<1>2. T \subseteq SUBSET S /\ T # {}
  OBVIOUS
<1>3. PICK x \in T : \A y \in T : ~ (<<y, x>> \in R)
  <2> HIDE DEF T, R
  <2> QED BY <1>1, <1>2, WFMin, Zenon
<1>4. PICK n \in S : x = Above(n)
  BY <1>3
<1>5. ASSUME NEW m \in S, n < m
      PROVE  FALSE
  <2>1. Above(m) \subseteq Above(n)
    <3>1. \A i \in S : i \in Nat
      OBVIOUS
    <3>2. \A i \in S : m < i => n < i
      BY <1>5, <3>1
    <3> QED BY <3>2
  <2>2. m \in Above(n) /\ m \notin Above(m)
    BY <1>5
  <2>3. <<Above(m), Above(n)>> \in R
    <3>1. Above(m) \in SUBSET S /\ Above(n) \in SUBSET S
      OBVIOUS
    <3>2. Above(m) # Above(n)
      BY <2>2
    <3> HIDE DEF Above
    <3> QED BY <2>1, <3>1, <3>2 DEF StrictSubsetOrdering
  <2>4. Above(m) \in T
    OBVIOUS
  <2> QED BY <1>3, <1>4, <2>3, <2>4
<1> QED BY <1>5

\* The tables that servers of D at the given step wait for have a last one.
LEMMA LastAwaited ==
    ASSUME TypeOK, NEW D \in SUBSET Servers, NEW step,
           NEW s \in D, NEW t \in Tables, pc[s] = step, NextTable(s, t)
    PROVE  \E r \in D, u \in Tables :
              /\ pc[r] = step /\ NextTable(r, u)
              /\ \A q \in D, v \in Tables :
                    pc[q] = step /\ NextTable(q, v) => v <= u
<1> DEFINE N == {u \in Tables : \E r \in D : pc[r] = step /\ NextTable(r, u)}
<1>1. N \in SUBSET Nat /\ IsFiniteSet(N) /\ N # {}
  <2>1. N \in SUBSET Tables /\ t \in N
    OBVIOUS
  <2>2. IsFiniteSet(Tables) /\ Tables \subseteq Nat
    BY TablesAssumption
  <2> HIDE DEF N
  <2> QED BY <2>1, <2>2, FS_Subset
<1>2. PICK u \in N : \A v \in N : v <= u
  <2> HIDE DEF N
  <2> QED BY <1>1, Greatest
<1> QED BY <1>2

\* Who holds up another call of new() is further than it is.
LEMMA BlockersAreAhead ==
    ASSUME TypeOK, LocksInOrder, NEW s \in Servers, NEW r \in Blockers(s),
           pc[s] # "drop", pc[r] # "drop"
    PROVE  \/ pc[s] = "down" /\ InSetup(r)
           \/ \E t \in Tables : NextTable(s, t) /\
                 \/ pc[s] = "backfill" /\ pc[r] = "triggers"
                 \/ /\ pc[s] \in {"backfill", "triggers"} /\ pc[r] = pc[s]
                    /\ \A u \in Tables : NextTable(r, u) => t < u
<1>1. r \in Servers /\ LocksOf(r)
  BY DEF Blockers, Others, LocksInOrder
<1>2. Stripped(r) = {} /\ dropped[r] = {}
  BY <1>1 DEF LocksOf, Stripped
<1>3. CASE pc[s] = "down"
  BY <1>1, <1>3 DEF Blockers, LocksOf
<1>4. CASE pc[s] = "backfill"
  <2>1. PICK t \in Tables : NextTable(s, t) /\ HoldsUpBackfill(r, t)
    BY <1>4 DEF Blockers
  <2>2. PICK k \in rows[t] : <<t, RecordOf[k]>> \in pending[r]
    BY <1>2, <2>1 DEF HoldsUpBackfill
  <2>3. UsesLog(r)
    BY <1>1, <2>2 DEF LocksOf
  <2>4. pc[r] = "backfill" => \A u \in todo[r] : t < u
    BY <1>1, <2>2 DEF LocksOf
  <2> QED BY <1>4, <2>1, <2>3, <2>4 DEF UsesLog, NextTable
<1>5. CASE pc[s] = "triggers"
  <2>1. PICK t \in Tables : NextTable(s, t) /\ HoldsUpTrigger(r, t)
    BY <1>5 DEF Blockers
  <2>2. t \in made[r]
    BY <1>1, <1>2, <2>1 DEF HoldsUpTrigger, LocksOf
  <2>3. pc[r] = "triggers" /\ \A u \in todo[r] : t < u
    BY <1>1, <2>2 DEF LocksOf
  <2> QED BY <1>5, <2>1, <2>3 DEF NextTable
<1> QED BY <1>3, <1>4, <1>5 DEF Blockers

LEMMA LocksExcludeDeadlock ==
    ASSUME TypeOK, LocksInOrder
    PROVE  SetupsDoNotDeadlock
<1> SUFFICES ASSUME NEW D \in SUBSET Servers, Deadlocked(D),
                    \A s \in D : pc[s] # "drop"
             PROVE  FALSE
  BY DEF SetupsDoNotDeadlock
<1>1. \A s \in D : \E r \in D : r \in Blockers(s)
  BY DEF Deadlocked
<1>2. \A s, r \in D : r \in Blockers(s) =>
         \/ pc[s] = "down" /\ InSetup(r)
         \/ \E t \in Tables : NextTable(s, t) /\
               \/ pc[s] = "backfill" /\ pc[r] = "triggers"
               \/ /\ pc[s] \in {"backfill", "triggers"} /\ pc[r] = pc[s]
                  /\ \A u \in Tables : NextTable(r, u) => t < u
  BY BlockersAreAhead
<1>3. \A s \in D : pc[s] = "down" \/
         \E t \in Tables : NextTable(s, t) /\ pc[s] \in {"backfill", "triggers"}
  BY <1>1, <1>2
<1>4. \A s \in D : pc[s] # "triggers"
  <2> SUFFICES ASSUME NEW s \in D, pc[s] = "triggers"
               PROVE  FALSE
    OBVIOUS
  <2>1. PICK t \in Tables : NextTable(s, t)
    BY <1>3
  <2>2. PICK q \in D, u \in Tables :
           /\ pc[q] = "triggers" /\ NextTable(q, u)
           /\ \A p \in D, v \in Tables :
                 pc[p] = "triggers" /\ NextTable(p, v) => v <= u
    BY <2>1, LastAwaited
  <2>3. PICK r \in D : r \in Blockers(q)
    BY <1>1
  <2>4. PICK t2 \in Tables : NextTable(q, t2) /\ pc[r] = "triggers" /\
           \A v \in Tables : NextTable(r, v) => t2 < v
    BY <1>2, <2>2, <2>3
  <2>5. PICK v \in Tables : NextTable(r, v)
    BY <1>3, <2>4
  <2>6. t2 = u /\ u \in Nat /\ v \in Nat
    BY <2>2, <2>4, TablesAssumption DEF NextTable
  <2> QED BY <2>2, <2>4, <2>5, <2>6
<1>5. \A s \in D : pc[s] # "backfill"
  <2> SUFFICES ASSUME NEW s \in D, pc[s] = "backfill"
               PROVE  FALSE
    OBVIOUS
  <2>1. PICK t \in Tables : NextTable(s, t)
    BY <1>3
  <2>2. PICK q \in D, u \in Tables :
           /\ pc[q] = "backfill" /\ NextTable(q, u)
           /\ \A p \in D, v \in Tables :
                 pc[p] = "backfill" /\ NextTable(p, v) => v <= u
    BY <2>1, LastAwaited
  <2>3. PICK r \in D : r \in Blockers(q)
    BY <1>1
  <2>4. PICK t2 \in Tables : NextTable(q, t2) /\ pc[r] = "backfill" /\
           \A v \in Tables : NextTable(r, v) => t2 < v
    BY <1>2, <1>4, <2>2, <2>3
  <2>5. PICK v \in Tables : NextTable(r, v)
    BY <1>3, <2>4
  <2>6. t2 = u /\ u \in Nat /\ v \in Nat
    BY <2>2, <2>4, TablesAssumption DEF NextTable
  <2> QED BY <2>2, <2>4, <2>5, <2>6
<1>6. PICK s \in D : TRUE
  BY DEF Deadlocked
<1>7. PICK r \in D : r \in Blockers(s)
  BY <1>1
<1>8. InSetup(r)
  BY <1>2, <1>3, <1>4, <1>5, <1>7
<1> QED BY <1>3, <1>4, <1>5, <1>8 DEF InSetup

\* However many servers start at once, their calls of new() do not wait for
\* each other in a circle, as long as no two tables share a trigger function:
\* a call only ever waits for one that is ahead of it.
THEOREM SetupsKeepOrder == OwnFunctions => (Spec => []SetupsDoNotDeadlock)
<1> SUFFICES ASSUME OwnFunctions
             PROVE  Spec => []SetupsDoNotDeadlock
  OBVIOUS
<1>1. Init => LocksInOrder
  BY NamesAreTyped DEF Init, LocksInOrder, LocksOf
<1>2. TypeOK /\ LocksInOrder /\ [Next]_vars => LocksInOrder'
  BY LocksStep
<1>3. TypeOK /\ LocksInOrder => SetupsDoNotDeadlock
  BY LocksExcludeDeadlock
<1> QED BY <1>1, <1>2, <1>3, TypeCorrect, PTL DEF Spec
=============================================================================
