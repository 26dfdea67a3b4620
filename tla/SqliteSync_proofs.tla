------------------------- MODULE SqliteSync_proofs -------------------------
(***************************************************************************)
(* Proofs about the SQLite side, module SqliteSync, for any handles,       *)
(* tables, keys and schemas, torn ones included.                           *)
(***************************************************************************)
EXTENDS SqliteSync, FiniteSetTheorems, TLAPS

-----------------------------------------------------------------------------
(* The inductive invariant: the handles.                                   *)

\* A handle that opens a database is alone with it.
OpensAlone == \A h \in Handles : pc[h] \in Opening => Last(h)

\* Files, and what the handles see, exist as long as there are handles.
UsersHaveFiles ==
    /\ file <=> ~ Idle
    /\ Idle => db = None
    /\ ~ Idle => db \in Content /\ schema \in Served

\* Once a handle reads the file, the WAL is gone and nobody writes any more.
ReadersAreLast ==
    \A h \in Handles :
        /\ pc[h] \in {"shut", "read"} => pool = "closed"
        /\ pc[h] = "read" =>
              /\ flushed
              /\ ~ sidecars
              /\ \A g \in Handles : pc[g] # "commit"

-----------------------------------------------------------------------------
(* The inductive invariant: the content.                                   *)

Honest(c) == c.trust # "none" => c.hash # None /\ c.tables = Wanted(c.hash)

IsLogged(c, n, k) ==
    c.log # None /\ c.log[<<n, k>>] # None /\ c.log[<<n, k>>].op # "D"

\* What is true of a database at any time.
Sound(c) ==
    /\ \A n \in Names : \A x, y \in KeyColumns(c.tables[n]) : x = y
    /\ \A n \in Names : c.tables[n] = {} => c.rows[n] = {}
    /\ c.trust = "full" => \A n \in Names : \A k \in c.rows[n] : IsLogged(c, n, k)

\* ... of one that has been migrated to s.
Migrated(c, s) ==
    /\ c.hash = s.hash
    /\ Honest(c)
    /\ c.trust = "full" => ~ Torn(s)
    /\ c.log # None

\* The triggers of c are some of those for s.
OwnTriggers(c, s) ==
    \A n \in Names : c.triggers[n] # None =>
        Shapes[s.shape][n] # {} /\ c.triggers[n] = KeyOf(Shapes[s.shape][n])

\* ... are all of those.
AllTriggers(c, s) ==
    \A n \in Names : Shapes[s.shape][n] # {} =>
        c.triggers[n] = KeyOf(Shapes[s.shape][n])

\* The device has what an export has given it, and what it wrote itself.
DeviceIsGood ==
    device # None =>
        /\ Sound(device)
        /\ Honest(device)
        /\ device.log # None
        /\ device.trust = "full" => \A n \in Names : device.tables[n] # {} =>
              device.triggers[n] = KeyOf(device.tables[n])

\* The log is that of the device, wherever it is.
LogIsCarried ==
    ~ Idle => IF device = None THEN db.log \in {None, EmptyLog}
                               ELSE db.log = device.log

\* Steps of a handle whose database is open.
Opened == Exporting \cup {"live", "drain"}

Survived ==
    device # None /\ ~ failed =>
        \A n \in Names : Wanted(schema.shape)[n] # {} /\ Compatible(n) =>
            db.rows[n] = device.rows[n]

\* Before the migration the database is the one that came from the device, if
\* there is one.
Unmigrated ==
    \A h \in Handles :
        /\ pc[h] = "connect" => db = IF device = None THEN Blank ELSE device
        /\ pc[h] \in {"optimize", "hash", "alter", "dropall"} =>
              device # None /\ db = device
        /\ pc[h] = "dropall" => failed

\* Tables are created in a database without any, or in one that has them all.
ToCreate ==
    /\ Honest(db) \/ \A n \in Names : db.tables[n] = {}
    /\ db.log = None => \A n \in Names : db.rows[n] = {}
    /\ device # None /\ ~ failed => db.rows = device.rows
    /\ device = None => \A n \in Names : db.triggers[n] = None

Creating == \A h \in Handles : pc[h] = "create" => ToCreate

\* From then on the schema and the rows are as they should be.
Serving ==
    \A h \in Handles : pc[h] \in Opened \cup {"untrigger"} =>
        /\ Migrated(db, schema)
        /\ Survived

\* Exports create the triggers, once for all clones.
TriggersAreOwn ==
    \A h \in Handles :
        /\ pc[h] \in Opened => OwnTriggers(db, schema)
        /\ pc[h] \in {"checkpoint", "shut", "read"} => AllTriggers(db, schema)

IInv ==
    /\ TypeOK
    /\ OpensAlone
    /\ UsersHaveFiles
    /\ ReadersAreLast
    /\ DeviceIsGood
    /\ ~ Idle => Sound(db)
    /\ LogIsCarried
    /\ Unmigrated
    /\ Creating
    /\ Serving
    /\ TriggersAreOwn

-----------------------------------------------------------------------------
(* Tables and their keys.                                                  *)

LEMMA ServedType ==
    ASSUME NEW s \in Served
    PROVE  s.shape \in Schemas /\ s.hash \in Schemas /\ s.hash # None
BY SchemasAssumption, ConstantsAssumption

LEMMA MadeType ==
    ASSUME NEW columns, columns \subseteq SchemaColumn
    PROVE  Made(columns) \subseteq Column
<1> SUFFICES ASSUME NEW c \in columns
             PROVE  [name |-> c.name, type |-> SqliteType(c.type), key |-> c.key]
                      \in Column
  BY DEF Made
<1>1. SqliteType(c.type) \in {"INTEGER", "REAL", "BLOB", "TEXT"}
  BY DEF SqliteType
<1> QED BY <1>1 DEF Column, SchemaColumn

LEMMA WantedType ==
    ASSUME NEW s \in Schemas
    PROVE  /\ Wanted(s) \in [Names -> SUBSET Column]
           /\ \A n \in Names : Wanted(s)[n] = Made(Shapes[s][n])
           /\ \A n \in Names : Wanted(s)[n] = {} <=> Shapes[s][n] = {}
<1>1. \A n \in Names : Made(Shapes[s][n]) \subseteq Column
  BY MadeType, ColumnsAssumption
<1>2. \A n \in Names : Made(Shapes[s][n]) = {} <=> Shapes[s][n] = {}
  BY DEF Made
<1> QED BY <1>1, <1>2 DEF Wanted

LEMMA MadeIsFinite ==
    ASSUME NEW s \in Schemas, NEW n \in Names
    PROVE  IsFiniteSet(Wanted(s)[n])
<1> DEFINE columns == Shapes[s][n]
           Make(c) == [name |-> c.name, type |-> SqliteType(c.type), key |-> c.key]
           f == [c \in columns |-> Make(c)]
<1>1. IsFiniteSet(columns)
  BY ColumnsAssumption
<1>2. Wanted(s)[n] = {Make(c) : c \in columns}
  BY WantedType DEF Made
<1> HIDE DEF columns, Make
<1>3. f \in Surjection(columns, Wanted(s)[n])
  BY <1>2 DEF Surjection
<1> QED BY <1>1, <1>3, FS_Surjection

\* CREATE TABLE refuses two key columns.
LEMMA CreatableHasOneKey ==
    ASSUME NEW s \in Schemas, NEW n \in Names, Creatable(Wanted(s)[n])
    PROVE  \A x, y \in KeyColumns(Wanted(s)[n]) : x = y
<1> DEFINE K == KeyColumns(Wanted(s)[n])
<1>1. IsFiniteSet(K)
  BY MadeIsFinite, FS_Subset DEF KeyColumns
<1>2. Cardinality(K) <= 1
  BY DEF Creatable
<1> HIDE DEF K
<1> SUFFICES ASSUME NEW x \in K, NEW y \in K, x # y
             PROVE  FALSE
  BY DEF K
<1>3. IsFiniteSet({x}) /\ Cardinality({x}) = 1
  BY FS_Singleton
<1>4. IsFiniteSet({x} \cup {y}) /\ Cardinality({x} \cup {y}) = 2
  BY SMTT(30), <1>3, FS_AddElement
<1>5. Cardinality({x} \cup {y}) <= Cardinality(K)
  BY <1>1, FS_Subset
<1>6. Cardinality(K) \in Nat
  BY <1>1, FS_CardinalityType
<1> QED BY <1>2, <1>4, <1>5, <1>6

LEMMA KeyOfType ==
    ASSUME NEW columns, columns \subseteq Column \/ columns \subseteq SchemaColumn
    PROVE  KeyOf(columns) \in STRING \cup {None}
<1>1. CASE KeyColumns(columns) = {}
  BY <1>1 DEF KeyOf
<1>2. CASE KeyColumns(columns) # {}
  <2>1. (CHOOSE c \in columns : c.key) \in columns
    BY <1>2 DEF KeyColumns
  <2> QED BY <1>2, <2>1 DEF KeyOf, Column, SchemaColumn
<1> QED BY <1>1, <1>2

\* Where a table has one key column, the trigger made from the schema is the
\* one for the table of the file.
LEMMA SameKey ==
    ASSUME NEW s \in Schemas, NEW n \in Names,
           \A x, y \in KeyColumns(Wanted(s)[n]) : x = y
    PROVE  KeyOf(Wanted(s)[n]) = KeyOf(Shapes[s][n])
<1> DEFINE columns == Shapes[s][n]
           Make(c) == [name |-> c.name, type |-> SqliteType(c.type), key |-> c.key]
           wanted == Wanted(s)[n]
<1>1. wanted = {Make(c) : c \in columns}
  BY WantedType DEF Made
<1>2. \A c \in columns : Make(c).name = c.name /\ Make(c).key = c.key
  OBVIOUS
<1> HIDE DEF columns, Make
<1>3. CASE KeyColumns(columns) = {}
  <2>1. KeyColumns(wanted) = {}
    BY <1>1, <1>2, <1>3 DEF KeyColumns
  <2> QED BY <1>3, <2>1 DEF KeyOf, columns
<1>4. CASE KeyColumns(columns) # {}
  <2> DEFINE c == CHOOSE x \in columns : x.key
             d == CHOOSE x \in wanted : x.key
  <2>1. c \in columns /\ c.key
    BY <1>4 DEF KeyColumns
  <2>2. Make(c) \in KeyColumns(wanted)
    BY <1>1, <1>2, <2>1 DEF KeyColumns
  <2>3. d \in KeyColumns(wanted)
    BY <2>2 DEF KeyColumns
  <2>4. d = Make(c)
    BY <2>2, <2>3
  <2>5. KeyOf(columns) = c.name
    BY <1>4 DEF KeyOf
  <2>6. KeyOf(wanted) = d.name
    BY <2>2 DEF KeyOf
  <2> QED BY <1>2, <2>1, <2>4, <2>5, <2>6 DEF columns
<1> QED BY <1>3, <1>4

-----------------------------------------------------------------------------
(* What the transactions make of a database.                               *)

LEMMA BlankIsSound ==
    /\ Blank \in Content /\ Sound(Blank) /\ Blank.log = None
    /\ \A n \in Names : /\ Blank.tables[n] = {} /\ Blank.rows[n] = {}
                         /\ Blank.triggers[n] = None
<1>1. /\ Blank.tables = [n \in Names |-> {}] /\ Blank.rows = [n \in Names |-> {}]
      /\ Blank.log = None /\ Blank.triggers = [n \in Names |-> None]
  BY DEF Blank
<1>2. Blank \in Content
  BY DEF Blank, Content
<1>3. Sound(Blank)
  BY <1>1 DEF Sound, KeyColumns
<1> QED BY <1>1, <1>2, <1>3

LEMMA EmptyLogType ==
    EmptyLog \in [Records -> LogEntry \cup {None}] /\ EmptyLog # None
BY NoneAssumption DEF EmptyLog

\* A table that is kept has the key column it had.
LEMMA KeptHasOneKey ==
    ASSUME NEW c \in Content, Sound(c), NEW s \in Schemas,
           NEW n \in Kept(c, Wanted(s))
    PROVE  \A x, y \in KeyColumns(Wanted(s)[n]) : x = y
<1> DEFINE live == c.tables[n]
           want == Wanted(s)[n]
<1>1. n \in Names /\ ~ Rebuild(live, want)
  BY DEF Kept
<1>2. live \subseteq Column /\ want \subseteq Column
  BY <1>1, WantedType DEF Content
<1>3. \A x, y \in KeyColumns(live) : x = y
  BY <1>1 DEF Sound
<1> HIDE DEF live, want
<1>4. ASSUME NEW w \in KeyColumns(want)
      PROVE  w \in KeyColumns(live)
  <2>1. PICK l \in live : w.name = l.name
    BY <1>1, <1>4 DEF Rebuild
  <2>2. l.type = w.type /\ l.key = w.key
    BY <1>1, <1>4, <2>1 DEF Rebuild, KeyColumns
  <2>3. w \in Column /\ l \in Column
    BY <1>2, <1>4 DEF KeyColumns
  <2>4. w = l
    BY <2>1, <2>2, <2>3 DEF Column
  <2> QED BY <1>4, <2>4 DEF KeyColumns
<1> QED BY <1>3, <1>4 DEF want

LEMMA TrustType ==
    ASSUME NEW c, NEW s, NEW sure \in BOOLEAN
    PROVE  Trust(c, s, sure) \in {"full", "hash", "none"}
BY DEF Trust

\* The migration gives the tables of the schema, keeps the log, and the rows
\* of the tables it does not rebuild.
LEMMA AlteredIsMigrated ==
    ASSUME NEW c \in Content, Sound(c), c.log # None, NEW s \in Served,
           \A n \in Names \ Kept(c, Wanted(s.shape)) :
               Creatable(Wanted(s.shape)[n])
    PROVE  LET a == Altered(c, s)
           IN  /\ a \in Content
               /\ Sound(a)
               /\ Migrated(a, s)
               /\ a.log = c.log
               /\ \A n \in Names : a.rows[n] =
                     IF n \in Kept(c, Wanted(s.shape)) THEN c.rows[n] ELSE {}
<1> DEFINE a == Altered(c, s)
           want == Wanted(s.shape)
           kept == Kept(c, want)
<1>1. /\ a.tables = want
      /\ a.rows = [n \in Names |-> IF n \in kept THEN c.rows[n] ELSE {}]
      /\ a.log = c.log
      /\ a.hash = s.hash
      /\ a.triggers = [n \in Names |-> IF n \in kept THEN c.triggers[n] ELSE None]
      /\ a.trust = Trust(c, s, TRUE)
  BY DEF Altered, Content
<1>2. s.shape \in Schemas /\ s.hash \in Schemas /\ s.hash # None
  BY ServedType
<1>3. want \in [Names -> SUBSET Column] /\ kept \subseteq Names
  BY <1>2, WantedType DEF Kept
<1>4. a \in Content
  BY <1>2, <1>3, TrustType DEF Altered, Content
<1>5. \A n \in Names : \A x, y \in KeyColumns(want[n]) : x = y
  BY <1>2, KeptHasOneKey, CreatableHasOneKey
<1>6. \A n \in Names : want[n] = {} => n \notin kept
  BY DEF Kept
<1>7. c.trust = "full" => \A n \in Names : \A k \in c.rows[n] : IsLogged(c, n, k)
  BY DEF Sound
<1>8. a.trust = "full" => c.trust = "full"
  BY <1>1 DEF Trust
<1>9. a.trust # "none" => ~ Torn(s)
  BY <1>1 DEF Trust
<1> HIDE DEF a, want, kept
<1>10. Sound(a)
  <2>1. a.trust = "full" => \A n \in Names : \A k \in a.rows[n] : IsLogged(a, n, k)
    <3> SUFFICES ASSUME a.trust = "full", NEW n \in Names, NEW k \in a.rows[n]
                 PROVE  IsLogged(a, n, k)
      OBVIOUS
    <3>1. k \in c.rows[n]
      BY <1>1
    <3>2. IsLogged(c, n, k)
      BY <1>7, <1>8, <3>1
    <3> QED BY <1>1, <3>2 DEF IsLogged
  <2> QED BY ZenonT(60), <1>1, <1>5, <1>6, <2>1 DEF Sound
<1>11. Migrated(a, s)
  BY <1>1, <1>2, <1>9 DEF Migrated, Honest, Torn, want
<1> QED BY <1>1, <1>3, <1>4, <1>10, <1>11 DEF a, want, kept

LEMMA DroppedIsEmpty ==
    ASSUME NEW c \in Content
    PROVE  LET d == Dropped(c)
           IN  /\ d \in Content
               /\ Sound(d)
               /\ d.log = c.log
               /\ \A n \in Names : d.tables[n] = {} /\ d.rows[n] = {}
<1> DEFINE d == Dropped(c)
<1>1. /\ d.tables = [n \in Names |-> {}]
      /\ d.rows = [n \in Names |-> {}]
      /\ d.log = c.log
  BY DEF Dropped, Blank
<1>2. d \in Content
  BY DEF Dropped, Blank, Content
<1> HIDE DEF d
<1>3. Sound(d)
  BY <1>1 DEF Sound, KeyColumns
<1> QED BY <1>1, <1>2, <1>3 DEF d

\* create_tables completes a database; what it leaves as it is is either of
\* the same schema or not trusted from then on.
LEMMA CreatedIsMigrated ==
    ASSUME NEW c \in Content, Sound(c), NEW s \in Served,
           Honest(c) \/ \A n \in Names : c.tables[n] = {},
           c.log = None => \A n \in Names : c.rows[n] = {},
           \A n \in Names : c.tables[n] = {} => Creatable(Wanted(s.shape)[n])
    PROVE  LET a == Created(c, s)
           IN  /\ a \in Content
               /\ Sound(a)
               /\ Migrated(a, s)
               /\ a.log = IF c.log = None THEN EmptyLog ELSE c.log
               /\ a.rows = c.rows
               /\ a.triggers = c.triggers
<1> DEFINE a == Created(c, s)
           want == Wanted(s.shape)
           sure == \/ \A n \in Names : c.tables[n] = {}
                   \/ c.hash = s.hash /\ c.trust # "none"
<1>1. /\ a.tables = [n \in Names |-> IF c.tables[n] = {} THEN want[n]
                                                        ELSE c.tables[n]]
      /\ a.rows = c.rows
      /\ a.log = IF c.log = None THEN EmptyLog ELSE c.log
      /\ a.hash = s.hash
      /\ a.triggers = c.triggers
      /\ a.trust = Trust(c, s, sure)
  BY DEF Created, Content
<1>2. s.shape \in Schemas /\ s.hash \in Schemas /\ s.hash # None
  BY ServedType
<1>3. want \in [Names -> SUBSET Column]
  BY <1>2, WantedType
<1>4. a \in Content
  BY <1>2, <1>3, TrustType, EmptyLogType DEF Created, Content
<1>5. \A n \in Names : \A x, y \in KeyColumns(a.tables[n]) : x = y
  <2> SUFFICES ASSUME NEW n \in Names
               PROVE  \A x, y \in KeyColumns(a.tables[n]) : x = y
    OBVIOUS
  <2>1. CASE c.tables[n] = {}
    BY <1>1, <1>2, <2>1, CreatableHasOneKey
  <2>2. CASE c.tables[n] # {}
    BY <1>1, <2>2 DEF Sound
  <2> QED BY <2>1, <2>2
<1>6. a.trust = "full" => c.trust = "full"
  BY <1>1 DEF Trust
<1>7. a.trust # "none" => sure /\ ~ Torn(s)
  BY <1>1 DEF Trust
<1> HIDE DEF a
<1>8. Sound(a)
  <2>1. \A n \in Names : a.tables[n] = {} => a.rows[n] = {}
    BY <1>1 DEF Sound
  <2>2. a.trust = "full" => \A n \in Names : \A k \in a.rows[n] : IsLogged(a, n, k)
    <3> SUFFICES ASSUME a.trust = "full", NEW n \in Names, NEW k \in a.rows[n]
                 PROVE  IsLogged(a, n, k)
      OBVIOUS
    <3>1. k \in c.rows[n] /\ a.log = c.log
      BY <1>1
    <3>2. IsLogged(c, n, k)
      BY <1>6, <3>1 DEF Sound
    <3> QED BY <3>1, <3>2 DEF IsLogged
  <2> QED BY <1>5, <2>1, <2>2 DEF Sound
<1>9. Honest(a)
  <2> SUFFICES ASSUME a.trust # "none"
               PROVE  a.tables = Wanted(a.hash)
    BY <1>1, <1>2 DEF Honest
  <2>1. a.hash = s.shape
    BY <1>1, <1>7 DEF Torn
  <2>2. \A n \in Names : c.tables[n] # {} => c.tables[n] = want[n]
    BY <1>7, <2>1, <1>1 DEF Honest
  <2>3. \A n \in Names : a.tables[n] = want[n]
    BY <1>1, <2>2
  <2> QED BY <1>1, <1>3, <2>1, <2>3
<1>10. Migrated(a, s)
  BY <1>1, <1>2, <1>7, <1>9, EmptyLogType DEF Migrated
<1> QED BY <1>1, <1>4, <1>8, <1>10 DEF a

\* setup_triggers adds the triggers that are missing, and changes no more.
LEMMA TriggeredHasAll ==
    ASSUME NEW c \in Content, NEW s \in Served, Sound(c), OwnTriggers(c, s),
           Migrated(c, s)
    PROVE  LET a == Triggered(c, s)
           IN  /\ a \in Content
               /\ Sound(a)
               /\ Migrated(a, s)
               /\ OwnTriggers(a, s)
               /\ AllTriggers(a, s)
               /\ a.log = c.log
               /\ a.rows = c.rows
<1> DEFINE a == Triggered(c, s)
           new == [n \in Names |->
                      IF Shapes[s.shape][n] # {} /\ c.triggers[n] = None
                      THEN KeyOf(Shapes[s.shape][n]) ELSE c.triggers[n]]
<1>1. s.shape \in Schemas
  BY ServedType
<1>2. \A n \in Names : KeyOf(Shapes[s.shape][n]) \in STRING \cup {None}
  BY <1>1, ColumnsAssumption, KeyOfType
<1>3. c.triggers \in [Names -> STRING \cup {None}]
  BY DEF Content
<1>4. new \in [Names -> STRING \cup {None}]
  BY <1>2, <1>3
<1>5. a = [c EXCEPT !.triggers = new]
  BY DEF Triggered
<1> HIDE DEF a, new
<1>6. a \in Content
  BY <1>4, <1>5 DEF Content
<1>7. /\ a.tables = c.tables /\ a.rows = c.rows /\ a.log = c.log
      /\ a.hash = c.hash /\ a.trust = c.trust /\ a.triggers = new
  BY <1>5 DEF Content
<1>8. Sound(a)
  BY <1>7 DEF Sound, IsLogged
<1>9. Migrated(a, s)
  BY <1>7 DEF Migrated, Honest
<1>10. OwnTriggers(a, s) /\ AllTriggers(a, s)
  BY <1>7 DEF OwnTriggers, AllTriggers, new
<1> QED BY <1>6, <1>7, <1>8, <1>9, <1>10 DEF a

LEMMA UntriggeredHasNone ==
    ASSUME NEW c \in Content, NEW s \in Served, Sound(c), Migrated(c, s)
    PROVE  LET a == Untriggered(c)
           IN  /\ a \in Content
               /\ Sound(a)
               /\ Migrated(a, s)
               /\ OwnTriggers(a, s)
               /\ a.log = c.log
               /\ a.rows = c.rows
<1> DEFINE a == Untriggered(c)
           none == [n \in Names |-> None]
<1>1. a = [c EXCEPT !.triggers = none] /\ none \in [Names -> STRING \cup {None}]
  BY DEF Untriggered
<1>2. \A n \in Names : none[n] = None
  OBVIOUS
<1> HIDE DEF a, none
<1>3. a \in Content
  BY <1>1 DEF Content
<1>4. /\ a.tables = c.tables /\ a.rows = c.rows /\ a.log = c.log
      /\ a.hash = c.hash /\ a.trust = c.trust /\ a.triggers = none
  BY <1>1 DEF Content
<1>5. Sound(a)
  BY <1>4 DEF Sound, IsLogged
<1>6. Migrated(a, s)
  BY <1>4 DEF Migrated, Honest
<1>7. OwnTriggers(a, s)
  BY <1>2, <1>4 DEF OwnTriggers
<1> QED BY <1>3, <1>4, <1>5, <1>6, <1>7 DEF a

\* A database that is taken over without a migration.
LEMMA TakenOverIsMigrated ==
    ASSUME NEW c \in Content, NEW s \in Served, Sound(c), Honest(c),
           c.log # None, c.hash = s.hash,
           NEW t, t = IF Torn(s) /\ c.trust = "full" THEN "hash" ELSE c.trust
    PROVE  LET a == [c EXCEPT !.trust = t]
           IN  /\ a \in Content
               /\ Sound(a)
               /\ Migrated(a, s)
               /\ a.log = c.log
               /\ a.rows = c.rows
<1> DEFINE a == [c EXCEPT !.trust = t]
<1>1. t \in {"full", "hash", "none"}
  BY DEF Content
<1>2. a \in Content
  BY <1>1 DEF Content
<1>3. /\ a.tables = c.tables /\ a.rows = c.rows /\ a.log = c.log
      /\ a.hash = c.hash /\ a.trust = t
  BY DEF Content
<1> HIDE DEF a
<1>4. Sound(a)
  BY <1>3 DEF Sound, IsLogged
<1>5. Migrated(a, s)
  BY <1>3 DEF Migrated, Honest
<1> QED BY <1>2, <1>3, <1>4, <1>5 DEF a

\* A transaction of the device, recorded by its triggers.
LEMMA WrittenIsGood ==
    ASSUME TypeOK, DeviceIsGood, device # None, NEW n \in Names,
           KeyOf(device.tables[n]) # None,
           device.triggers[n] # None => device.log # None,
           NEW op \in {"I", "U", "D"}, NEW old \in Keys, NEW new \in Keys,
           NEW rows \in SUBSET Keys,
           \A k \in rows : k \in device.rows[n] \/ k = new,
           op = "D" => new = old /\ old \notin rows,
           device' = [device EXCEPT !.rows[n] = rows,
                                    !.log = Touch(n, op, old, new)]
    PROVE  device' \in Content /\ device' # None /\ DeviceIsGood'
<1> DEFINE log == Touch(n, op, old, new)
           r == <<n, Recorded(op, old, new)>>
           entry == Touched(device.log[r], op)
           rowsOf == [device.rows EXCEPT ![n] = rows]
<1>1. device \in Content
  BY DEF TypeOK
<1>2. /\ device'.tables = device.tables
      /\ device'.rows = rowsOf
      /\ device'.log = log
      /\ device'.hash = device.hash
      /\ device'.triggers = device.triggers
      /\ device'.trust = device.trust
  BY <1>1 DEF Content
<1>3. /\ device.rows \in [Names -> SUBSET Keys]
      /\ device.log \in [Records -> LogEntry \cup {None}]
      /\ device.log # None
  BY <1>1 DEF Content, DeviceIsGood
<1>4. r \in Records /\ device.log[r] \in LogEntry \cup {None}
  BY <1>3 DEF Recorded, Records
<1>5. entry \in LogEntry /\ entry.op = op /\ entry # None
  BY <1>4, NoneAssumption DEF Touched, LogEntry
<1>6. log = IF device.triggers[n] = None THEN device.log
            ELSE [device.log EXCEPT ![r] = entry]
  BY DEF Touch
<1> HIDE DEF log, entry
<1>7. log \in [Records -> LogEntry \cup {None}] /\ log # None
  BY <1>3, <1>4, <1>5, <1>6, NoneAssumption
<1>8. rowsOf \in [Names -> SUBSET Keys]
  BY <1>3
<1>9. device' \in Content
  <2>1. device' = [device EXCEPT !.rows = rowsOf, !.log = log]
    BY DEF log
  <2> HIDE DEF rowsOf
  <2> QED BY <1>1, <1>7, <1>8, <2>1, Zenon DEF Content
<1>10. device' # None
  BY <1>9, NoneAssumption
<1>11. device.tables[n] # {}
  BY DEF KeyOf, KeyColumns
<1>12. device.trust = "full" => device.triggers[n] # None
  BY <1>11 DEF DeviceIsGood
<1>13. ASSUME device.trust = "full", NEW m \in Names, NEW k \in rowsOf[m]
       PROVE  IsLogged(device', m, k)
  <2>1. log = [device.log EXCEPT ![r] = entry]
    BY <1>6, <1>12, <1>13
  <2>2. k \in Keys /\ <<m, k>> \in Records
    BY <1>8, <1>13 DEF Records
  <2>3. CASE <<m, k>> = r
    <3>1. m = n /\ k = Recorded(op, old, new) /\ k \in rows
      BY <1>3, <1>13, <2>3
    <3>2. op # "D"
      BY <3>1 DEF Recorded
    <3> QED BY <1>2, <1>3, <1>4, <1>5, <1>7, <2>1, <2>3, <3>2 DEF IsLogged
  <2>4. CASE <<m, k>> # r
    <3>1. k \in device.rows[m]
      BY <1>3, <1>13, <2>4 DEF Recorded
    <3>2. IsLogged(device, m, k)
      BY <1>13, <3>1 DEF DeviceIsGood, Sound
    <3>3. log[<<m, k>>] = device.log[<<m, k>>]
      BY <1>3, <2>1, <2>2, <2>4
    <3> QED BY <1>2, <1>7, <3>2, <3>3 DEF IsLogged
  <2> QED BY <2>3, <2>4
<1>14. Sound(device')
  <2>1. \A m \in Names : device.tables[m] = {} => rowsOf[m] = {}
    BY <1>3, <1>11 DEF DeviceIsGood, Sound
  <2> QED BY <1>2, <1>13, <2>1 DEF DeviceIsGood, Sound
<1>15. DeviceIsGood'
  BY <1>2, <1>7, <1>14 DEF DeviceIsGood, Honest
<1> QED BY <1>9, <1>10, <1>15

\* All triggers of the schema are triggers on the keys of the tables.
LEMMA ExportHasTriggers ==
    ASSUME NEW c, NEW s \in Served, Sound(c), Migrated(c, s), AllTriggers(c, s)
    PROVE  c.trust = "full" => \A n \in Names : c.tables[n] # {} =>
               c.triggers[n] = KeyOf(c.tables[n])
<1> SUFFICES ASSUME c.trust = "full", NEW n \in Names, c.tables[n] # {}
             PROVE  c.triggers[n] = KeyOf(c.tables[n])
  OBVIOUS
<1>1. s.shape \in Schemas
  BY ServedType
<1>2. c.tables = Wanted(s.shape)
  BY DEF Migrated, Honest, Torn
<1>3. Shapes[s.shape][n] # {}
  BY <1>1, <1>2, WantedType
<1>4. \A x, y \in KeyColumns(Wanted(s.shape)[n]) : x = y
  BY <1>2 DEF Sound
<1> QED BY <1>1, <1>2, <1>3, <1>4, SameKey DEF AllTriggers

-----------------------------------------------------------------------------
(* The steps keep the invariant.                                           *)

\* A handle goes: with the files when it is the last one, without a trace for
\* the others when it is not.  An export may have reached the device.
LEMMA GoingKeeps ==
    ASSUME IInv, NEW h \in Handles, pc[h] # "free", UNCHANGED changes,
           LetGo(h) \/ (ReleaseFile(h) /\ pc[h] = "read"),
           device' = device \/ (device' = db /\ pc[h] = "read")
    PROVE  IInv'
<1>1. pc' = [pc EXCEPT ![h] = "free"] /\ pc \in [Handles -> Steps]
  BY DEF LetGo, ReleaseFile, Goto, IInv, TypeOK
<1>2. pc' \in [Handles -> Steps] /\ pc'[h] = "free"
      /\ \A g \in Handles : g # h => pc'[g] = pc[g]
  BY <1>1 DEF Steps
<1>3. db \in Content /\ schema \in Served /\ ~ Idle
  BY DEF IInv, UsersHaveFiles, Idle
<1>4. device' \in Content \cup {None}
  BY <1>3 DEF IInv, TypeOK
<1>5. DeviceIsGood'
  <2>1. CASE device' = device
    BY <2>1 DEF IInv, DeviceIsGood
  <2>2. CASE device' = db /\ pc[h] = "read"
    <3>1. Sound(db) /\ Migrated(db, schema) /\ AllTriggers(db, schema)
      BY <1>3, <2>2 DEF IInv, Serving, TriggersAreOwn, Opened, Exporting
    <3> QED BY <1>3, <2>2, <3>1, ExportHasTriggers DEF DeviceIsGood, Migrated
  <2> QED BY <2>1, <2>2
<1>6. CASE Last(h)
  <2>1. Gone /\ sidecars' = FALSE
    BY <1>6 DEF LetGo, ReleaseFile, IInv, ReadersAreLast, TypeOK
  <2>2. \A g \in Handles : pc'[g] = "free"
    BY <1>2, <1>6 DEF Last
  <2>3. Idle'
    BY <2>2 DEF Idle
  <2>4. TypeOK'
    BY <1>2, <1>4, <2>1 DEF IInv, TypeOK, Gone
  <2>5. OpensAlone' /\ ReadersAreLast' /\ Unmigrated' /\ Creating' /\ Serving'
        /\ TriggersAreOwn'
    BY <2>2 DEF OpensAlone, ReadersAreLast, Unmigrated, Creating, Serving,
                TriggersAreOwn, Opening, Connecting, Opened, Exporting
  <2>6. UsersHaveFiles'
    BY <2>1, <2>3 DEF UsersHaveFiles, Gone
  <2> QED BY <1>5, <2>3, <2>4, <2>5, <2>6 DEF IInv, LogIsCarried
<1>7. CASE ~ Last(h)
  <2>1. UNCHANGED <<schema, db, flushed, file, sidecars, pool, failed>>
    BY <1>7 DEF LetGo, ReleaseFile
  <2>2. PICK g \in Handles : g # h /\ pc[g] # "free"
    BY <1>7 DEF Last
  <2>3. ~ Idle'
    BY <1>2, <2>2 DEF Idle
  <2>4. TypeOK'
    BY <1>2, <1>4, <2>1 DEF IInv, TypeOK
  <2>5. \A f \in Handles : pc[f] \notin Opening
    BY <2>2 DEF IInv, OpensAlone, Last, Opening, Connecting
  <2>6. \A f \in Handles : pc'[f] \in {pc[f], "free"}
    BY <1>2
  <2>7. OpensAlone' /\ Unmigrated' /\ Creating'
    BY <2>5, <2>6 DEF OpensAlone, Unmigrated, Creating, Opening, Connecting
  <2>8. UsersHaveFiles'
    BY <1>3, <2>1, <2>3 DEF IInv, UsersHaveFiles
  <2>9. ReadersAreLast'
    BY <2>1, <2>6 DEF IInv, ReadersAreLast
  <2>10. TriggersAreOwn'
    BY <2>1, <2>6 DEF IInv, TriggersAreOwn, Opened, Exporting
  <2>11. Serving'
    <3>1. CASE device' = device
      BY <2>1, <2>6, <3>1 DEF IInv, Serving, Survived, Compatible, Opened, Exporting
    <3>2. CASE device' = db
      BY <2>1, <2>6, <3>2 DEF IInv, Serving, Survived, Opened, Exporting
    <3> QED BY <3>1, <3>2
  <2>12. LogIsCarried'
    <3>1. CASE device' = device
      BY <1>3, <2>1, <3>1 DEF IInv, LogIsCarried
    <3>2. CASE device' = db
      BY <1>3, <2>1, <3>2, NoneAssumption DEF LogIsCarried
    <3> QED BY <3>1, <3>2
  <2> QED BY <1>3, <1>5, <2>1, <2>4, <2>7, <2>8, <2>9, <2>10, <2>11, <2>12
      DEF IInv
<1> QED BY <1>6, <1>7

\* A handle of an open database moves on, comes or goes, and leaves the
\* content alone.
LEMMA MovingKeeps ==
    ASSUME IInv, NEW h \in Handles, NEW step \in Opened \cup {"free"},
           Goto(h, step),
           UNCHANGED <<device, schema, db, file, failed, changes>>,
           {flushed', sidecars'} \subseteq BOOLEAN,
           pool' \in {"none", "open", "closed"},
           NEW g \in Handles, pc[g] \in Opened, ~ Idle',
           step \in {"checkpoint", "shut", "read"} => AllTriggers(db, schema),
           ReadersAreLast'
    PROVE  IInv'
<1>1. pc' = [pc EXCEPT ![h] = step] /\ pc \in [Handles -> Steps]
  BY DEF Goto, IInv, TypeOK
<1>2. pc' \in [Handles -> Steps] /\ pc'[h] = step
      /\ \A f \in Handles : f # h => pc'[f] = pc[f]
  BY <1>1 DEF Steps, InCall, Opened
<1>3. ~ Idle
  BY DEF Idle, Opened, Exporting
<1>4. \A f \in Handles : pc[f] \notin Opening
  BY DEF IInv, OpensAlone, Last, Opening, Connecting, Opened, Exporting
<1>5. \A f \in Handles : pc'[f] \notin Opening
  BY <1>2, <1>4 DEF Opening, Connecting, Opened, Exporting
<1>6. Migrated(db, schema) /\ Survived /\ OwnTriggers(db, schema)
  BY DEF IInv, Serving, TriggersAreOwn
<1>7. TypeOK'
  BY <1>2 DEF IInv, TypeOK
<1>8. OpensAlone' /\ Unmigrated' /\ Creating'
  BY <1>5 DEF OpensAlone, Unmigrated, Creating, Opening, Connecting
<1>9. UsersHaveFiles'
  BY <1>3 DEF IInv, UsersHaveFiles
<1>10. Serving'
  BY <1>6 DEF Serving, Survived, Compatible
<1>11. TriggersAreOwn'
  BY <1>2, <1>6 DEF IInv, TriggersAreOwn
<1>12. LogIsCarried' /\ Sound(db)' /\ DeviceIsGood'
  BY <1>3 DEF IInv, LogIsCarried, DeviceIsGood
<1> QED BY <1>7, <1>8, <1>9, <1>10, <1>11, <1>12 DEF IInv

\* new or from ends before there is an SqliteDatabase.
LEMMA ConnectingGoes ==
    ASSUME IInv, NEW h \in Handles, AbandonConnecting(h), UNCHANGED changes
    PROVE  IInv'
<1>1. /\ pc' = [pc EXCEPT ![h] = "free"] /\ pc \in [Handles -> Steps]
      /\ Gone /\ sidecars' \in BOOLEAN /\ device' = device
  BY DEF AbandonConnecting, Goto, IInv, TypeOK
<1>2. Last(h)
  BY DEF AbandonConnecting, IInv, OpensAlone, Opening, Connecting
<1>3. \A g \in Handles : pc'[g] = "free"
  BY <1>1, <1>2 DEF Last
<1>4. pc' \in [Handles -> Steps]
  BY <1>1 DEF Steps
<1>5. Idle'
  BY <1>3 DEF Idle
<1>6. TypeOK'
  BY <1>1, <1>4 DEF IInv, TypeOK, Gone
<1>7. OpensAlone' /\ ReadersAreLast' /\ Unmigrated' /\ Creating' /\ Serving'
      /\ TriggersAreOwn'
  BY <1>3 DEF OpensAlone, ReadersAreLast, Unmigrated, Creating, Serving,
              TriggersAreOwn, Opening, Connecting, Opened, Exporting
<1>8. UsersHaveFiles'
  BY <1>1, <1>5 DEF UsersHaveFiles, Gone
<1>9. DeviceIsGood'
  BY <1>1 DEF IInv, DeviceIsGood
<1> QED BY <1>5, <1>6, <1>7, <1>8, <1>9 DEF IInv, LogIsCarried

\* The temporary file is made, empty or from the device's copy.
LEMMA OpenKeeps ==
    ASSUME IInv, NEW h \in Handles, NEW s \in Served, UNCHANGED changes,
           New(h, s) \/ From(h, s)
    PROVE  IInv'
<1> DEFINE content == IF device = None THEN Blank ELSE device
<1>1. Open(h, content, s)
  BY DEF New, From
<1>2. pc' = [pc EXCEPT ![h] = "connect"] /\ pc \in [Handles -> Steps]
  BY <1>1 DEF Open, Goto, IInv, TypeOK
<1>3. pc' \in [Handles -> Steps] /\ pc'[h] = "connect"
      /\ \A g \in Handles : g # h => pc'[g] = "free"
  BY <1>1, <1>2 DEF Open, Idle, Steps, InCall, Opening, Connecting
<1>4. ~ Idle'
  BY <1>3 DEF Idle
<1>5. content \in Content /\ Sound(content)
  BY BlankIsSound DEF IInv, TypeOK, DeviceIsGood
<1>6. /\ device' = device /\ schema' = s /\ db' = content /\ file' = TRUE
      /\ flushed' = TRUE /\ sidecars' = FALSE /\ pool' = pool /\ failed' = failed
  BY <1>1 DEF Open
<1>7. TypeOK'
  BY <1>3, <1>5, <1>6 DEF IInv, TypeOK
<1>8. OpensAlone' /\ ReadersAreLast' /\ Serving' /\ TriggersAreOwn'
  BY <1>3 DEF OpensAlone, Last, ReadersAreLast, Serving, TriggersAreOwn,
              Opening, Connecting, Opened, Exporting
<1>9. UsersHaveFiles'
  BY <1>4, <1>5, <1>6 DEF UsersHaveFiles
<1>10. Unmigrated' /\ Creating'
  BY <1>3, <1>6 DEF Unmigrated, Creating
<1>11. LogIsCarried' /\ Sound(db)' /\ DeviceIsGood'
  BY <1>5, <1>6, BlankIsSound DEF IInv, LogIsCarried, DeviceIsGood
<1> QED BY <1>7, <1>8, <1>9, <1>10, <1>11 DEF IInv

\* The one handle of a database that is being opened goes on to a step whose
\* part of the invariant holds.
LEMMA OpeningKeeps ==
    ASSUME IInv, NEW h \in Handles, pc[h] \in Opening,
           NEW step \in (Opening \ {"connect"}) \cup {"live"}, Goto(h, step),
           UNCHANGED <<device, schema, file, changes>>,
           UNCHANGED <<sidecars, pool>> \/ (sidecars' = TRUE /\ pool' = "open"),
           {flushed', failed'} \subseteq BOOLEAN,
           db' \in Content, Sound(db'),
           IF device = None THEN db'.log \in {None, EmptyLog}
                            ELSE db'.log = device.log,
           step \in {"optimize", "hash", "alter", "dropall"} =>
               device # None /\ db' = device /\ (step = "dropall" => failed'),
           step = "create" => ToCreate',
           step \in {"untrigger", "live"} => Migrated(db', schema) /\ Survived',
           step = "live" => OwnTriggers(db', schema)
    PROVE  IInv'
<1>1. pc' = [pc EXCEPT ![h] = step] /\ pc \in [Handles -> Steps]
  BY DEF Goto, IInv, TypeOK
<1>2. Last(h)
  BY DEF IInv, OpensAlone
<1>3. pc' \in [Handles -> Steps] /\ pc'[h] = step
      /\ \A g \in Handles : g # h => pc'[g] = "free"
  BY <1>1, <1>2 DEF Last, Steps, InCall
<1>4. ~ Idle /\ ~ Idle'
  BY <1>3 DEF Idle, Opening, Connecting
<1>5. TypeOK'
  BY <1>3 DEF IInv, TypeOK
<1>6. OpensAlone' /\ ReadersAreLast'
  BY <1>3 DEF OpensAlone, Last, ReadersAreLast, Opening, Connecting
<1>7. UsersHaveFiles'
  BY <1>4 DEF IInv, UsersHaveFiles
<1>8. Unmigrated' /\ Creating'
  BY <1>3 DEF Unmigrated, Creating
<1>9. Serving' /\ TriggersAreOwn'
  BY <1>3 DEF Serving, TriggersAreOwn, Opening, Connecting, Opened, Exporting
<1>10. LogIsCarried' /\ DeviceIsGood'
  BY DEF IInv, LogIsCarried, DeviceIsGood
<1> QED BY <1>5, <1>6, <1>7, <1>8, <1>9, <1>10 DEF IInv

\* What is known while a handle opens its database.
LEMMA OpeningFacts ==
    ASSUME IInv, NEW h \in Handles, pc[h] \in Opening
    PROVE  /\ db \in Content /\ schema \in Served /\ Sound(db)
           /\ IF device = None THEN db.log \in {None, EmptyLog}
                               ELSE db.log = device.log
           /\ {flushed, failed} \subseteq BOOLEAN
<1>1. ~ Idle
  BY DEF Idle, Opening, Connecting
<1> QED BY <1>1 DEF IInv, UsersHaveFiles, LogIsCarried, TypeOK

LEMMA ConnectKeeps ==
    ASSUME IInv, NEW h \in Handles, Connect(h), UNCHANGED changes
    PROVE  IInv'
<1>1. /\ pc[h] = "connect" /\ pc[h] \in Opening
      /\ pool' = "open" /\ sidecars' = TRUE
      /\ Goto(h, IF device = None THEN "create" ELSE "optimize")
      /\ UNCHANGED <<device, schema, db, flushed, file, failed, changes>>
  BY DEF Connect, Opening, Connecting
<1>2. db = IF device = None THEN Blank ELSE device
  BY <1>1 DEF IInv, Unmigrated
<1>3. /\ db \in Content /\ Sound(db) /\ {flushed, failed} \subseteq BOOLEAN
      /\ IF device = None THEN db.log \in {None, EmptyLog}
                          ELSE db.log = device.log
  BY <1>1, OpeningFacts
<1>4. CASE device = None
  <2>1. ToCreate'
    BY <1>1, <1>2, <1>4, BlankIsSound DEF ToCreate
  <2> QED BY <1>1, <1>3, <1>4, <2>1, OpeningKeeps DEF Opening, Connecting
<1>5. CASE device # None
  BY <1>1, <1>2, <1>3, <1>5, OpeningKeeps DEF Opening, Connecting
<1> QED BY <1>4, <1>5

LEMMA OptimizeKeeps ==
    ASSUME IInv, NEW h \in Handles, Optimize(h), UNCHANGED changes
    PROVE  IInv'
<1>1. /\ pc[h] = "optimize" /\ pc[h] \in Opening /\ Goto(h, "hash")
      /\ flushed' \in BOOLEAN
      /\ UNCHANGED <<device, schema, db, file, sidecars, pool, failed, changes>>
  BY DEF Optimize, Opening, Connecting
<1>2. device # None /\ db = device
  BY <1>1 DEF IInv, Unmigrated
<1>3. /\ db \in Content /\ Sound(db) /\ db.log = device.log /\ failed \in BOOLEAN
  BY <1>1, <1>2, OpeningFacts
<1> QED BY <1>1, <1>2, <1>3, OpeningKeeps DEF Opening, Connecting

LEMMA ReadHashKeeps ==
    ASSUME IInv, NEW h \in Handles, ReadHash(h), UNCHANGED changes
    PROVE  IInv'
<1>1. /\ pc[h] = "hash" /\ pc[h] \in Opening
      /\ UNCHANGED <<device, schema, flushed, file, sidecars, pool, failed, changes>>
  BY DEF ReadHash, Opening, Connecting
<1>2. PICK stored \in StoredHashes(db) :
         /\ Goto(h, IF stored = schema.hash THEN "untrigger"
                    ELSE IF stored = None THEN "create" ELSE "alter")
         /\ db' = IF stored = schema.hash
                  THEN [db EXCEPT !.trust = TrustOnOpen] ELSE db
  BY DEF ReadHash
<1>3. device # None /\ db = device /\ Honest(db) /\ db.log # None
  BY <1>1 DEF IInv, Unmigrated, DeviceIsGood
<1>4. /\ db \in Content /\ schema \in Served /\ Sound(db)
      /\ db.log = device.log /\ {flushed, failed} \subseteq BOOLEAN
  BY <1>1, <1>3, OpeningFacts
<1>5. schema.hash # None
  BY <1>4, ServedType
<1>6. CASE stored = schema.hash
  <2> DEFINE a == [db EXCEPT !.trust = TrustOnOpen]
  <2>1. db.hash = schema.hash
    BY <1>5, <1>6 DEF StoredHashes
  <2>2. /\ a \in Content /\ Sound(a) /\ Migrated(a, schema)
        /\ a.log = db.log /\ a.rows = db.rows
    BY <1>3, <1>4, <2>1, TakenOverIsMigrated DEF TrustOnOpen
  <2>3. db' = a /\ Goto(h, "untrigger")
    BY <1>2, <1>6
  <2> HIDE DEF a
  <2>4. Survived'
    BY <1>1, <1>3, <2>2, <2>3 DEF Survived
  <2> QED BY <1>1, <1>3, <1>4, <2>2, <2>3, <2>4, OpeningKeeps DEF Opening, Connecting
<1>7. CASE stored # schema.hash /\ stored = None
  <2>1. db' = db /\ Goto(h, "create")
    BY <1>2, <1>7
  <2>2. ToCreate'
    BY <1>1, <1>3, <2>1 DEF ToCreate
  <2> QED BY <1>1, <1>3, <1>4, <2>1, <2>2, OpeningKeeps DEF Opening, Connecting
<1>8. CASE stored # schema.hash /\ stored # None
  <2>1. db' = db /\ Goto(h, "alter")
    BY <1>2, <1>8
  <2> QED BY <1>1, <1>3, <1>4, <2>1, OpeningKeeps DEF Opening, Connecting
<1> QED BY <1>6, <1>7, <1>8

LEMMA AlterKeeps ==
    ASSUME IInv, NEW h \in Handles, Alter(h), UNCHANGED changes
    PROVE  IInv'
<1> DEFINE a == Altered(db, schema)
           want == Wanted(schema.shape)
<1>1. /\ pc[h] = "alter" /\ pc[h] \in Opening /\ Goto(h, "untrigger")
      /\ db' = a /\ flushed' = FALSE
      /\ UNCHANGED <<device, schema, file, sidecars, pool, failed, changes>>
  BY DEF Alter, Commit, Opening, Connecting
<1>2. device # None /\ db = device /\ db.log # None
  BY <1>1 DEF IInv, Unmigrated, DeviceIsGood
<1>3. /\ db \in Content /\ schema \in Served /\ Sound(db)
      /\ db.log = device.log /\ failed \in BOOLEAN
  BY <1>1, <1>2, OpeningFacts
<1>4. /\ a \in Content /\ Sound(a) /\ Migrated(a, schema) /\ a.log = db.log
      /\ \A n \in Names : a.rows[n] = IF n \in Kept(db, want) THEN db.rows[n]
                                                              ELSE {}
  BY <1>2, <1>3, AlteredIsMigrated DEF Alter
<1> HIDE DEF a
<1>5. ASSUME NEW n \in Names, want[n] # {}, Compatible(n)
      PROVE  a.rows[n] = device.rows[n]
  <2>1. CASE device.tables[n] = {}
    BY <1>2, <1>3, <1>4, <2>1 DEF Sound
  <2>2. CASE device.tables[n] # {}
    <3>1. ~ Rebuild(device.tables[n], want[n])
      BY <1>5 DEF Compatible, Rebuild, KeyColumns
    <3> QED BY <1>2, <1>4, <1>5, <2>2, <3>1 DEF Kept
  <2> QED BY <2>1, <2>2
<1>6. Survived'
  BY <1>1, <1>5 DEF Survived, Compatible
<1> QED BY <1>1, <1>2, <1>3, <1>4, <1>6, OpeningKeeps DEF Opening, Connecting

LEMMA AlterFailsKeeps ==
    ASSUME IInv, NEW h \in Handles, AlterFails(h), UNCHANGED changes
    PROVE  IInv'
<1>1. /\ pc[h] = "alter" /\ pc[h] \in Opening /\ Goto(h, "dropall")
      /\ failed' = TRUE
      /\ UNCHANGED <<device, schema, db, flushed, file, sidecars, pool, changes>>
  BY DEF AlterFails, Opening, Connecting
<1>2. device # None /\ db = device
  BY <1>1 DEF IInv, Unmigrated
<1>3. /\ db \in Content /\ Sound(db) /\ db.log = device.log
      /\ flushed \in BOOLEAN
  BY <1>1, <1>2, OpeningFacts
<1> QED BY <1>1, <1>2, <1>3, OpeningKeeps DEF Opening, Connecting

LEMMA DropAllKeeps ==
    ASSUME IInv, NEW h \in Handles, DropAll(h), UNCHANGED changes
    PROVE  IInv'
<1> DEFINE d == Dropped(db)
<1>1. /\ pc[h] = "dropall" /\ pc[h] \in Opening /\ Goto(h, "create")
      /\ db' = d /\ flushed' = FALSE
      /\ UNCHANGED <<device, schema, file, sidecars, pool, failed, changes>>
  BY DEF DropAll, Commit, Opening, Connecting
<1>2. device # None /\ db = device /\ failed
  BY <1>1 DEF IInv, Unmigrated
<1>3. db \in Content /\ db.log = device.log /\ failed \in BOOLEAN
  BY <1>1, <1>2, OpeningFacts
<1>4. /\ d \in Content /\ Sound(d) /\ d.log = db.log
      /\ \A n \in Names : d.tables[n] = {} /\ d.rows[n] = {}
  BY <1>3, DroppedIsEmpty
<1> HIDE DEF d
<1>5. ToCreate'
  BY <1>1, <1>2, <1>4 DEF ToCreate
<1> QED BY <1>1, <1>2, <1>3, <1>4, <1>5, OpeningKeeps DEF Opening, Connecting

LEMMA CreateKeeps ==
    ASSUME IInv, NEW h \in Handles, Create(h), UNCHANGED changes
    PROVE  IInv'
<1> DEFINE a == Created(db, schema)
           step == IF device = None THEN "live" ELSE "untrigger"
<1>1. /\ pc[h] = "create" /\ pc[h] \in Opening /\ Goto(h, step)
      /\ db' = a /\ flushed' = FALSE
      /\ UNCHANGED <<device, schema, file, sidecars, pool, failed, changes>>
  BY DEF Create, Commit, Opening, Connecting
<1>2. ToCreate /\ (device # None => device.log # None)
  BY <1>1 DEF IInv, Creating, DeviceIsGood
<1>3. /\ db \in Content /\ schema \in Served /\ Sound(db)
      /\ IF device = None THEN db.log \in {None, EmptyLog}
                          ELSE db.log = device.log
      /\ failed \in BOOLEAN
  BY <1>1, OpeningFacts
<1>4. /\ a \in Content /\ Sound(a) /\ Migrated(a, schema)
      /\ a.log = IF db.log = None THEN EmptyLog ELSE db.log
      /\ a.rows = db.rows /\ a.triggers = db.triggers
  BY <1>2, <1>3, CreatedIsMigrated DEF Create, CanCreate, ToCreate
<1> HIDE DEF a
<1>5. Survived'
  BY <1>1, <1>2, <1>4 DEF Survived, ToCreate
<1>6. step = "live" => OwnTriggers(a, schema)
  BY <1>2, <1>4 DEF ToCreate, OwnTriggers
<1>7. IF device = None THEN a.log \in {None, EmptyLog} ELSE a.log = device.log
  BY <1>2, <1>3, <1>4
<1>8. step \in {"live", "untrigger"}
  OBVIOUS
<1> HIDE DEF step
<1> QED BY <1>1, <1>3, <1>4, <1>5, <1>6, <1>7, <1>8, OpeningKeeps
    DEF Opening, Connecting

LEMMA UntriggerKeeps ==
    ASSUME IInv, NEW h \in Handles, Untrigger(h), UNCHANGED changes
    PROVE  IInv'
<1> DEFINE a == Untriggered(db)
<1>1. /\ pc[h] = "untrigger" /\ pc[h] \in Opening /\ Goto(h, "live")
      /\ db' = a /\ flushed' = FALSE
      /\ UNCHANGED <<device, schema, file, sidecars, pool, failed, changes>>
  BY DEF Untrigger, Commit, Opening, Connecting
<1>2. Migrated(db, schema) /\ Survived
  BY <1>1 DEF IInv, Serving
<1>3. /\ db \in Content /\ schema \in Served /\ Sound(db)
      /\ IF device = None THEN db.log \in {None, EmptyLog}
                          ELSE db.log = device.log
      /\ failed \in BOOLEAN
  BY <1>1, OpeningFacts
<1>4. /\ a \in Content /\ Sound(a) /\ Migrated(a, schema)
      /\ OwnTriggers(a, schema) /\ a.log = db.log /\ a.rows = db.rows
  BY <1>2, <1>3, UntriggeredHasNone
<1> HIDE DEF a
<1>5. Survived'
  BY <1>1, <1>2, <1>4 DEF Survived, Compatible
<1> QED BY <1>1, <1>3, <1>4, <1>5, OpeningKeeps DEF Opening, Connecting

\* The only transaction that other clones may be there to see.
LEMMA SetupTriggersKeeps ==
    ASSUME IInv, NEW h \in Handles, SetupTriggers(h), UNCHANGED changes
    PROVE  IInv'
<1> DEFINE a == Triggered(db, schema)
<1>1. /\ pc[h] = "commit" /\ pc' = [pc EXCEPT ![h] = "checkpoint"]
      /\ db' = a /\ flushed' = FALSE
      /\ UNCHANGED <<device, schema, file, sidecars, pool, failed, changes>>
  BY DEF SetupTriggers, Commit, Goto
<1>2. pc \in [Handles -> Steps] /\ pc' \in [Handles -> Steps]
      /\ pc'[h] = "checkpoint" /\ \A g \in Handles : g # h => pc'[g] = pc[g]
  BY <1>1 DEF IInv, TypeOK, Steps, InCall, Exporting
<1>3. ~ Idle /\ ~ Idle'
  BY <1>1, <1>2 DEF Idle
<1>4. \A g \in Handles : pc[g] \notin Opening /\ pc[g] # "read"
  BY <1>1 DEF IInv, OpensAlone, Last, ReadersAreLast, Opening, Connecting
<1>5. \A g \in Handles : pc'[g] \notin Opening /\ pc'[g] # "read"
  BY <1>2, <1>4 DEF Opening, Connecting
<1>6. Migrated(db, schema) /\ Survived /\ OwnTriggers(db, schema)
  BY <1>1 DEF IInv, Serving, TriggersAreOwn, Opened, Exporting
<1>7. db \in Content /\ schema \in Served /\ Sound(db)
  BY <1>3 DEF IInv, UsersHaveFiles
<1>8. /\ a \in Content /\ Sound(a) /\ Migrated(a, schema)
      /\ OwnTriggers(a, schema) /\ AllTriggers(a, schema)
      /\ a.log = db.log /\ a.rows = db.rows
  BY <1>6, <1>7, TriggeredHasAll
<1> HIDE DEF a
<1>9. TypeOK'
  BY <1>1, <1>2, <1>8 DEF IInv, TypeOK
<1>10. OpensAlone' /\ Unmigrated' /\ Creating'
  BY <1>5 DEF OpensAlone, Unmigrated, Creating, Opening, Connecting
<1>11. UsersHaveFiles' /\ ReadersAreLast'
  BY <1>1, <1>2, <1>3, <1>5, <1>8 DEF IInv, UsersHaveFiles, ReadersAreLast
<1>12. Serving' /\ TriggersAreOwn'
  BY <1>1, <1>6, <1>8 DEF Serving, TriggersAreOwn, Survived, Compatible
<1>13. LogIsCarried' /\ DeviceIsGood'
  BY <1>1, <1>3, <1>8 DEF IInv, LogIsCarried, DeviceIsGood
<1> QED BY <1>1, <1>8, <1>9, <1>10, <1>11, <1>12, <1>13 DEF IInv

LEMMA ExportKeeps ==
    ASSUME IInv, NEW h \in Handles, UNCHANGED changes,
           Bytes(h) \/ Checkpoint(h) \/ Shut(h) \/ Close(h)
    PROVE  IInv'
<1>1. pc[h] \in Opened /\ pc \in [Handles -> Steps]
  BY DEF Bytes, Checkpoint, Shut, Close, Opened, Exporting, IInv, TypeOK
<1>2. /\ flushed \in BOOLEAN /\ sidecars \in BOOLEAN
      /\ pool \in {"none", "open", "closed"}
  BY DEF IInv, TypeOK
<1>3. CASE Bytes(h)
  <2>1. /\ Goto(h, "commit") /\ pc' = [pc EXCEPT ![h] = "commit"] /\ pool = "open"
        /\ UNCHANGED <<device, schema, db, flushed, file, sidecars, pool, failed>>
    BY <1>3 DEF Bytes, Goto, storage
  <2>2. ~ Idle'
    BY <1>1, <2>1 DEF Idle
  <2>3. ReadersAreLast'
    BY <1>1, <2>1 DEF IInv, ReadersAreLast
  <2> QED BY <1>1, <1>2, <2>1, <2>2, <2>3, MovingKeeps DEF Opened, Exporting
<1>4. CASE Checkpoint(h)
  <2>1. /\ Goto(h, "shut") /\ pc' = [pc EXCEPT ![h] = "shut"]
        /\ pc[h] = "checkpoint" /\ pool' = "closed"
        /\ flushed' \in {flushed, pool = "open" \/ flushed}
        /\ UNCHANGED <<device, schema, db, file, sidecars, failed>>
    BY <1>4 DEF Checkpoint, Goto
  <2>2. ~ Idle'
    BY <1>1, <2>1 DEF Idle
  <2>3. flushed' \in BOOLEAN /\ (flushed => flushed')
    BY <1>2, <2>1
  <2>4. ReadersAreLast'
    BY <1>1, <2>1, <2>3 DEF IInv, ReadersAreLast
  <2>5. AllTriggers(db, schema)
    BY <2>1 DEF IInv, TriggersAreOwn
  <2> QED BY <1>1, <1>2, <2>1, <2>2, <2>3, <2>4, <2>5, MovingKeeps
      DEF Opened, Exporting
<1>5. CASE Shut(h)
  <2>1. /\ Goto(h, "read") /\ pc' = [pc EXCEPT ![h] = "read"]
        /\ pc[h] = "shut" /\ flushed' = TRUE /\ sidecars' = FALSE
        /\ \A g \in Handles : pc[g] # "commit"
        /\ UNCHANGED <<device, schema, db, file, pool, failed>>
    BY <1>5 DEF Shut, Closed, Goto
  <2>2. ~ Idle'
    BY <1>1, <2>1 DEF Idle
  <2>3. ReadersAreLast'
    BY <1>1, <2>1 DEF IInv, ReadersAreLast
  <2>4. AllTriggers(db, schema)
    BY <2>1 DEF IInv, TriggersAreOwn
  <2> QED BY <1>1, <1>2, <2>1, <2>2, <2>3, <2>4, MovingKeeps DEF Opened, Exporting
<1>6. CASE Close(h)
  <2>1. /\ Goto(h, "drain") /\ pc' = [pc EXCEPT ![h] = "drain"] /\ pool' = "closed"
        /\ UNCHANGED <<device, schema, db, flushed, file, sidecars, failed>>
    BY <1>6 DEF Close, Goto
  <2>2. ~ Idle'
    BY <1>1, <2>1 DEF Idle
  <2>3. ReadersAreLast'
    BY <1>1, <2>1 DEF IInv, ReadersAreLast
  <2> QED BY <1>1, <1>2, <2>1, <2>2, <2>3, MovingKeeps DEF Opened, Exporting
<1> QED BY <1>3, <1>4, <1>5, <1>6

LEMMA DrainKeeps ==
    ASSUME IInv, NEW h \in Handles, UNCHANGED changes, Drain(h), ~ Last(h)
    PROVE  IInv'
<1>1. /\ pc[h] = "drain" /\ Goto(h, "free") /\ pc' = [pc EXCEPT ![h] = "free"]
      /\ flushed' = TRUE /\ sidecars' = FALSE
      /\ UNCHANGED <<device, schema, db, file, pool, failed>>
  BY DEF Drain, Closed, Goto
<1>2. pc \in [Handles -> Steps] /\ pool \in {"none", "open", "closed"}
  BY DEF IInv, TypeOK
<1>3. PICK g \in Handles : g # h /\ pc[g] # "free"
  BY DEF Last
<1>4. pc[g] \notin Opening
  BY <1>1, <1>3 DEF IInv, OpensAlone, Last
<1>5. pc[g] \in Opened
  BY <1>2, <1>3, <1>4 DEF Steps, InCall, Opened
<1>6. ~ Idle'
  BY <1>1, <1>2, <1>3 DEF Idle
<1>7. ReadersAreLast'
  BY <1>1, <1>2 DEF IInv, ReadersAreLast
<1>8. {flushed', sidecars'} \subseteq BOOLEAN
  BY <1>1
<1>9. UNCHANGED <<device, schema, db, file, failed, changes>>
  BY <1>1
<1>10. pool' \in {"none", "open", "closed"}
  BY <1>1, <1>2
<1> QED BY <1>1, <1>5, <1>6, <1>7, <1>8, <1>9, <1>10, MovingKeeps

LEMMA CloneKeeps ==
    ASSUME IInv, NEW h \in Handles, NEW g \in Handles, UNCHANGED changes,
           Clone(h, g)
    PROVE  IInv'
<1>1. /\ pc[h] = "live" /\ Goto(g, "live") /\ pc' = [pc EXCEPT ![g] = "live"]
      /\ UNCHANGED <<device, schema, db, flushed, file, sidecars, pool, failed>>
  BY DEF Clone, Goto, storage
<1>2. /\ pc \in [Handles -> Steps] /\ {flushed, sidecars} \subseteq BOOLEAN
      /\ pool \in {"none", "open", "closed"}
  BY DEF IInv, TypeOK
<1>3. ~ Idle'
  BY <1>1, <1>2 DEF Idle
<1>4. ReadersAreLast'
  BY <1>1, <1>2 DEF IInv, ReadersAreLast
<1> QED BY <1>1, <1>2, <1>3, <1>4, MovingKeeps DEF Opened, Exporting

\* The device writes while nobody has its database open.
LEMMA WriteKeeps ==
    ASSUME IInv, NEW n \in Names, Writable(n),
           NEW op \in {"I", "U", "D"}, NEW old \in Keys, NEW new \in Keys,
           NEW rows \in SUBSET Keys,
           \A k \in rows : k \in device.rows[n] \/ k = new,
           op = "D" => new = old /\ old \notin rows,
           Write(n, rows, Touch(n, op, old, new))
    PROVE  IInv' /\ device' # None
<1>1. device # None /\ Idle /\ KeyOf(device.tables[n]) # None
      /\ (device.triggers[n] # None => device.log # None) /\ changes < MaxChanges
  BY DEF Writable
<1>2. /\ device' = [device EXCEPT !.rows[n] = rows,
                                  !.log = Touch(n, op, old, new)]
      /\ changes' = changes + 1
      /\ UNCHANGED <<schema, db, flushed, file, sidecars, pool, failed, pc>>
  BY DEF Write
<1>3. device' \in Content /\ device' # None /\ DeviceIsGood'
  BY <1>1, <1>2, WrittenIsGood DEF IInv
<1>4. changes' \in 0..MaxChanges
  BY <1>1, <1>2, ConstantsAssumption DEF IInv, TypeOK
<1>5. TypeOK'
  BY <1>2, <1>3, <1>4 DEF IInv, TypeOK
<1>6. Idle' /\ \A h \in Handles : pc'[h] = "free"
  BY <1>1, <1>2 DEF Idle
<1>7. OpensAlone' /\ ReadersAreLast' /\ Unmigrated' /\ Creating' /\ Serving'
      /\ TriggersAreOwn'
  BY <1>6 DEF OpensAlone, ReadersAreLast, Unmigrated, Creating, Serving,
              TriggersAreOwn, Opening, Connecting, Opened, Exporting
<1>8. UsersHaveFiles'
  BY <1>1, <1>2, <1>6 DEF IInv, UsersHaveFiles
<1>9. LogIsCarried' /\ (~ Idle => Sound(db))'
  BY <1>6 DEF LogIsCarried
<1> QED BY <1>3, <1>5, <1>7, <1>8, <1>9 DEF IInv

LEMMA InvariantStep ==
    ASSUME IInv, [Next]_vars
    PROVE  IInv'
<1>1. ASSUME NEW h \in Handles, UNCHANGED changes,
             \/ Drop(h) \/ Abandon(h) \/ Read(h) \/ CreateFails(h)
             \/ BytesFails(h) \/ SetupTriggersFails(h)
             \/ Drain(h) /\ Last(h)
      PROVE  IInv'
  <2>1. pc[h] # "free"
    BY <1>1 DEF Drop, Abandon, Read, CreateFails, BytesFails, SetupTriggersFails,
                Drain, InCall, Opening, Connecting, Exporting
  <2>2. LetGo(h) \/ (ReleaseFile(h) /\ pc[h] = "read")
    BY <1>1 DEF Drop, Abandon, Read, CreateFails, BytesFails, SetupTriggersFails,
                Drain, Release
  <2>3. device' = device \/ (device' = db /\ pc[h] = "read")
    BY <1>1 DEF Drop, Abandon, Read, CreateFails, BytesFails, SetupTriggersFails,
                Drain, Release, ReleaseFile
  <2> QED BY <1>1, <2>1, <2>2, <2>3, GoingKeeps
<1>2. ASSUME NEW h \in Handles, UNCHANGED changes, Step(h)
      PROVE  IInv'
  BY <1>1, <1>2, ConnectKeeps, OptimizeKeeps, ReadHashKeeps, AlterKeeps, AlterFailsKeeps, DropAllKeeps,
     CreateKeeps, UntriggerKeeps, SetupTriggersKeeps, ExportKeeps, DrainKeeps
     DEF Step
<1>3. ASSUME NEW n \in Active, NEW k \in Keys, Insert(n, k)
      PROVE  IInv'
  <2>1. n \in Names /\ device.rows[n] \in SUBSET Keys
    BY <1>3, ConstantsAssumption DEF Insert, Writable, IInv, TypeOK, Content
  <2> QED BY <1>3, <2>1, WriteKeeps DEF Insert
<1>4. ASSUME NEW n \in Active, NEW k \in Keys, Delete(n, k)
      PROVE  IInv'
  <2>1. n \in Names /\ device.rows[n] \in SUBSET Keys
    BY <1>4, ConstantsAssumption DEF Delete, Writable, IInv, TypeOK, Content
  <2> QED BY <1>4, <2>1, WriteKeeps DEF Delete
<1>5. ASSUME NEW n \in Active, NEW k \in Keys, NEW j \in Keys, Update(n, k, j)
      PROVE  IInv'
  <2>1. n \in Names /\ device.rows[n] \in SUBSET Keys
    BY <1>5, ConstantsAssumption DEF Update, Writable, IInv, TypeOK, Content
  <2> QED BY <1>5, <2>1, WriteKeeps DEF Update
<1>6. CASE UNCHANGED vars
  BY <1>6 DEF vars, storage, IInv, TypeOK, OpensAlone, Last, UsersHaveFiles, Idle,
              ReadersAreLast, DeviceIsGood, LogIsCarried, Unmigrated, Creating,
              ToCreate, Serving, Survived, Compatible, TriggersAreOwn
<1> QED
  BY <1>1, <1>2, <1>3, <1>4, <1>5, <1>6, ExportKeeps, CloneKeeps, OpenKeeps,
     ConnectingGoes
     DEF Next

LEMMA InvariantInit == Init => IInv
<1> SUFFICES ASSUME Init PROVE IInv
  OBVIOUS
<1>1. \A h \in Handles : pc[h] = "free"
  BY DEF Init
<1>2. TypeOK
  <2>1. {flushed, file, sidecars, failed} \subseteq BOOLEAN
    BY DEF Init
  <2>2. changes \in 0..MaxChanges
    BY ConstantsAssumption DEF Init
  <2>3. pc \in [Handles -> Steps]
    BY DEF Init, Steps
  <2> QED BY <2>1, <2>2, <2>3 DEF Init, TypeOK
<1>3. Idle /\ UsersHaveFiles
  BY <1>1 DEF Init, Idle, UsersHaveFiles
<1>4. OpensAlone /\ ReadersAreLast /\ Unmigrated /\ Creating /\ Serving
      /\ TriggersAreOwn
  BY <1>1 DEF OpensAlone, ReadersAreLast, Unmigrated, Creating, Serving,
              TriggersAreOwn, Opening, Connecting, Opened, Exporting
<1>5. DeviceIsGood
  BY DEF Init, DeviceIsGood
<1> QED BY <1>2, <1>3, <1>4, <1>5 DEF IInv, LogIsCarried

LEMMA Invariance == Spec => []IInv
BY InvariantInit, InvariantStep, PTL DEF Spec

-----------------------------------------------------------------------------
(* The theorems.                                                           *)

\* The variables keep their types: migrations, fallbacks and writes of the
\* device always leave a database with tables, rows, log and triggers.
THEOREM TypeCorrect == Spec => []TypeOK
<1>1. IInv => TypeOK
  BY DEF IInv
<1> QED BY <1>1, Invariance, PTL

\* Calls that fail or are dropped at any await, and clones that export, close
\* or are dropped in any order, leave neither a user without the file nor the
\* file without a user.
THEOREM FilesMatchUsers == Spec => []FileMatchesUsers
<1>1. IInv => FileMatchesUsers
  BY DEF IInv, UsersHaveFiles, FileMatchesUsers
<1> QED BY <1>1, Invariance, PTL

\* Whoever removes the file has removed the sidecars, unless there was no
\* SqliteDatabase yet.
LEMMA SidecarsStep ==
    ASSUME IInv, [Next]_vars, file, ~ file'
    PROVE  ~ sidecars' \/ \E h \in Handles : pc[h] \in Connecting
<1>1. ASSUME NEW h \in Handles, LetGo(h)
      PROVE  ~ sidecars'
  BY <1>1 DEF LetGo
<1>2. ASSUME NEW h \in Handles, ReleaseFile(h), pc[h] = "read"
      PROVE  ~ sidecars'
  BY <1>2 DEF ReleaseFile, IInv, ReadersAreLast
<1>3. ASSUME NEW h \in Handles, Abandon(h) \/ Drop(h) \/ BytesFails(h)
      PROVE  ~ sidecars'
  BY <1>1, <1>2, <1>3 DEF Abandon, Drop, BytesFails, Release
<1>4. ASSUME NEW h \in Handles, Step(h)
      PROVE  ~ sidecars'
  BY <1>1, <1>4 DEF Step, Connect, Optimize, ReadHash, Alter, AlterFails, DropAll,
                    Create, CreateFails, Untrigger, SetupTriggers,
                    SetupTriggersFails, Checkpoint, Shut, Read, Drain, Release
<1>5. ASSUME NEW h \in Handles, AbandonConnecting(h)
      PROVE  pc[h] \in Connecting
  BY <1>5 DEF AbandonConnecting
<1>6. ASSUME NEW h \in Handles,
             \/ Bytes(h) \/ Close(h) \/ \E g \in Handles : Clone(h, g)
             \/ \E s \in Served : New(h, s) \/ From(h, s)
      PROVE  FALSE
  BY <1>6 DEF Bytes, Close, Clone, New, From, Open, storage
<1>7. ASSUME NEW n \in Active, NEW k \in Keys, NEW j \in Keys,
             Insert(n, k) \/ Delete(n, k) \/ Update(n, k, j)
      PROVE  FALSE
  BY <1>7 DEF Insert, Delete, Update, Write
<1>8. CASE UNCHANGED vars
  BY <1>8 DEF vars, storage
<1> QED BY <1>3, <1>4, <1>5, <1>6, <1>7, <1>8 DEF Next

\* The -wal and -shm files do not outlive the temporary file once new() or
\* from() has an SqliteDatabase, however its handles end.
THEOREM SidecarsGo == Spec => SidecarsGoWithFile
<1>1. IInv /\ [Next]_vars =>
        [file /\ ~ file' =>
            ~ sidecars' \/ \E h \in Handles : pc[h] \in Connecting]_vars
  BY SidecarsStep
<1> QED BY <1>1, Invariance, PTL DEF Spec, SidecarsGoWithFile

\* Whatever schemas the server serves one after the other, and wherever an
\* open ends early, a copy with a hash that is trusted has the tables of it.
THEOREM HashesAreHonest == Spec => []HashIsHonest
<1>1. IInv => HashIsHonest
  <2> SUFFICES ASSUME IInv, NEW c \in Settled
               PROVE  Honest(c)
    BY DEF HashIsHonest, Honest
  <2>1. CASE c = device
    BY <2>1 DEF IInv, DeviceIsGood, Settled
  <2>2. CASE c # device
    <3>1. c = db /\ db # None /\ \A h \in Handles : pc[h] \notin Opening
      BY <2>2 DEF Settled
    <3>2. PICK h \in Handles : pc[h] # "free"
      BY <3>1 DEF IInv, UsersHaveFiles, Idle
    <3>3. pc[h] \in Opened
      BY <3>1, <3>2 DEF IInv, TypeOK, Steps, InCall, Opened
    <3> QED BY <3>1, <3>3 DEF IInv, Serving, Migrated
  <2> QED BY <2>1, <2>2
<1> QED BY <1>1, Invariance, PTL

\* No migration, key change or export loses a row out of sight of the log.
THEOREM NoRowIsUnlogged == Spec => []RowsAreLogged
<1>1. ASSUME IInv, NEW c \in Settled
      PROVE  Sound(c)
  <2>1. CASE c = device
    BY <1>1, <2>1 DEF IInv, DeviceIsGood, Settled
  <2>2. CASE c # device
    <3>1. c = db /\ db # None
      BY <1>1, <2>2 DEF Settled
    <3> QED BY <1>1, <3>1 DEF IInv, UsersHaveFiles
  <2> QED BY <2>1, <2>2
<1>2. ASSUME IInv, NEW c \in Settled, c.trust = "full", NEW n \in Names,
             NEW k \in c.rows[n]
      PROVE  c.log[<<n, k>>] # None /\ c.log[<<n, k>>].op # "D"
  BY <1>1, <1>2 DEF Sound, IsLogged
<1>3. IInv => RowsAreLogged
  BY <1>2 DEF RowsAreLogged
<1> QED BY <1>3, Invariance, PTL

\* Two clones that export at the same time, or one that closes meanwhile, do
\* not make an export read a file whose WAL is not folded in, or one without
\* log or triggers.
THEOREM ExportsAreWhole == Spec => []ExportsAreReady
<1>1. ASSUME IInv, NEW h \in Handles, pc[h] = "read"
      PROVE  /\ flushed
             /\ db.log # None
             /\ db.trust = "full" => \A n \in Names : db.tables[n] # {} =>
                   db.triggers[n] = KeyOf(db.tables[n])
  <2>1. flushed
    BY <1>1 DEF IInv, ReadersAreLast
  <2>2. schema \in Served /\ Sound(db)
    BY <1>1 DEF IInv, UsersHaveFiles, Idle
  <2>3. Migrated(db, schema) /\ AllTriggers(db, schema)
    BY <1>1 DEF IInv, Serving, TriggersAreOwn, Opened, Exporting
  <2> QED BY <2>1, <2>2, <2>3, ExportHasTriggers DEF Migrated
<1>2. IInv => ExportsAreReady
  BY <1>1 DEF ExportsAreReady
<1> QED BY <1>2, Invariance, PTL

\* A migration loses no row that it could have kept, unless it failed.
THEOREM RowsAreKept == Spec => []RowsSurvive
<1>1. ASSUME IInv, NEW h \in Handles, pc[h] \in {"live"} \cup Exporting
      PROVE  Survived
  BY <1>1 DEF IInv, Serving, Opened
<1>2. IInv => RowsSurvive
  BY <1>1 DEF RowsSurvive, Survived
<1> QED BY <1>2, Invariance, PTL

-----------------------------------------------------------------------------
(* SqliteSync implements SyncLog.                                          *)

\* The log as the abstract specification sees it.
DeviceLog == IF device = None THEN EmptyLog ELSE device.log

\* A change of a row is a change of its record, or not seen by any trigger.
LEMMA WriteIsChange ==
    ASSUME IInv, NEW n \in Names, Writable(n),
           NEW op \in {"I", "U", "D"}, NEW old \in Keys, NEW new \in Keys,
           NEW rows \in SUBSET Keys,
           \A k \in rows : k \in device.rows[n] \/ k = new,
           op = "D" => new = old /\ old \notin rows,
           Write(n, rows, Touch(n, op, old, new))
    PROVE  [Log!Next]_DeviceLog
<1> DEFINE r == <<n, Recorded(op, old, new)>>
           log == Touch(n, op, old, new)
<1>1. device # None /\ device \in Content
  BY DEF Writable, IInv, TypeOK
<1>2. device' = [device EXCEPT !.rows[n] = rows, !.log = log]
  BY DEF Write
<1>3. r \in Records
  BY DEF Recorded, Records
<1>4. log = device.log \/ log = [device.log EXCEPT ![r] = Log!After(device.log[r], op)]
  BY DEF Touch, Touched, Log!After
<1>5. device' # None
  BY WriteKeeps
<1> HIDE DEF log, r
<1>6. device'.log = log
  BY <1>1, <1>2 DEF Content
<1>7. DeviceLog = device.log /\ DeviceLog' = log
  BY <1>1, <1>5, <1>6 DEF DeviceLog
<1>8. CASE log = device.log
  BY <1>7, <1>8
<1>9. CASE log = [device.log EXCEPT ![r] = Log!After(device.log[r], op)]
  <2>1. Log!Change(r, op)
    BY <1>7, <1>9 DEF Log!Change, DeviceLog
  <2> QED BY <1>3, <2>1 DEF Log!Next
<1> QED BY <1>4, <1>8, <1>9

\* What an export hands over has the log that came in.
LEMMA ReadIsStutter ==
    ASSUME IInv, NEW h \in Handles, Read(h)
    PROVE  DeviceLog' = DeviceLog
<1>1. pc[h] = "read" /\ device' \in {db, device}
  BY DEF Read
<1>2. ~ Idle
  BY <1>1 DEF Idle
<1>3. db \in Content /\ db # None
  BY <1>2, NoneAssumption DEF IInv, UsersHaveFiles
<1>4. db.log # None
  BY <1>1 DEF IInv, Serving, Migrated, Opened, Exporting
<1>5. db.log = DeviceLog
  BY <1>2, <1>4 DEF IInv, LogIsCarried, DeviceLog
<1> QED BY <1>1, <1>3, <1>5 DEF DeviceLog

LEMMA RefinementStep ==
    ASSUME IInv, [Next]_vars
    PROVE  [Log!Next]_DeviceLog
<1>1. ASSUME NEW h \in Handles, Step(h), ~ Read(h)
      PROVE  device' = device
  BY <1>1 DEF Step, Connect, Optimize, ReadHash, Alter, AlterFails, DropAll,
              Create, CreateFails, Untrigger, SetupTriggers, SetupTriggersFails, Checkpoint, Shut,
              Drain, Release
<1>2. ASSUME NEW h \in Handles,
             \/ Bytes(h) \/ BytesFails(h) \/ Close(h) \/ Drop(h) \/ Abandon(h)
             \/ AbandonConnecting(h)
             \/ \E g \in Handles : Clone(h, g)
             \/ \E s \in Served : New(h, s) \/ From(h, s)
      PROVE  device' = device
  BY <1>2 DEF Bytes, BytesFails, Close, Drop, Abandon, AbandonConnecting, Clone,
              New, From, Open, Release, ReleaseFile, storage
<1>3. device' = device => DeviceLog' = DeviceLog
  BY DEF DeviceLog
<1>4. ASSUME NEW n \in Active, NEW k \in Keys, Insert(n, k)
      PROVE  [Log!Next]_DeviceLog
  <2>1. n \in Names /\ device.rows[n] \in SUBSET Keys
    BY <1>4, ConstantsAssumption DEF Insert, Writable, IInv, TypeOK, Content
  <2> QED BY <1>4, <2>1, WriteIsChange DEF Insert
<1>5. ASSUME NEW n \in Active, NEW k \in Keys, Delete(n, k)
      PROVE  [Log!Next]_DeviceLog
  <2>1. n \in Names /\ device.rows[n] \in SUBSET Keys
    BY <1>5, ConstantsAssumption DEF Delete, Writable, IInv, TypeOK, Content
  <2> QED BY <1>5, <2>1, WriteIsChange DEF Delete
<1>6. ASSUME NEW n \in Active, NEW k \in Keys, NEW j \in Keys, Update(n, k, j)
      PROVE  [Log!Next]_DeviceLog
  <2>1. n \in Names /\ device.rows[n] \in SUBSET Keys
    BY <1>6, ConstantsAssumption DEF Update, Writable, IInv, TypeOK, Content
  <2> QED BY <1>6, <2>1, WriteIsChange DEF Update
<1>7. CASE UNCHANGED vars
  BY <1>3, <1>7 DEF vars, storage
<1> QED
  BY <1>1, <1>2, <1>3, <1>4, <1>5, <1>6, <1>7, ReadIsStutter DEF Next

\* Migrations, fallbacks, clones and lost exports neither lose nor add a row or
\* a version: the log that goes back and forth between device and server moves
\* only with the device's changes, and by one.
THEOREM Refinement == Spec => ImplementsSyncLog
<1>1. Init => Log!Init
  BY DEF Init, Log!Init, Log!Empty, EmptyLog
<1>2. IInv /\ [Next]_vars => [Log!Next]_(IF device = None THEN EmptyLog ELSE device.log)
  BY RefinementStep DEF DeviceLog
<1> QED
  BY <1>1, <1>2, Invariance, PTL DEF Spec, ImplementsSyncLog, Log!Spec
=============================================================================
