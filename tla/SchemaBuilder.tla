--------------------------- MODULE SchemaBuilder ---------------------------
(***************************************************************************)
(* How a schema is put together from the rows of Postgres' catalogue:      *)
(* crates/database/src/core/schema_builder.rs.                             *)
(*                                                                         *)
(* load_schema gives one row per column, ordered by table and by place in  *)
(* the table.  add_row files it; build then resolves the foreign keys,     *)
(* sorts the tables so that each comes after those it refers to (Kahn's    *)
(* algorithm, what is on a cycle last), numbers them anew, and throws away *)
(* the foreign keys it could not resolve, closing the gaps in the pool.    *)
(*                                                                         *)
(* One action is one row, or one round of one of build's loops.  The first *)
(* six fields of the builder are those of the schema it will be.           *)
(* Operators marked (mutant) are wrong variants of the definition that     *)
(* follows them; nothing uses them but mutation testing.                   *)
(***************************************************************************)
EXTENDS Schema

CONSTANTS
    Rows,       \* the rows that Postgres may report
    TableOrder, \* the tables' names in the order of Postgres
    Hash,       \* the hash that build is given
    MaxColumns  \* bound on the columns of a table

RawForeignKey ==
    [constraint_name : STRING, namespace : STRING, table : STRING,
     column : STRING, on_update : Range(Actions), on_delete : Range(Actions)]

\* The arguments of add_row.
Row ==
    [table : STRING, column : STRING, type : STRING, nullable : BOOLEAN,
     primary : BOOLEAN, unique : BOOLEAN, default : {None} \cup STRING,
     checks : Seq(STRING), foreign_keys : Seq(RawForeignKey)]

ASSUME RowsAssumption ==
    /\ Rows \subseteq Row
    /\ \A r \in Rows : \E i \in DOMAIN TableOrder : TableOrder[i] = r.table

ASSUME HashAssumption == Hash \in STRING

\* The numbers of tables and columns fit 16 bits, and u16::MAX is free to
\* stand for None: Postgres allows 1600 columns in a table.
ASSUME LimitsAssumption ==
    /\ MaxColumns \in Nat \ {0} /\ MaxColumns < U16
    /\ TableOrder \in Seq(STRING) /\ Len(TableOrder) < U16

VARIABLES
    rows,       \* the rows so far
    phase,      \* "rows", "resolve", "sort", "number" or "done"
    builder,    \* DatabaseSchemaBuilder
    old_by_name,\* the tables in the order of their names' symbols
    resolved,   \* the foreign keys resolved so far
    graph,      \* table -> the tables that refer to it, once per reference
    in_degree,  \* table -> how many references it still waits for
    queue,      \* the tables that wait for none
    edges,      \* the rest of the list of the table in turn
    sorted,     \* the tables in their new order
    schema      \* the result, or None

vars == <<rows, phase, builder, old_by_name, resolved, graph, in_degree,
          queue, edges, sorted, schema>>

-----------------------------------------------------------------------------
(* add_row.                                                                *)

\* StringInterner::get_or_intern, for one string and for one after the other.
Intern(strings, s) ==
    IF Contains(strings, s) THEN strings ELSE Append(strings, s)

InternAll(strings, more) ==
    LET interned[i \in 0..Len(more)] ==
            IF i = 0 THEN strings ELSE Intern(interned[i - 1], more[i])
    IN  interned[Len(more)]

SymbolOf(strings, s) == Position(strings, s) + 1

\* The match over the names of Postgres' types.
Kind(type) ==
    CASE type \in {"boolean", "bool"} -> "Bool"
      [] type \in {"smallint", "integer", "bigint", "int2", "int4", "int8",
                   "serial", "bigserial", "smallserial", "oid"} -> "Int"
      [] type \in {"real", "double precision", "float4", "float8"} -> "Float"
      [] type \in {"numeric", "decimal"} -> "Decimal"
      [] type \in {"text", "character varying", "varchar", "character",
                   "char", "name", "bpchar"} -> "Text"
      [] type = "bytea" -> "Blob"
      [] type \in {"json", "jsonb"} -> "Json"
      [] type = "uuid" -> "Uuid"
      [] type \in {"timestamp without time zone", "timestamp"} -> "Timestamp"
      [] type \in {"timestamp with time zone", "timestamptz"} -> "TimestampTz"
      [] type = "date" -> "Date"
      [] type \in {"time without time zone", "time"} -> "Time"
      [] type \in {"time with time zone", "timetz"} -> "TimeTz"
      [] type = "_bool" -> "BoolArray"
      [] type \in {"_int2", "_int4", "_int8", "_oid"} -> "IntArray"
      [] type \in {"_float4", "_float8"} -> "FloatArray"
      [] type = "_numeric" -> "DecimalArray"
      [] type \in {"_text", "_varchar", "_bpchar", "_name"} -> "TextArray"
      [] OTHER -> "Custom"

\* The strings of a row in the order in which they are interned.
Strings(row) ==
    <<row.table, row.column>> \o row.checks
    \o FlattenSeq([i \in DOMAIN row.foreign_keys |->
          LET fk == row.foreign_keys[i]
          IN  <<fk.constraint_name, fk.namespace, fk.table, fk.column>>])
    \o (IF Kind(row.type) = "Custom" THEN <<row.type>> ELSE <<>>)
    \o (IF row.default = None THEN <<>> ELSE <<row.default>>)

UnresolvedFk ==
    [pool_index : Nat, source : Nat, table : Symbol, column : Symbol]

DatabaseSchemaBuilder ==
    [interner : Seq(STRING), tables : Seq(TableMeta), columns : Seq(Column),
     column_names : Seq(Symbol), constraint_pool : Seq(Symbol),
     foreign_key_pool : Seq(ForeignKey),
     current_table : {None} \cup Symbol, current_cols_start : Nat,
     current_fk_start : Nat, current_pk : {None} \cup Nat,
     unresolved : Seq(UnresolvedFk)]

EmptyBuilder ==
    [interner |-> <<>>, tables |-> <<>>, columns |-> <<>>,
     column_names |-> <<>>, constraint_pool |-> <<>>,
     foreign_key_pool |-> <<>>,
     current_table |-> None, current_cols_start |-> 0, current_fk_start |-> 0,
     current_pk |-> None, unresolved |-> <<>>]

\* finish_table.
FinishTable(b) ==
    IF b.current_table = None THEN b
    ELSE [b EXCEPT !.tables = Append(@,
            [name |-> b.current_table,
             columns_start |-> b.current_cols_start,
             columns_len |-> AsU16(Len(b.columns) - b.current_cols_start),
             primary_key |-> b.current_pk,
             fk_start |-> b.current_fk_start,
             fk_len |-> AsU16(Len(b.foreign_key_pool)
                              - b.current_fk_start)])]

\* The first part of add_row: a row of another table ends the table before.
StartTable(b, symbol) ==
    IF b.current_table = symbol THEN b
    ELSE [FinishTable(b) EXCEPT
            !.current_table = symbol,
            !.current_cols_start = Len(b.columns),
            !.current_fk_start = Len(b.foreign_key_pool),
            !.current_pk = None]

\* (mutant) The start is read after the pushes.
NextRangeAfter(pool, added) ==
    PoolRange(Len(pool) + Len(added), AsU16(Len(added)))

\* (mutant) The start is not read.
NextRangeFromZero(pool, added) == PoolRange(0, AsU16(Len(added)))

\* The range that a column's own elements will have in a pool.
NextRange(pool, added) == PoolRange(Len(pool), AsU16(Len(added)))

\* The rest of it: the column, and its foreign keys for build to resolve.
AddColumn(b, row) ==
    LET symbol(s) == SymbolOf(b.interner, s)
        fks == row.foreign_keys
        kind == Kind(row.type)
        column ==
            [name |-> symbol(row.column),
             data_type |-> IF kind = "Custom"
                           THEN [kind |-> kind, symbol |-> symbol(row.type)]
                           ELSE [kind |-> kind],
             default_value |-> IF row.default = None THEN None
                               ELSE symbol(row.default),
             flags |-> Flags(row.nullable, row.primary, row.unique),
             constraints |-> NextRange(b.constraint_pool, row.checks),
             foreign_keys |-> NextRange(b.foreign_key_pool, fks)]
    IN  [b EXCEPT
          !.columns = Append(@, column),
          !.column_names = Append(@, column.name),
          !.constraint_pool = @ \o [i \in DOMAIN row.checks |->
                                       symbol(row.checks[i])],
          !.foreign_key_pool = @ \o [i \in DOMAIN fks |->
              [constraint_name |-> symbol(fks[i].constraint_name),
               namespace |-> symbol(fks[i].namespace),
               table |-> 0, column |-> 0,
               on_update |-> fks[i].on_update,
               on_delete |-> fks[i].on_delete]],
          !.unresolved = @ \o [i \in DOMAIN fks |->
              [pool_index |-> Len(b.foreign_key_pool) + i - 1,
               source |-> Len(b.tables),
               table |-> symbol(fks[i].table),
               column |-> symbol(fks[i].column)]],
          !.current_pk = IF row.primary
                         THEN AsU16(Len(b.columns) - b.current_cols_start)
                         ELSE @]

WithRow(b, row) ==
    LET strings == InternAll(b.interner, Strings(row))
    IN  AddColumn(StartTable([b EXCEPT !.interner = strings],
                             SymbolOf(strings, row.table)), row)

Init ==
    /\ rows = <<>>
    /\ phase = "rows"
    /\ builder = EmptyBuilder
    /\ old_by_name = <<>>
    /\ resolved = <<>>
    /\ graph = <<>>
    /\ in_degree = <<>>
    /\ queue = <<>>
    /\ edges = <<>>
    /\ sorted = <<>>
    /\ schema = None

\* The rows of a table come together, tables in their order, columns once.
Follows(row) ==
    LET place(r) == Position(TableOrder, r.table)
        mates == {i \in DOMAIN rows : rows[i].table = row.table}
    IN  /\ \A i \in DOMAIN rows : place(rows[i]) <= place(row)
        /\ \A i \in mates : rows[i].column # row.column
        /\ Cardinality(mates) < MaxColumns

AddRow(row) ==
    /\ phase = "rows"
    /\ Follows(row)
    /\ rows' = Append(rows, row)
    /\ builder' = WithRow(builder, row)
    /\ UNCHANGED <<phase, old_by_name, resolved, graph, in_degree, queue,
                   edges, sorted, schema>>

-----------------------------------------------------------------------------
(* build.                                                                  *)

\* Up to the loop over the unresolved foreign keys.
Build ==
    /\ phase = "rows"
    /\ phase' = "resolve"
    /\ builder' = FinishTable(builder)
    /\ old_by_name' = SortedByName(builder'.tables)
    /\ graph' = [t \in Tables(builder') |-> <<>>]
    /\ in_degree' = [t \in Tables(builder') |-> 0]
    /\ UNCHANGED <<rows, resolved, queue, edges, sorted, schema>>

\* The table of a symbol, by old_by_name.
OldTable(symbol) ==
    LET slot == BinarySearch(KeysByName(builder, old_by_name), symbol)
    IN  IF slot = None THEN None ELSE At(old_by_name, slot)

\* The place of the column an unresolved foreign key names, or None.
Target(fk) ==
    IF OldTable(fk.table) = None THEN None
    ELSE Position(ColumnNames(builder, OldTable(fk.table)), fk.column)

\* (mutant) A table that refers to itself waits for itself.
WaitsSelf(fk) == Target(fk) # None

\* A table waits for another one it refers to.
Waits(fk) == Target(fk) # None /\ OldTable(fk.table) # fk.source

\* One more foreign key, on its way out of the list of the unresolved.
ResolveFk ==
    /\ phase = "resolve"
    /\ builder.unresolved # <<>>
    /\ LET fk == Head(builder.unresolved)
           table == OldTable(fk.table)
       IN  /\ resolved' = IF Target(fk) = None THEN resolved
                          ELSE Append(resolved,
                                 [pool_index |-> fk.pool_index,
                                  table |-> table, column |-> Target(fk)])
           /\ IF Waits(fk)
              THEN /\ graph' = [graph EXCEPT ![table] = Append(@, fk.source)]
                   /\ in_degree' = [in_degree EXCEPT ![fk.source] = @ + 1]
              ELSE UNCHANGED <<graph, in_degree>>
    /\ builder' = [builder EXCEPT !.unresolved = Tail(@)]
    /\ UNCHANGED <<rows, phase, old_by_name, queue, edges, sorted, schema>>

\* The tables of S in their old order.
InOrder(S) == SortedBy([t \in S |-> t], S)

StartSort ==
    /\ phase = "resolve"
    /\ builder.unresolved = <<>>
    /\ phase' = "sort"
    /\ queue' = InOrder({t \in Tables(builder) : in_degree[t] = 0})
    /\ UNCHANGED <<rows, builder, old_by_name, resolved, graph, in_degree,
                   edges, sorted, schema>>

\* queue.pop_front().
Visit ==
    /\ phase = "sort"
    /\ edges = <<>>
    /\ queue # <<>>
    /\ sorted' = Append(sorted, Head(queue))
    /\ edges' = graph[Head(queue)]
    /\ queue' = Tail(queue)
    /\ UNCHANGED <<rows, phase, builder, old_by_name, resolved, graph,
                   in_degree, schema>>

\* (mutant) A table is queued as soon as one of its references is visited.
ReadyEager(v) == ~ Contains(sorted \o queue, v)

\* The last reference that v waits for is being visited.
Ready(v) == in_degree[v] = 1

\* One table that refers to the table visited.
Relax ==
    /\ phase = "sort"
    /\ edges # <<>>
    /\ LET v == Head(edges)
       IN  /\ in_degree' = [in_degree EXCEPT ![v] = @ - 1]
           /\ queue' = IF Ready(v) THEN Append(queue, v) ELSE queue
    /\ edges' = Tail(edges)
    /\ UNCHANGED <<rows, phase, builder, old_by_name, resolved, graph, sorted,
                   schema>>

\* (mutant) The sort goes on until every table is sorted.
AllSorted == Len(sorted) = Len(builder.tables)

\* Nothing is left to visit.
Visited == queue = <<>>

\* What is on a cycle, or refers to it, comes last, in the old order.
AddCycles ==
    /\ phase = "sort"
    /\ edges = <<>>
    /\ Visited
    /\ phase' = "number"
    /\ sorted' = sorted \o InOrder({t \in Tables(builder) :
                                       ~ Contains(sorted, t)})
    /\ UNCHANGED <<rows, builder, old_by_name, resolved, graph, in_degree,
                   queue, edges, schema>>

\* The place of a foreign key of the old pool among those resolved, fks.
NewFk(fks, i) ==
    LET place == SelectInSeq(fks, LAMBDA r : r.pool_index = i)
    IN  IF place = 0 THEN None ELSE place - 1

\* What is left of a range of the pool.
Compacted(fks, start, len) ==
    LET kept == {i \in start..(start + len - 1) : NewFk(fks, i) # None}
    IN  PoolRange(IF kept = {} THEN 0
                  ELSE NewFk(fks, CHOOSE i \in kept : \A j \in kept : i <= j),
                  AsU16(Cardinality(kept)))

NewTable(fks, t) ==
    LET range == Compacted(fks, t.fk_start, t.fk_len)
    IN  [t EXCEPT !.fk_start = range.start, !.fk_len = range.len]

NewColumn(fks, c) ==
    [c EXCEPT !.foreign_keys = Compacted(fks, @.start, @.len)]

\* (mutant) The table keeps its old number.
NewForeignKeyOldNumber(r) ==
    [At(builder.foreign_key_pool, r.pool_index) EXCEPT
        !.table = r.table, !.column = r.column]

NewForeignKey(r) ==
    [At(builder.foreign_key_pool, r.pool_index) EXCEPT
        !.table = Position(sorted, r.table), !.column = r.column]

\* The rest of build: numbering, the index by name, compaction.
Built ==
    LET tables == [i \in DOMAIN sorted |-> At(builder.tables, sorted[i])]
    IN  [hash |-> Hash,
         interner |-> builder.interner,
         tables |-> [i \in DOMAIN sorted |-> NewTable(resolved, tables[i])],
         by_name |-> SortedByName(tables),
         columns |-> [i \in DOMAIN builder.columns |->
                         NewColumn(resolved, builder.columns[i])],
         column_names |-> builder.column_names,
         constraint_pool |-> builder.constraint_pool,
         foreign_key_pool |-> [i \in DOMAIN resolved |->
                                  NewForeignKey(resolved[i])]]

Finish ==
    /\ phase = "number"
    /\ schema' = Built
    /\ phase' = "done"
    /\ UNCHANGED <<rows, builder, old_by_name, resolved, graph, in_degree,
                   queue, edges, sorted>>

Step ==
    \/ Build
    \/ ResolveFk
    \/ StartSort
    \/ Visit
    \/ Relax
    \/ AddCycles
    \/ Finish

Next == Step \/ \E row \in Rows : AddRow(row)

Spec == Init /\ [][Next]_vars

\* build runs to its end once it is called.
Fairness == WF_vars(phase # "rows" /\ Step)

FairSpec == Spec /\ Fairness

-----------------------------------------------------------------------------
(* What the result should be, from the rows alone.                         *)

Names == {rows[i].table : i \in DOMAIN rows}

\* What s has at the places in S, in its order.
Chosen(s, S) ==
    LET place == InOrder(S) IN [i \in DOMAIN place |-> s[place[i]]]

RowsOf(table) == Chosen(rows, {i \in DOMAIN rows : rows[i].table = table})

\* A foreign key leads to a column of a table that was reported.  Its
\* namespace is not looked at.
Leads(fk) ==
    \E i \in DOMAIN rows :
        rows[i].table = fk.table /\ rows[i].column = fk.column

GoodFks(row) ==
    Chosen(row.foreign_keys, {i \in DOMAIN row.foreign_keys :
                                 Leads(row.foreign_keys[i])})

\* t has a foreign key to another table u.
RefersTo(t, u) ==
    /\ t # u
    /\ \E i \in DOMAIN rows : rows[i].table = t /\
          \E j \in DOMAIN GoodFks(rows[i]) : GoodFks(rows[i])[j].table = u

\* The tables from which references lead into a cycle.
Tangled ==
    UNION {S \in SUBSET Names : \A t \in S : \E u \in S : RefersTo(t, u)}

-----------------------------------------------------------------------------
(* Properties.                                                             *)

IsRange(pool, range) == range.start + range.len <= Len(pool)

TypeOK ==
    /\ phase \in {"rows", "resolve", "sort", "number", "done"}
    /\ rows \in Seq(Rows)
    /\ builder \in DatabaseSchemaBuilder
    /\ \A i \in DOMAIN builder.columns :
          /\ IsRange(builder.constraint_pool, builder.columns[i].constraints)
          /\ IsRange(builder.foreign_key_pool, builder.columns[i].foreign_keys)
    /\ old_by_name \in Seq(Tables(builder))
    /\ resolved \in Seq([pool_index : Indices(builder.foreign_key_pool),
                         table : Tables(builder), column : Nat])
    /\ phase # "rows" =>
          /\ graph \in [Tables(builder) -> Seq(Tables(builder))]
          /\ in_degree \in [Tables(builder) -> Nat]
    /\ \A s \in {queue, edges, sorted} : s \in Seq(Tables(builder))
    /\ schema \in {None} \cup DatabaseSchema
    /\ phase = "done" <=> schema # None

\* How often v is in the list s.
Times(s, v) == Cardinality({i \in DOMAIN s : s[i] = v})

\* The references of v to tables of T outside the list done: those in the
\* first n places of the lists of g.
Waiting(T, g, n, done, v) ==
    {e \in T \X (1..n) : /\ ~ Contains(done, e[1])
                         /\ e[2] \in DOMAIN g[e[1]]
                         /\ g[e[1]][e[2]] = v}

\* In every round of the sort, a table waits for as many references as lead
\* from it to tables not visited yet, the list in turn included; the tables
\* that wait for none are sorted or queued, once.  So no count falls below 0,
\* with several references to one table and with references of a table to
\* itself too.
CountsAreRight ==
    phase = "sort" =>
        \A v \in Tables(builder) :
            /\ in_degree[v] = Times(edges, v) + Cardinality(
                  Waiting(Tables(builder), graph, Len(resolved), sorted, v))
            /\ Times(sorted \o queue, v) = IF in_degree[v] = 0 THEN 1 ELSE 0

\* The table of a name in the result.
Found(name) ==
    TableBySymbol(schema, SymbolOf(schema.interner, name))

\* The strings of some symbols of the result.
StringsOf(symbols) ==
    [i \in DOMAIN symbols |-> At(schema.interner, symbols[i] - 1)]

\* Every table is found under its name, through an index that was sorted
\* again after the tables were, with the columns of its rows, its own primary
\* key (the last of several), and in every column the very checks of its row,
\* in their order; no other string is a table.
TablesAreFound ==
    phase = "done" =>
        \A i \in DOMAIN schema.interner :
            LET t == TableBySymbol(schema, i)
                mates == RowsOf(schema.interner[i])
                key == SelectLastInSeq(mates, LAMBDA r : r.primary)
            IN  /\ t = None <=> schema.interner[i] \notin Names
                /\ t # None =>
                    /\ TableName(schema, t) = i
                    /\ StringsOf(ColumnNames(schema, t))
                          = [j \in DOMAIN mates |-> mates[j].column]
                    /\ PrimaryKey(schema, t) =
                          IF key = 0 THEN None ELSE Columns(schema, t)[key]
                    /\ \A j \in DOMAIN mates :
                          LET column == ColumnBySymbol(schema, t,
                                  SymbolOf(schema.interner, mates[j].column))
                          IN  /\ column = Columns(schema, t)[j]
                              /\ IsPrimaryKey(column) = mates[j].primary
                              /\ IsNullable(column) = mates[j].nullable
                              /\ IsUnique(column) = mates[j].unique
                              /\ StringsOf(Constraints(schema, column))
                                    = mates[j].checks

\* Where the foreign keys of a list lead, by name.
Ends(fks) ==
    [i \in DOMAIN fks |->
        <<At(schema.interner, TableName(schema, fks[i].table) - 1),
          At(schema.interner, At(ColumnNames(schema, fks[i].table),
                                 fks[i].column) - 1)>>]

RawEnds(fks) == [i \in DOMAIN fks |-> <<fks[i].table, fks[i].column>>]

\* The foreign keys of a column, and of a table, are those of its rows that
\* lead somewhere, in order, and lead there still after tables and pool are
\* numbered anew.
ForeignKeysLeadHome ==
    phase = "done" =>
        \A name \in Names :
            LET t == Found(name)
                mates == RowsOf(name)
            IN  /\ \A i \in DOMAIN mates :
                      Ends(ColumnForeignKeys(schema, Columns(schema, t)[i]))
                          = RawEnds(GoodFks(mates[i]))
                /\ Ends(ForeignKeys(schema, t)) = FlattenSeq(
                      [i \in DOMAIN mates |-> RawEnds(GoodFks(mates[i]))])

\* A table comes after every table it refers to, unless its references lead
\* into a cycle; those tables come last.
OrderIsTopological ==
    phase = "done" =>
        \A t, u \in Names :
            /\ RefersTo(t, u) /\ t \notin Tangled => Found(u) < Found(t)
            /\ t \notin Tangled /\ u \in Tangled => Found(t) < Found(u)

\* The tables to start from and to end with are those that refer to no other
\* table and those no other table refers to, also among cycles.
EndsAreFound ==
    phase = "done" =>
        /\ IndependentTables(schema) = {Found(t) : t \in
              {v \in Names : \A u \in Names : ~ RefersTo(v, u)}}
        /\ LeafTables(schema) = {Found(t) : t \in
              {v \in Names : \A u \in Names : ~ RefersTo(u, v)}}

\* decode gives back the schema that was encoded, decode_unchecked too.
RoundTrip ==
    phase = "done" =>
        LET buf == Encode(schema)
        IN  Decode(buf) = schema /\ DecodeUnchecked(buf) = schema

\* decode refuses what is cut short anywhere, and a symbol that is 0.
DamageIsRefused ==
    phase = "done" =>
        LET buf == Encode(schema)
        IN  /\ \A n \in 0..(Len(buf) - 1) : Decode(SubSeq(buf, 1, n)) = None
            /\ \A p \in SymbolFields(buf) :
                  Decode([buf EXCEPT ![p] = 0]) = None

\* build returns, whatever cycles the references form.
BuildReturns == phase = "resolve" ~> phase = "done"
=============================================================================
