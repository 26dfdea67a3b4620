------------------------------- MODULE Schema -------------------------------
(***************************************************************************)
(* A DatabaseSchema, how it is read, and its binary form:                  *)
(* crates/database/src/core/schema.rs, with the types of value.rs.         *)
(*                                                                         *)
(* A schema is a record of arrays that point into each other by number, as *)
(* in the source; numbers count from 0, as they do there.  The interner is *)
(* the sequence of the strings it holds and a Symbol the place of one in   *)
(* it, so that symbols are never 0 and compare in the order of interning;  *)
(* its own workings are module StringInterner's.                           *)
(*                                                                         *)
(* The encoded form is the sequence of the fields that encode writes.  A   *)
(* field is read whole or not at all, so a byte string that is cut short   *)
(* is one with fewer fields; the interner's bytes and their length are one *)
(* field, as are the bytes of the hash.                                    *)
(* Operators marked (mutant) are wrong variants of the definition that     *)
(* follows them; nothing uses them but mutation testing.                   *)
(***************************************************************************)
EXTENDS Integers, Sequences, FiniteSets, SequencesExt

CONSTANTS
    None,       \* Rust's None
    U16         \* 2^16: one more than u16::MAX

ASSUME U16Assumption == U16 \in Nat \ {0, 1}

\* n as u16
AsU16(n) == n % U16

At(s, i) == s[i + 1]

\* &s[start..start + len]
Slice(s, start, len) == SubSeq(s, start + 1, start + len)

\* The places of s, from 0.
Indices(s) == 0..(Len(s) - 1)

\* Iterator::position.
Position(s, x) ==
    LET i == SelectInSeq(s, LAMBDA y : y = x)
    IN  IF i = 0 THEN None ELSE i - 1

\* The middle of what a binary search still looks at: the places from r[1] up
\* to and without r[2].
Middle(r) == (r[1] + r[2]) \div 2

\* The half where x is, if x is not in the middle.
Half(keys, x, r) ==
    IF At(keys, Middle(r)) < x THEN <<Middle(r) + 1, r[2]>>
                               ELSE <<r[1], Middle(r)>>

\* slice::binary_search over the keys of some elements.
BinarySearch(keys, x) ==
    LET places == 0..Len(keys)
        search[r \in places \X places] ==
            IF r[1] >= r[2] THEN None
            ELSE IF At(keys, Middle(r)) = x THEN Middle(r)
            ELSE search[Half(keys, x, r)]
    IN  search[<<0, Len(keys)>>]

\* The numbers in S in the order of their keys, those of equal keys in their
\* own order.
SortedBy(key, S) ==
    LET n == Cardinality(S)
        Before(t, u) == key[t] < key[u] \/ (key[t] = key[u] /\ t < u)
    IN  CHOOSE s \in [1..n -> S] :
            \A i, j \in 1..n : i < j => Before(s[i], s[j])

\* (mutant) The order is that of the tables.
NotSorted(tables) == [i \in 1..Len(tables) |-> i - 1]

\* The numbers of the tables in the order of their names' symbols.
SortedByName(tables) ==
    SortedBy([t \in Indices(tables) |-> At(tables, t).name], Indices(tables))

-----------------------------------------------------------------------------
(* Types, flags, actions and ranges.                                       *)

\* ValueType, each type at the place of its discriminant.  A type the list
\* does not have is Custom, with the symbol of its name.
ValueTypes ==
    <<"Null", "Bool", "Int", "Float", "Decimal", "Text", "Blob", "Json",
      "Uuid", "Timestamp", "TimestampTz", "Date", "Time", "TimeTz", "Custom",
      "BoolArray", "IntArray", "FloatArray", "DecimalArray", "TextArray">>

ToU8(type) == Position(ValueTypes, type.kind)

Actions == <<"NoAction", "Cascade", "SetNull", "SetDefault", "Restrict">>

Bit(b, weight) == IF b THEN weight ELSE 0

\* ColumnFlags: NULLABLE is bit 0, PRIMARY_KEY bit 1, UNIQUE bit 2.
Flags(nullable, primary, unique) ==
    Bit(nullable, 1) + Bit(primary, 2) + Bit(unique, 4)

IsNullable(column) == column.flags % 2 = 1
IsPrimaryKey(column) == (column.flags \div 2) % 2 = 1
IsUnique(column) == (column.flags \div 4) % 2 = 1

PoolRange(start, len) == [start |-> start, len |-> len]

\* NonZeroU32
Symbol == Nat \ {0}

PoolRanges == [start : Nat, len : Nat]

ValueType ==
    [kind : Range(ValueTypes) \ {"Custom"}]
    \cup [kind : {"Custom"}, symbol : Symbol]

TableMeta ==
    [name : Symbol, columns_start : Nat, columns_len : Nat,
     primary_key : {None} \cup Nat, fk_start : Nat, fk_len : Nat]

Column ==
    [name : Symbol, data_type : ValueType, default_value : {None} \cup Symbol,
     flags : Nat, constraints : PoolRanges, foreign_keys : PoolRanges]

ForeignKey ==
    [constraint_name : Symbol, namespace : Symbol, table : Nat, column : Nat,
     on_update : Range(Actions), on_delete : Range(Actions)]

DatabaseSchema ==
    [hash : STRING, interner : Seq(STRING), tables : Seq(TableMeta),
     by_name : Seq(Nat), columns : Seq(Column), column_names : Seq(Symbol),
     constraint_pool : Seq(Symbol), foreign_key_pool : Seq(ForeignKey)]

ASSUME NoneAssumption ==
    None \notin Int /\ None \notin STRING /\ None \notin DatabaseSchema

Within(pool, range) == Slice(pool, range.start, range.len)

-----------------------------------------------------------------------------
(* Reading a schema s.  Tables are known by their number in it.            *)

Tables(s) == Indices(s.tables)

TableName(s, t) == At(s.tables, t).name

\* TableRef::columns and column_names.
Columns(s, t) ==
    Slice(s.columns, At(s.tables, t).columns_start,
          At(s.tables, t).columns_len)

ColumnNames(s, t) ==
    Slice(s.column_names, At(s.tables, t).columns_start,
          At(s.tables, t).columns_len)

\* TableRef::column_by_symbol, by way of position.
ColumnBySymbol(s, t, name) ==
    LET i == Position(ColumnNames(s, t), name)
    IN  IF i = None THEN None
        ELSE At(s.columns, At(s.tables, t).columns_start + i)

PrimaryKey(s, t) ==
    LET meta == At(s.tables, t)
    IN  IF meta.primary_key = None THEN None
        ELSE At(s.columns, meta.columns_start + meta.primary_key)

\* TableRef::foreign_keys and ColumnRef::foreign_keys, constraints.
ForeignKeys(s, t) ==
    Slice(s.foreign_key_pool, At(s.tables, t).fk_start,
          At(s.tables, t).fk_len)

ColumnForeignKeys(s, column) == Within(s.foreign_key_pool, column.foreign_keys)

Constraints(s, column) == Within(s.constraint_pool, column.constraints)

TableAt(s, i) == IF i < Len(s.tables) THEN i ELSE None

\* The names of the tables in the order of the index by_name.
KeysByName(s, by_name) ==
    [i \in DOMAIN by_name |-> TableName(s, by_name[i])]

TableBySymbol(s, symbol) ==
    LET slot == BinarySearch(KeysByName(s, s.by_name), symbol)
    IN  IF slot = None THEN None ELSE TableAt(s, At(s.by_name, slot))

\* The tables that refer to no other table.
IndependentTables(s) ==
    {t \in Tables(s) :
        \A i \in DOMAIN ForeignKeys(s, t) : ForeignKeys(s, t)[i].table = t}

\* (mutant) A reference of a table to itself counts.
LeafTablesSelf(s) ==
    {t \in Tables(s) : \A u \in Tables(s) :
        \A i \in DOMAIN ForeignKeys(s, u) : ForeignKeys(s, u)[i].table # t}

\* The tables that no other table refers to.
LeafTables(s) ==
    {t \in Tables(s) : \A u \in Tables(s) \ {t} :
        \A i \in DOMAIN ForeignKeys(s, u) : ForeignKeys(s, u)[i].table # t}

-----------------------------------------------------------------------------
(* encode.                                                                 *)

EncodedTable(t) ==
    <<t.name, t.columns_start, t.columns_len,
      IF t.primary_key = None THEN U16 - 1 ELSE t.primary_key,
      t.fk_start, t.fk_len>>

EncodedColumn(c) ==
    <<c.name, ToU8(c.data_type)>>
    \o (IF c.data_type.kind = "Custom" THEN <<c.data_type.symbol>> ELSE <<>>)
    \o <<IF c.default_value = None THEN 0 ELSE c.default_value, c.flags,
         c.constraints.start, c.constraints.len,
         c.foreign_keys.start, c.foreign_keys.len>>

EncodedForeignKey(fk) ==
    <<fk.constraint_name, fk.namespace, fk.table, fk.column,
      Position(Actions, fk.on_update), Position(Actions, fk.on_delete)>>

\* A length and as many elements.
EncodedList(list, Encoded(_)) ==
    <<Len(list)>> \o FlattenSeq([i \in DOMAIN list |-> Encoded(list[i])])

Encode(s) ==
    <<s.hash, s.interner>>
    \o EncodedList(s.tables, EncodedTable)
    \o EncodedList(s.by_name, LAMBDA i : <<i>>)
    \o EncodedList(s.columns, EncodedColumn)
    \o EncodedList(s.column_names, LAMBDA x : <<x>>)
    \o EncodedList(s.constraint_pool, LAMBDA x : <<x>>)
    \o EncodedList(s.foreign_key_pool, EncodedForeignKey)

-----------------------------------------------------------------------------
(* decode and decode_unchecked.  Both walk over the fields in the order    *)
(* they were written; below, where that walk comes to each list.  A field  *)
(* that is missing ends decode, so what its value is taken for has no      *)
(* effect.                                                                 *)

Field(buf, p) == IF p \in DOMAIN buf THEN buf[p] ELSE 0

\* Where a list starting at p ends, when its elements have w fields each.
AfterList(buf, p, w) == p + 1 + w * Field(buf, p)

TablesAt == 3
ByNameAt(buf) == AfterList(buf, TablesAt, 6)
ColumnsAt(buf) == AfterList(buf, ByNameAt(buf), 1)

CustomTag == Position(ValueTypes, "Custom")

\* (mutant) The symbol of a custom type is forgotten.
ColumnWidthFixed(buf, p) == 8

ColumnWidth(buf, p) == IF Field(buf, p + 1) = CustomTag THEN 9 ELSE 8

\* Where the columns start, and at the end where the last one ends.
ColumnStarts(buf) ==
    LET n == Field(buf, ColumnsAt(buf))
        start[i \in 0..n] ==
            IF i = 0 THEN ColumnsAt(buf) + 1
            ELSE LET p == start[i - 1] IN p + ColumnWidth(buf, p)
    IN  start

ColumnNamesAt(buf) == ColumnStarts(buf)[Field(buf, ColumnsAt(buf))]
ConstraintsAt(buf) == AfterList(buf, ColumnNamesAt(buf), 1)
ForeignKeysAt(buf) == AfterList(buf, ConstraintsAt(buf), 1)
End(buf) == AfterList(buf, ForeignKeysAt(buf), 6)

\* The list at p, whose i-th element (from 0) Decoded(i) reads.
DecodedList(buf, p, Decoded(_)) ==
    [i \in 1..buf[p] |-> Decoded(i - 1)]

DecodedTable(buf, p) ==
    [name |-> buf[p], columns_start |-> buf[p + 1], columns_len |-> buf[p + 2],
     primary_key |-> IF buf[p + 3] = U16 - 1 THEN None ELSE buf[p + 3],
     fk_start |-> buf[p + 4], fk_len |-> buf[p + 5]]

DecodedColumn(buf, p) ==
    LET kind == At(ValueTypes, buf[p + 1])
        q == p + ColumnWidth(buf, p) - 6
    IN  [name |-> buf[p],
         data_type |-> IF kind = "Custom"
                       THEN [kind |-> kind, symbol |-> buf[p + 2]]
                       ELSE [kind |-> kind],
         default_value |-> IF buf[q] = 0 THEN None ELSE buf[q],
         flags |-> buf[q + 1],
         constraints |-> PoolRange(buf[q + 2], buf[q + 3]),
         foreign_keys |-> PoolRange(buf[q + 4], buf[q + 5])]

DecodedForeignKey(buf, p) ==
    [constraint_name |-> buf[p], namespace |-> buf[p + 1],
     table |-> buf[p + 2], column |-> buf[p + 3],
     on_update |-> At(Actions, buf[p + 4]),
     on_delete |-> At(Actions, buf[p + 5])]

DecodeUnchecked(buf) ==
    LET starts == ColumnStarts(buf)
        symbols(p) == DecodedList(buf, p, LAMBDA i : buf[p + 1 + i])
    IN  [hash |-> buf[1],
         interner |-> buf[2],
         tables |-> DecodedList(buf, TablesAt,
                        LAMBDA i : DecodedTable(buf, TablesAt + 1 + 6 * i)),
         by_name |-> symbols(ByNameAt(buf)),
         columns |-> DecodedList(buf, ColumnsAt(buf),
                        LAMBDA i : DecodedColumn(buf, starts[i])),
         column_names |-> symbols(ColumnNamesAt(buf)),
         constraint_pool |-> symbols(ConstraintsAt(buf)),
         foreign_key_pool |-> DecodedList(buf, ForeignKeysAt(buf),
             LAMBDA i : DecodedForeignKey(buf, ForeignKeysAt(buf) + 1 + 6 * i))]

\* Where read_sym! reads a symbol, which must not be 0.
SymbolFields(buf) ==
    LET list(p, w) == {p + 1 + w * i : i \in 0..(buf[p] - 1)}
        columns == {ColumnStarts(buf)[i] : i \in 0..(buf[ColumnsAt(buf)] - 1)}
    IN  list(TablesAt, 6)
        \cup columns
        \cup {p + 2 : p \in {c \in columns : buf[c + 1] = CustomTag}}
        \cup list(ColumnNamesAt(buf), 1)
        \cup list(ConstraintsAt(buf), 1)
        \cup list(ForeignKeysAt(buf), 6)
        \cup {p + 1 : p \in list(ForeignKeysAt(buf), 6)}

TagFields(buf) ==
    {ColumnStarts(buf)[i] + 1 : i \in 0..(buf[ColumnsAt(buf)] - 1)}

\* (mutant) A symbol may be 0.
DecodeAnySymbol(buf) ==
    IF /\ End(buf) <= Len(buf) + 1
       /\ \A p \in TagFields(buf) : buf[p] \in Indices(ValueTypes)
    THEN DecodeUnchecked(buf) ELSE None

Decode(buf) ==
    IF /\ End(buf) <= Len(buf) + 1
       /\ \A p \in SymbolFields(buf) : buf[p] # 0
       /\ \A p \in TagFields(buf) : buf[p] \in Indices(ValueTypes)
    THEN DecodeUnchecked(buf) ELSE None
=============================================================================
