------------------------- MODULE SchemaLinks_proofs -------------------------
(***************************************************************************)
(* Proofs about module SchemaBuilder that reach from the rows of the       *)
(* catalogue to the schema: what add_row files stays linked to its row     *)
(* through every step of build, so that the result's tables, keys and      *)
(* order are those the rows ask for, and encode and decode lose nothing    *)
(* of it.                                                                  *)
(***************************************************************************)
EXTENDS SchemaBuilder_proofs, SchemaCodec_proofs

-----------------------------------------------------------------------------
(* Damage.                                                                 *)

\* decode refuses every buffer that encode could have written of the result
\* of build when it is cut short anywhere or has a symbol that is 0, for any
\* rows.
THEOREM DamageRefused == Spec => []DamageIsRefused
<1>1. IInv => DamageIsRefused
  <2> SUFFICES ASSUME IInv, phase = "done" PROVE DamageIsRefused
    BY DEF DamageIsRefused
  <2>1. schema \in DatabaseSchema
    BY BuiltIs DEF IInv, DoneInv
  <2>2. ASSUME NEW n \in 0..(Len(Encode(schema)) - 1)
        PROVE  Decode(SubSeq(Encode(schema), 1, n)) = None
    BY <2>1, CutsAreRefused
  <2>3. ASSUME NEW p \in SymbolFields(Encode(schema))
        PROVE  Decode([Encode(schema) EXCEPT ![p] = 0]) = None
    BY <2>1, ZeroSymbolsAreRefused
  <2> QED
    BY <2>2, <2>3 DEF DamageIsRefused
<1> QED
  BY <1>1, Inductive, PTL

-----------------------------------------------------------------------------
(* What is listed in order.                                                *)

Increasing(s) == \A i, j \in 1..Len(s) : i < j => s[i] < s[j]

\* Two increasing lists of the same numbers are the same.
LEMMA OrderIsUnique ==
    ASSUME NEW S \in SUBSET Nat, NEW s \in Seq(S), NEW t \in Seq(S),
           Increasing(s), Increasing(t),
           \A x \in S : Has(s, x) /\ Has(t, x)
    PROVE  \A i \in 1..Len(s) : i \in 1..Len(t) /\ s[i] = t[i]
<1> DEFINE n == Len(s)
           m == Len(t)
           P == {i \in Nat : \A j \in 1..i : j <= n => j <= m /\ s[j] = t[j]}
<1>1. /\ n \in Nat /\ m \in Nat
      /\ \A i \in 1..n : s[i] \in S
      /\ \A i \in 1..m : t[i] \in S
  OBVIOUS
<1>2. 0 \in P
  OBVIOUS
<1>3. ASSUME NEW i \in Nat, i < n, i \in P PROVE i + 1 \in P
  <2> DEFINE k == i + 1
  <2>1. k \in 1..n /\ \A j \in 1..i : j <= m /\ s[j] = t[j]
    BY <1>1, <1>3
  <2>2. PICK a \in 1..m : t[a] = s[k]
    BY <1>1, <2>1 DEF Has
  <2>3. a > i
    <3> SUFFICES ASSUME a \in 1..i PROVE FALSE
      BY <1>1, <2>2
    <3>1. s[a] = s[k] /\ a \in 1..n /\ a < k
      BY <1>1, <1>3, <2>1, <2>2
    <3>2. s[a] < s[k] /\ s[k] \in Nat
      BY <1>1, <2>1, <3>1 DEF Increasing
    <3> QED
      BY <3>1, <3>2
  <2>4. k \in 1..m
    BY <1>1, <2>2, <2>3
  <2>5. PICK b \in 1..n : s[b] = t[k]
    BY <1>1, <2>4 DEF Has
  <2>6. b > i
    <3> SUFFICES ASSUME b \in 1..i PROVE FALSE
      BY <1>1, <2>5
    <3>1. t[b] = t[k] /\ b \in 1..m /\ b < k
      BY <1>1, <2>1, <2>4, <2>5
    <3>2. t[b] < t[k] /\ t[k] \in Nat
      BY <1>1, <2>4, <3>1 DEF Increasing
    <3> QED
      BY <3>1, <3>2
  <2>7. s[k] \in Nat /\ t[k] \in Nat
    BY <1>1, <2>1, <2>4
  <2>8. t[k] <= s[k]
    <3>1. k <= a /\ k \in Nat /\ a \in Nat
      BY <2>2, <2>3, <2>4
    <3>2. k = a \/ k < a
      BY <3>1
    <3>3. k < a => t[k] < t[a]
      BY <2>2, <2>4 DEF Increasing
    <3> QED
      BY <2>2, <2>7, <3>2, <3>3
  <2>9. s[k] <= t[k]
    <3>1. k <= b /\ k \in Nat /\ b \in Nat
      BY <2>1, <2>5, <2>6
    <3>2. k = b \/ k < b
      BY <3>1
    <3>3. k < b => s[k] < s[b]
      BY <2>1, <2>5 DEF Increasing
    <3> QED
      BY <2>5, <2>7, <3>2, <3>3
  <2>10. s[k] = t[k] /\ k <= m
    BY <2>4, <2>7, <2>8, <2>9
  <2> HIDE DEF n, m
  <2>11. ASSUME NEW j \in 1..k, j <= n PROVE j <= m /\ s[j] = t[j]
    <3>1. j = k \/ j \in 1..i
      BY <1>3
    <3> QED
      BY <2>1, <2>10, <3>1
  <2> QED
    BY <1>3, <2>11
<1>4. \A i \in 0..n : i \in P
  <2> HIDE DEF P, n
  <2> QED
    BY <1>1, <1>2, <1>3, UpTo
<1>5. n \in P
  <2> HIDE DEF P
  <2> QED
    BY <1>1, <1>4
<1> QED
  BY <1>1, <1>5

\* InOrder is the one increasing list of a set.
LEMMA InOrderSorts ==
    ASSUME NEW S \in SUBSET Nat, IsFiniteSet(S)
    PROVE  /\ InOrder(S) \in Seq(S) /\ Increasing(InOrder(S))
           /\ \A x \in S : Has(InOrder(S), x)
           /\ Len(InOrder(S)) = Cardinality(S)
<1> DEFINE key == [t \in S |-> t]
           s == SortedBy(key, S)
<1>1. InOrder(S) = s
  BY DEF InOrder
<1>2. key \in [S -> Int] /\ S \in SUBSET Int /\ \A t \in S : key[t] = t
  OBVIOUS
<1> HIDE DEF key
<1>3. /\ s \in Seq(S) /\ Len(s) = Cardinality(S) /\ Cardinality(S) \in Nat
      /\ InKeyOrder(key, s, Cardinality(S))
      /\ \A x \in S : \E i \in 1..Cardinality(S) : s[i] = x
  BY <1>2, SortedBySorts
<1> HIDE DEF s
<1>4. \A i \in 1..Len(s) : s[i] \in S
  BY <1>3
<1>5. Increasing(s)
  BY <1>2, <1>3, <1>4 DEF Increasing, InKeyOrder, Before
<1> QED
  BY <1>1, <1>3, <1>5 DEF Has

LEMMA InOrderIsThat ==
    ASSUME NEW S \in SUBSET Nat, IsFiniteSet(S), NEW s \in Seq(S),
           Increasing(s), \A x \in S : Has(s, x)
    PROVE  InOrder(S) = s
<1> DEFINE t == InOrder(S)
<1>1. t \in Seq(S) /\ Increasing(t) /\ \A x \in S : Has(t, x)
  BY InOrderSorts
<1> HIDE DEF t
<1>2. \A i \in 1..Len(s) : i \in 1..Len(t) /\ s[i] = t[i]
  BY <1>1, OrderIsUnique
<1>3. \A i \in 1..Len(t) : i \in 1..Len(s) /\ t[i] = s[i]
  BY <1>1, OrderIsUnique
<1>4. Len(s) \in Nat /\ Len(t) \in Nat
  BY <1>1
<1>5. Len(s) = Len(t)
  BY <1>2, <1>3, <1>4
<1> QED
  BY <1>1, <1>2, <1>5, SeqEqual DEF t

\* The numbers from a to b.
LEMMA IntervalInOrder ==
    ASSUME NEW a \in Nat, NEW b \in Int, a <= b + 1
    PROVE  InOrder(a..b) = [k \in 1..(b + 1 - a) |-> a + k - 1]
<1> DEFINE S == a..b
           s == [k \in 1..(b + 1 - a) |-> a + k - 1]
<1>1. S \in SUBSET Nat /\ IsFiniteSet(S)
  BY FS_Interval
<1>2. b + 1 - a \in Nat /\ \A k \in 1..(b + 1 - a) : a + k - 1 \in S
  OBVIOUS
<1>3. s \in Seq(S) /\ Len(s) = b + 1 - a
  BY <1>2
<1>4. Increasing(s)
  BY <1>2, <1>3 DEF Increasing
<1>5. ASSUME NEW x \in S PROVE Has(s, x)
  <2>1. x + 1 - a \in 1..(b + 1 - a) /\ a + (x + 1 - a) - 1 = x
    OBVIOUS
  <2>2. s[x + 1 - a] = x
    BY <2>1
  <2> QED
    BY <1>3, <2>1, <2>2 DEF Has
<1> HIDE DEF s
<1>6. InOrder(S) = s
  <2> HIDE DEF S
  <2> QED
    BY <1>1, <1>3, <1>4, <1>5, InOrderIsThat
<1> QED
  BY <1>6 DEF s

-----------------------------------------------------------------------------
(* The interner: symbols keep their strings.                               *)

\* No string is interned twice.
NoRepeats(s) == \A i, j \in 1..Len(s) : s[i] = s[j] => i = j

\* t starts with s.
Grows(s, t) == Len(s) <= Len(t) /\ \A i \in 1..Len(s) : t[i] = s[i]

LEMMA AppendAt ==
    ASSUME NEW S, NEW s \in Seq(S), NEW x \in S
    PROVE  /\ Append(s, x) \in Seq(S) /\ Len(Append(s, x)) = Len(s) + 1
           /\ Append(s, x)[Len(s) + 1] = x /\ Len(s) \in Nat
           /\ \A i \in 1..Len(s) : Append(s, x)[i] = s[i]
OBVIOUS

LEMMA InternGrows ==
    ASSUME NEW S, NEW strings \in Seq(S), NEW s \in S, NoRepeats(strings)
    PROVE  Grows(strings, Intern(strings, s)) /\ NoRepeats(Intern(strings, s))
<1>1. Len(strings) \in Nat
  OBVIOUS
<1>2. CASE Contains(strings, s)
  <2>1. Intern(strings, s) = strings
    BY <1>2 DEF Intern
  <2> QED
    BY <1>1, <2>1 DEF Grows
<1>3. CASE ~ Contains(strings, s)
  <2> DEFINE more == Append(strings, s)
             n == Len(strings)
  <2>1. Intern(strings, s) = more
    BY <1>3 DEF Intern
  <2>2. \A i \in 1..n : strings[i] # s
    BY <1>3 DEF Contains
  <2>3. /\ Len(more) = n + 1 /\ more[n + 1] = s
        /\ \A i \in 1..n : more[i] = strings[i]
    BY AppendAt
  <2> HIDE DEF more, n
  <2>4. n \in Nat /\ \A i \in 1..(n + 1) : i = n + 1 \/ i \in 1..n
    BY <1>1 DEF n
  <2>5. Grows(strings, more)
    BY <2>3, <2>4 DEF Grows, n
  <2>6. ASSUME NEW i \in 1..(n + 1), NEW j \in 1..(n + 1), more[i] = more[j]
        PROVE  i = j
    <3>1. CASE i \in 1..n /\ j \in 1..n
      <4>1. strings[i] = strings[j]
        BY <2>3, <2>6, <3>1
      <4> QED
        BY <3>1, <4>1 DEF NoRepeats, n
    <3>2. CASE i = n + 1 /\ j \in 1..n
      BY <2>2, <2>3, <2>6, <3>2
    <3>3. CASE j = n + 1 /\ i \in 1..n
      BY <2>2, <2>3, <2>6, <3>3
    <3> QED
      BY <2>4, <3>1, <3>2, <3>3
  <2> QED
    BY <2>1, <2>3, <2>5, <2>6 DEF NoRepeats
<1> QED
  BY <1>2, <1>3

LEMMA GrowsOn ==
    ASSUME NEW S, NEW s \in Seq(S), NEW t \in Seq(S), NEW u \in Seq(S),
           Grows(s, t), Grows(t, u)
    PROVE  Grows(s, u)
BY DEF Grows

LEMMA InternAllGrows ==
    ASSUME NEW strings \in Seq(STRING), NEW more \in Seq(STRING),
           NoRepeats(strings)
    PROVE  /\ Grows(strings, InternAll(strings, more))
           /\ NoRepeats(InternAll(strings, more))
<1> DEFINE n == Len(more)
<1>1. n \in Nat /\ \A i \in 1..n : more[i] \in STRING
  OBVIOUS
<1>2. PICK f : /\ f[0] = strings
               /\ \A i \in 1..n : f[i] = Intern(f[i - 1], more[i])
               /\ InternAll(strings, more) = f[n]
  BY InternAllFunction
<1> DEFINE Good(i) == /\ f[i] \in Seq(STRING)
                      /\ Grows(strings, f[i]) /\ NoRepeats(f[i])
           P == {i \in 0..n : Good(i)}
<1>3. 0 \in P
  <2>1. Grows(strings, strings)
    BY DEF Grows
  <2> QED
    BY <1>1, <1>2, <2>1
<1>4. ASSUME NEW i \in Nat, i < n, i \in P PROVE i + 1 \in P
  <2>1. Good(i)
    BY <1>4
  <2>2. i + 1 \in 1..n /\ i + 1 \in 0..n /\ (i + 1) - 1 = i
    BY <1>1, <1>4
  <2> DEFINE old == f[i]
             s == more[i + 1]
             new == f[i + 1]
  <2>3. /\ old \in Seq(STRING) /\ s \in STRING /\ new = Intern(old, s)
        /\ Grows(strings, old) /\ NoRepeats(old)
    BY <1>1, <1>2, <2>1, <2>2
  <2> HIDE DEF old, s, new
  <2>4. new \in Seq(STRING) /\ Grows(old, new) /\ NoRepeats(new)
    BY <2>3, InternKeeps, InternGrows
  <2>5. Grows(strings, new)
    BY <2>3, <2>4, GrowsOn
  <2>6. Good(i + 1)
    BY <2>4, <2>5 DEF new
  <2> HIDE DEF Good
  <2> QED
    BY <2>2, <2>6
<1>5. Good(n)
  <2>1. \A i \in 0..n : i \in P
    <3> HIDE DEF P
    <3> QED
      BY <1>1, <1>3, <1>4, UpTo
  <2>2. n \in P
    <3> HIDE DEF P
    <3> QED
      BY <1>1, <2>1
  <2> HIDE DEF Good
  <2> QED
    BY <2>2
<1> QED
  BY <1>2, <1>5

-----------------------------------------------------------------------------
(* What add_row does to the builder b, with the row: c.                    *)

\* The table in turn, as finish_table will note it.
OpenTable(b) ==
    [name |-> b.current_table,
     columns_start |-> b.current_cols_start,
     columns_len |-> AsU16(Len(b.columns) - b.current_cols_start),
     primary_key |-> b.current_pk,
     fk_start |-> b.current_fk_start,
     fk_len |-> AsU16(Len(b.foreign_key_pool) - b.current_fk_start)]

\* All tables, with the one in turn.
AllTables(b) == FinishTable(b).tables

LEMMA AllTablesAre ==
    ASSUME NEW b \in DatabaseSchemaBuilder, StartsFit(b)
    PROVE  /\ b.current_table = None => AllTables(b) = b.tables
           /\ b.current_table # None =>
                 /\ AllTables(b) = Append(b.tables, OpenTable(b))
                 /\ OpenTable(b) \in TableMeta
           /\ AllTables(b) \in Seq(TableMeta)
<1>1. b.tables \in Seq(TableMeta)
  BY BuilderTypes
<1>2. CASE b.current_table = None
  BY <1>1, <1>2 DEF AllTables, FinishTable
<1>3. CASE b.current_table # None
  <2> DEFINE t == OpenTable(b)
  <2>1. FinishTable(b) = [b EXCEPT !.tables = Append(@, t)]
    BY <1>3 DEF FinishTable, OpenTable
  <2>2. /\ Len(b.columns) - b.current_cols_start \in Nat
        /\ Len(b.foreign_key_pool) - b.current_fk_start \in Nat
    BY BuilderTypes DEF StartsFit
  <2>3. /\ AsU16(Len(b.columns) - b.current_cols_start) \in Nat
        /\ AsU16(Len(b.foreign_key_pool) - b.current_fk_start) \in Nat
    BY <2>2, AsU16Fits
  <2>4. t \in TableMeta
    BY <1>3, <2>3, BuilderTypes DEF TableMeta, OpenTable
  <2> HIDE DEF t
  <2>5. AllTables(b) = Append(b.tables, t)
    BY <2>1 DEF AllTables, DatabaseSchemaBuilder
  <2>6. Append(b.tables, t) \in Seq(TableMeta)
    BY <1>1, <2>4
  <2> QED
    BY <1>3, <2>4, <2>5, <2>6 DEF t
<1> QED
  BY <1>2, <1>3

\* The column that is added, at the end.
ColumnAdded(b, row, c) ==
    LET n == Len(b.columns)
        column == c.columns[n + 1]
    IN  /\ Len(c.columns) = n + 1 /\ Grows(b.columns, c.columns)
        /\ column.flags = Flags(row.nullable, row.primary, row.unique)
        /\ column.constraints.start = Len(b.constraint_pool)
        /\ column.constraints.len = AsU16(Len(row.checks))
        /\ column.foreign_keys.start = Len(b.foreign_key_pool)
        /\ column.foreign_keys.len = AsU16(Len(row.foreign_keys))

NameAdded(b, row, c) ==
    LET n == Len(b.column_names)
    IN  /\ Len(c.column_names) = n + 1
        /\ Grows(b.column_names, c.column_names)
        /\ c.column_names[n + 1] \in 1..Len(c.interner)
        /\ c.interner[c.column_names[n + 1]] = row.column

\* The symbols of its checks, after those of the columns before.
ChecksAdded(b, row, c) ==
    LET n == Len(b.constraint_pool)
    IN  /\ Len(c.constraint_pool) = n + Len(row.checks)
        /\ Grows(b.constraint_pool, c.constraint_pool)
        /\ \A k \in 1..Len(row.checks) :
              /\ c.constraint_pool[n + k] \in 1..Len(c.interner)
              /\ c.interner[c.constraint_pool[n + k]] = row.checks[k]

\* Its foreign keys, for build to resolve.
UnresolvedAdded(b, row, c) ==
    LET n == Len(b.unresolved)
    IN  /\ Len(c.unresolved) = n + Len(row.foreign_keys)
        /\ Grows(b.unresolved, c.unresolved)
        /\ \A j \in 1..Len(row.foreign_keys) :
              LET u == c.unresolved[n + j]
                  fk == row.foreign_keys[j]
              IN  /\ u.pool_index = Len(b.foreign_key_pool) + j - 1
                  /\ u.source = Len(c.tables)
                  /\ u.table \in 1..Len(c.interner)
                  /\ c.interner[u.table] = fk.table
                  /\ u.column \in 1..Len(c.interner)
                  /\ c.interner[u.column] = fk.column

\* The row's table is in turn, a new one if the symbol is.
TableAdded(b, row, c) ==
    LET same == b.current_table = c.current_table
    IN  /\ c.current_table \in 1..Len(c.interner)
        /\ c.interner[c.current_table] = row.table
        /\ c.tables = IF same THEN b.tables ELSE AllTables(b)
        /\ c.current_cols_start = IF same THEN b.current_cols_start
                                  ELSE Len(b.columns)
        /\ c.current_fk_start = IF same THEN b.current_fk_start
                                ELSE Len(b.foreign_key_pool)
        /\ c.current_pk =
              IF row.primary THEN AsU16(Len(b.columns) - c.current_cols_start)
              ELSE IF same THEN b.current_pk ELSE None

IsAdded(b, row, c) ==
    /\ NoRepeats(b.interner) =>
          Grows(b.interner, c.interner) /\ NoRepeats(c.interner)
    /\ ColumnAdded(b, row, c)
    /\ NameAdded(b, row, c)
    /\ ChecksAdded(b, row, c)
    /\ Len(c.foreign_key_pool) = Len(b.foreign_key_pool)
                                 + Len(row.foreign_keys)
    /\ UnresolvedAdded(b, row, c)
    /\ TableAdded(b, row, c)

\* The first part: the strings are interned and the table is in turn.
LEMMA RowStarted ==
    ASSUME NEW b, BuilderFits(b), NEW row \in Row
    PROVE  LET strings == InternAll(b.interner, Strings(row))
               symbol == SymbolOf(strings, row.table)
               same == b.current_table = symbol
               a == StartTable([b EXCEPT !.interner = strings], symbol)
           IN  /\ BuilderFits(a) /\ a.interner = strings
               /\ strings \in Seq(STRING) /\ RowIsInterned(strings, row)
               /\ symbol \in 1..Len(strings) /\ strings[symbol] = row.table
               /\ a.current_table = symbol
               /\ a.columns = b.columns /\ a.column_names = b.column_names
               /\ a.constraint_pool = b.constraint_pool
               /\ a.foreign_key_pool = b.foreign_key_pool
               /\ a.unresolved = b.unresolved
               /\ a.tables = IF same THEN b.tables ELSE AllTables(b)
               /\ a.current_cols_start = IF same THEN b.current_cols_start
                                         ELSE Len(b.columns)
               /\ a.current_fk_start = IF same THEN b.current_fk_start
                                       ELSE Len(b.foreign_key_pool)
               /\ a.current_pk = IF same THEN b.current_pk ELSE None
<1> DEFINE strings == InternAll(b.interner, Strings(row))
           symbol == SymbolOf(strings, row.table)
           d == [b EXCEPT !.interner = strings]
           a == StartTable(d, symbol)
<1>1. /\ b \in DatabaseSchemaBuilder /\ b.interner \in Seq(STRING)
      /\ Strings(row) \in Seq(STRING)
  BY StringsAre, BuilderTypes DEF BuilderFits
<1>2. /\ strings \in Seq(STRING) /\ RowIsInterned(strings, row)
  BY <1>1, InternAllKeeps DEF RowIsInterned
<1> HIDE DEF strings
<1>3. Has(strings, row.table)
  BY <1>2, StringsAre DEF RowIsInterned
<1>4. /\ symbol \in Symbol /\ symbol \in 1..Len(strings)
      /\ strings[symbol] = row.table
  BY <1>2, <1>3, SymbolOfIs
<1> HIDE DEF symbol
<1>5. d \in DatabaseSchemaBuilder
  BY <1>1, <1>2 DEF DatabaseSchemaBuilder
<1>6. /\ d.tables = b.tables /\ d.columns = b.columns
      /\ d.column_names = b.column_names
      /\ d.constraint_pool = b.constraint_pool
      /\ d.foreign_key_pool = b.foreign_key_pool
      /\ d.unresolved = b.unresolved
      /\ d.current_table = b.current_table
      /\ d.current_cols_start = b.current_cols_start
      /\ d.current_fk_start = b.current_fk_start
      /\ d.current_pk = b.current_pk /\ d.interner = strings
  BY <1>1 DEF DatabaseSchemaBuilder
<1> HIDE DEF d
<1>7. BuilderFits(d)
  BY <1>5, <1>6
     DEF BuilderFits, ColumnsFit, StartsFit, UnresolvedFit
<1>8. BuilderFits(a) /\ a.current_table = symbol /\ a.interner = strings
  BY <1>4, <1>6, <1>7, StartTableKeeps
<1>9. AllTables(d) = AllTables(b)
  <2>1. StartsFit(b) /\ StartsFit(d)
    BY <1>7 DEF BuilderFits
  <2>2. OpenTable(d) = OpenTable(b)
    BY <1>6 DEF OpenTable
  <2> QED
    BY <1>1, <1>5, <1>6, <2>1, <2>2, AllTablesAre
<1>10. CASE b.current_table = symbol
  <2>1. a = d
    BY <1>6, <1>10 DEF StartTable
  <2> QED
    BY <1>2, <1>4, <1>6, <1>8, <1>10, <2>1 DEF strings, symbol, d
<1>11. CASE b.current_table # symbol
  <2> DEFINE f == FinishTable(d)
             e == [f EXCEPT !.current_table = symbol,
                            !.current_cols_start = Len(d.columns),
                            !.current_fk_start = Len(d.foreign_key_pool),
                            !.current_pk = None]
  <2>1. a = e
    BY <1>6, <1>11 DEF StartTable
  <2>2. f \in DatabaseSchemaBuilder /\ SameFields(d, f)
    BY <1>5, <1>7, FinishTableKeeps DEF BuilderFits
  <2>3. f.tables = AllTables(b)
    BY <1>9 DEF AllTables
  <2> HIDE DEF f
  <2>4. /\ e.tables = f.tables /\ e.columns = f.columns
        /\ e.column_names = f.column_names
        /\ e.constraint_pool = f.constraint_pool
        /\ e.foreign_key_pool = f.foreign_key_pool
        /\ e.unresolved = f.unresolved
        /\ e.current_cols_start = Len(d.columns)
        /\ e.current_fk_start = Len(d.foreign_key_pool)
        /\ e.current_pk = None
    BY <2>2 DEF DatabaseSchemaBuilder
  <2> HIDE DEF e, a
  <2>5. /\ a.columns = b.columns /\ a.column_names = b.column_names
        /\ a.constraint_pool = b.constraint_pool
        /\ a.foreign_key_pool = b.foreign_key_pool
        /\ a.unresolved = b.unresolved
        /\ a.tables = AllTables(b)
        /\ a.current_cols_start = Len(b.columns)
        /\ a.current_fk_start = Len(b.foreign_key_pool)
        /\ a.current_pk = None
    BY <1>6, <2>1, <2>2, <2>3, <2>4 DEF SameFields
  <2> QED
    BY <1>2, <1>4, <1>8, <1>11, <2>5 DEF strings, symbol, d, a
<1> QED
  BY <1>10, <1>11

LEMMA AppendGrows ==
    ASSUME NEW S, NEW s \in Seq(S), NEW x \in S
    PROVE  /\ Len(Append(s, x)) = Len(s) + 1 /\ Grows(s, Append(s, x))
           /\ Append(s, x)[Len(s) + 1] = x
BY AppendAt DEF Grows

LEMMA ConcatGrows ==
    ASSUME NEW S, NEW s \in Seq(S), NEW t \in Seq(S)
    PROVE  /\ Len(s \o t) = Len(s) + Len(t) /\ Grows(s, s \o t)
           /\ \A j \in 1..Len(t) : (s \o t)[Len(s) + j] = t[j]
BY ConcatAt DEF Grows

\* The second part: the column and its foreign keys.
LEMMA ColumnIsAdded ==
    ASSUME NEW a, BuilderFits(a), NEW row \in Row,
           RowIsInterned(a.interner, row)
    PROVE  LET c == AddColumn(a, row)
           IN  /\ c.interner = a.interner /\ c.tables = a.tables
               /\ c.current_table = a.current_table
               /\ c.current_cols_start = a.current_cols_start
               /\ c.current_fk_start = a.current_fk_start
               /\ c.current_pk =
                     IF row.primary
                     THEN AsU16(Len(a.columns) - a.current_cols_start)
                     ELSE a.current_pk
               /\ ColumnAdded(a, row, c) /\ NameAdded(a, row, c)
               /\ UnresolvedAdded(a, row, c) /\ ChecksAdded(a, row, c)
               /\ Len(c.foreign_key_pool) = Len(a.foreign_key_pool)
                                            + Len(row.foreign_keys)
<1> DEFINE col == ColumnOf(a, row)
           checks == ChecksOf(a, row)
           fks == ForeignKeysOf(a, row)
           us == UnresolvedOf(a, row)
           pk == IF row.primary
                 THEN AsU16(Len(a.columns) - a.current_cols_start)
                 ELSE a.current_pk
           c == AddColumn(a, row)
<1>1. a \in DatabaseSchemaBuilder
  BY DEF BuilderFits
<1>2. /\ c = [a EXCEPT !.columns = Append(a.columns, col),
                       !.column_names = Append(a.column_names, col.name),
                       !.constraint_pool = a.constraint_pool \o checks,
                       !.foreign_key_pool = a.foreign_key_pool \o fks,
                       !.unresolved = a.unresolved \o us,
                       !.current_pk = pk]
      /\ c.columns = Append(a.columns, col)
      /\ c.constraint_pool = a.constraint_pool \o checks
      /\ c.foreign_key_pool = a.foreign_key_pool \o fks
      /\ c.unresolved = a.unresolved \o us
      /\ c.interner = a.interner /\ c.tables = a.tables
      /\ c.current_table = a.current_table
      /\ c.current_cols_start = a.current_cols_start
      /\ c.current_fk_start = a.current_fk_start
  BY <1>1, AddColumnIs
<1>3. /\ col \in Column /\ checks \in Seq(Symbol)
      /\ Len(checks) = Len(row.checks)
      /\ fks \in Seq(ForeignKey) /\ Len(fks) = Len(row.foreign_keys)
      /\ us \in Seq(UnresolvedFk) /\ Len(us) = Len(row.foreign_keys)
      /\ Len(row.checks) \in Nat /\ Len(row.foreign_keys) \in Nat
  BY <1>1, AddedTypes
<1>4. /\ col.name = SymbolOf(a.interner, row.column)
      /\ col.flags = Flags(row.nullable, row.primary, row.unique)
      /\ col.constraints = NextRange(a.constraint_pool, row.checks)
      /\ col.foreign_keys = NextRange(a.foreign_key_pool, row.foreign_keys)
  BY DEF ColumnOf
<1>5. \A j \in DOMAIN row.foreign_keys :
         us[j] = [pool_index |-> Len(a.foreign_key_pool) + j - 1,
                  source |-> Len(a.tables),
                  table |-> SymbolOf(a.interner, row.foreign_keys[j].table),
                  column |-> SymbolOf(a.interner, row.foreign_keys[j].column)]
  BY DEF UnresolvedOf
<1> HIDE DEF col, checks, fks, us, pk, c
<1>6. /\ c.column_names = Append(a.column_names, col.name)
      /\ c.current_pk = pk
  BY <1>1, <1>2 DEF DatabaseSchemaBuilder
<1>7. /\ a.interner \in Seq(STRING)
      /\ a.columns \in Seq(Column) /\ a.column_names \in Seq(Symbol)
      /\ a.constraint_pool \in Seq(Symbol)
      /\ a.foreign_key_pool \in Seq(ForeignKey)
      /\ a.unresolved \in Seq(UnresolvedFk)
  BY <1>1, BuilderTypes
<1>8. ASSUME NEW x, Has(Strings(row), x)
      PROVE  /\ SymbolOf(a.interner, x) \in 1..Len(a.interner)
             /\ a.interner[SymbolOf(a.interner, x)] = x
  <2>1. Has(a.interner, x)
    BY <1>8 DEF RowIsInterned
  <2> QED
    BY <1>7, <2>1, SymbolOfIs
<1>9. ColumnAdded(a, row, c)
  <2>1. /\ Len(c.columns) = Len(a.columns) + 1 /\ Grows(a.columns, c.columns)
        /\ c.columns[Len(a.columns) + 1] = col
    BY <1>2, <1>3, <1>7, AppendGrows
  <2> QED
    BY <1>4, <2>1 DEF ColumnAdded, NextRange, PoolRange
<1>10. NameAdded(a, row, c)
  <2>1. col.name \in Symbol
    BY <1>3 DEF Column
  <2>2. /\ Len(c.column_names) = Len(a.column_names) + 1
        /\ Grows(a.column_names, c.column_names)
        /\ c.column_names[Len(a.column_names) + 1] = col.name
    BY <1>6, <1>7, <2>1, AppendGrows
  <2>3. Has(Strings(row), row.column)
    BY StringsAre
  <2>4. /\ col.name \in 1..Len(a.interner)
        /\ a.interner[col.name] = row.column
    BY <1>4, <1>8, <2>3
  <2> QED
    BY <1>2, <2>2, <2>4 DEF NameAdded
<1>11. UnresolvedAdded(a, row, c)
  <2> DEFINE n == Len(a.unresolved)
             m == Len(row.foreign_keys)
  <2>1. /\ Len(c.unresolved) = n + m /\ Grows(a.unresolved, c.unresolved)
        /\ \A j \in 1..m : c.unresolved[n + j] = us[j]
    <3>1. a.unresolved \in Seq(UnresolvedFk) /\ us \in Seq(UnresolvedFk)
      BY <1>3, <1>7
    <3>2. /\ Len(a.unresolved \o us) = n + Len(us)
          /\ Grows(a.unresolved, a.unresolved \o us)
          /\ \A j \in 1..Len(us) : (a.unresolved \o us)[n + j] = us[j]
      BY <3>1, ConcatGrows
    <3>3. c.unresolved = a.unresolved \o us /\ Len(us) = m
      BY <1>2, <1>3
    <3> QED
      BY <3>2, <3>3
  <2>2. row.foreign_keys \in Seq(RawForeignKey)
    BY DEF Row
  <2>3. DOMAIN row.foreign_keys = 1..m
    BY <2>2
  <2>4. ASSUME NEW j \in 1..m
        PROVE  LET u == c.unresolved[n + j]
                   fk == row.foreign_keys[j]
               IN  /\ u.pool_index = Len(a.foreign_key_pool) + j - 1
                   /\ u.source = Len(c.tables)
                   /\ u.table \in 1..Len(c.interner)
                   /\ c.interner[u.table] = fk.table
                   /\ u.column \in 1..Len(c.interner)
                   /\ c.interner[u.column] = fk.column
    <3> DEFINE u == c.unresolved[n + j]
               fk == row.foreign_keys[j]
    <3>1. /\ u.pool_index = Len(a.foreign_key_pool) + j - 1
          /\ u.source = Len(a.tables)
          /\ u.table = SymbolOf(a.interner, fk.table)
          /\ u.column = SymbolOf(a.interner, fk.column)
      <4>1. u = us[j]
        BY <2>1
      <4>2. j \in DOMAIN row.foreign_keys
        BY <2>3
      <4>3. us[j] = [pool_index |-> Len(a.foreign_key_pool) + j - 1,
                     source |-> Len(a.tables),
                     table |-> SymbolOf(a.interner, fk.table),
                     column |-> SymbolOf(a.interner, fk.column)]
        BY <1>5, <4>2
      <4> HIDE DEF u, fk
      <4> QED
        BY <4>1, <4>3
    <3>2. Has(Strings(row), fk.table) /\ Has(Strings(row), fk.column)
      BY <2>3, StringsAre
    <3> HIDE DEF u, fk
    <3>3. /\ u.table \in 1..Len(a.interner)
          /\ a.interner[u.table] = fk.table
          /\ u.column \in 1..Len(a.interner)
          /\ a.interner[u.column] = fk.column
      BY <1>8, <3>1, <3>2
    <3> QED
      BY <1>2, <3>1, <3>3 DEF u, fk
  <2> QED
    BY <2>1, <2>4 DEF UnresolvedAdded
<1>12. ChecksAdded(a, row, c)
  <2> DEFINE n == Len(a.constraint_pool)
             m == Len(row.checks)
  <2>1. a.constraint_pool \in Seq(Symbol) /\ checks \in Seq(Symbol)
    BY <1>3, <1>7
  <2>2. /\ Len(a.constraint_pool \o checks) = n + Len(checks)
        /\ Grows(a.constraint_pool, a.constraint_pool \o checks)
        /\ \A k \in 1..Len(checks) :
              (a.constraint_pool \o checks)[n + k] = checks[k]
    BY <2>1, ConcatGrows
  <2>3. /\ c.constraint_pool = a.constraint_pool \o checks
        /\ Len(checks) = m /\ c.interner = a.interner
    BY <1>2, <1>3
  <2>4. row.checks \in Seq(STRING)
    BY DEF Row
  <2>5. DOMAIN row.checks = 1..m
    BY <2>4
  <2>6. ASSUME NEW k \in 1..m
        PROVE  /\ checks[k] \in 1..Len(a.interner)
               /\ a.interner[checks[k]] = row.checks[k]
    <3>1. checks[k] = SymbolOf(a.interner, row.checks[k])
      BY <2>5 DEF checks, ChecksOf
    <3>2. Has(Strings(row), row.checks[k])
      BY <2>5, StringsAre
    <3> QED
      BY <1>8, <3>1, <3>2
  <2> QED
    BY <2>2, <2>3, <2>6 DEF ChecksAdded
<1>13. Len(c.foreign_key_pool) = Len(a.foreign_key_pool)
                                 + Len(row.foreign_keys)
  <2>1. a.foreign_key_pool \in Seq(ForeignKey) /\ fks \in Seq(ForeignKey)
    BY <1>3, <1>7
  <2>2. Len(a.foreign_key_pool \o fks) = Len(a.foreign_key_pool) + Len(fks)
    BY <2>1, ConcatGrows
  <2>3. c.foreign_key_pool = a.foreign_key_pool \o fks
    BY <1>2
  <2>4. Len(fks) = Len(row.foreign_keys)
    BY <1>3
  <2> QED
    BY <2>2, <2>3, <2>4
<1> QED
  BY <1>2, <1>6, <1>9, <1>10, <1>11, <1>12, <1>13 DEF c, pk

\* WithRow adds the row.
LEMMA RowIsAdded ==
    ASSUME NEW b, BuilderFits(b), NEW row \in Row
    PROVE  IsAdded(b, row, WithRow(b, row))
<1> DEFINE strings == InternAll(b.interner, Strings(row))
           symbol == SymbolOf(strings, row.table)
           a == StartTable([b EXCEPT !.interner = strings], symbol)
           c == WithRow(b, row)
<1>1. c = AddColumn(a, row)
  BY DEF WithRow
<1>2. /\ BuilderFits(a) /\ a.interner = strings
      /\ strings \in Seq(STRING) /\ RowIsInterned(strings, row)
      /\ symbol \in 1..Len(strings) /\ strings[symbol] = row.table
      /\ a.current_table = symbol
      /\ a.columns = b.columns /\ a.column_names = b.column_names
      /\ a.constraint_pool = b.constraint_pool
      /\ a.foreign_key_pool = b.foreign_key_pool
      /\ a.unresolved = b.unresolved
      /\ a.tables = IF b.current_table = symbol THEN b.tables ELSE AllTables(b)
      /\ a.current_cols_start = IF b.current_table = symbol
                                THEN b.current_cols_start ELSE Len(b.columns)
      /\ a.current_fk_start = IF b.current_table = symbol
                              THEN b.current_fk_start
                              ELSE Len(b.foreign_key_pool)
      /\ a.current_pk = IF b.current_table = symbol THEN b.current_pk ELSE None
  BY RowStarted
<1>3. /\ b \in DatabaseSchemaBuilder /\ b.interner \in Seq(STRING)
      /\ Strings(row) \in Seq(STRING)
  BY StringsAre, BuilderTypes DEF BuilderFits
<1>4. NoRepeats(b.interner) => Grows(b.interner, strings) /\ NoRepeats(strings)
  BY <1>3, InternAllGrows
<1> HIDE DEF strings, symbol, a, c
<1>5. /\ c.interner = a.interner /\ c.tables = a.tables
      /\ c.current_table = a.current_table
      /\ c.current_cols_start = a.current_cols_start
      /\ c.current_fk_start = a.current_fk_start
      /\ c.current_pk = IF row.primary
                        THEN AsU16(Len(a.columns) - a.current_cols_start)
                        ELSE a.current_pk
      /\ ColumnAdded(a, row, c) /\ NameAdded(a, row, c)
      /\ UnresolvedAdded(a, row, c) /\ ChecksAdded(a, row, c)
      /\ Len(c.foreign_key_pool) = Len(a.foreign_key_pool)
                                   + Len(row.foreign_keys)
  BY <1>1, <1>2, ColumnIsAdded
<1>6. ColumnAdded(b, row, c) /\ NameAdded(b, row, c) /\ ChecksAdded(b, row, c)
  BY <1>2, <1>5 DEF ColumnAdded, NameAdded, ChecksAdded
<1>7. UnresolvedAdded(b, row, c)
  BY <1>2, <1>5 DEF UnresolvedAdded
<1>8. TableAdded(b, row, c)
  BY <1>2, <1>5 DEF TableAdded
<1> QED
  BY <1>2, <1>4, <1>5, <1>6, <1>7, <1>8 DEF IsAdded, c

-----------------------------------------------------------------------------
(* The links between the rows rs and the builder b, whose tables with the  *)
(* one in turn are ts.  Rows count from 1, as in rs.                       *)

\* The rows came together by table, each column once.
RowsLinked(rs) ==
    /\ \A r, s \in 1..Len(rs) :
          rs[r].table = rs[s].table /\ rs[r].column = rs[s].column => r = s
    /\ \A r \in 1..Len(rs) : Position(TableOrder, rs[r].table)
                                <= Position(TableOrder, rs[Len(rs)].table)

\* The column of a row is at its place, with its name, its flags and as many
\* checks.
ColumnLinked(rs, b, r) ==
    /\ b.column_names[r] \in 1..Len(b.interner)
    /\ b.interner[b.column_names[r]] = rs[r].column
    /\ b.columns[r].flags
          = Flags(rs[r].nullable, rs[r].primary, rs[r].unique)
    /\ b.columns[r].constraints.len = AsU16(Len(rs[r].checks))
    /\ b.columns[r].foreign_keys.len = AsU16(Len(rs[r].foreign_keys))

ColumnsLinked(rs, b) ==
    /\ NoRepeats(b.interner)
    /\ Len(b.columns) = Len(rs) /\ Len(b.column_names) = Len(rs)
    /\ \A r \in 1..Len(rs) : ColumnLinked(rs, b, r)

\* The range of a column holds the symbols of its row's checks.
ChecksLinked(rs, b) ==
    \A r \in 1..Len(rs) : \A k \in 1..Len(rs[r].checks) :
        LET p == b.columns[r].constraints.start + k
        IN  /\ p \in 1..Len(b.constraint_pool)
            /\ b.constraint_pool[p] \in 1..Len(b.interner)
            /\ b.interner[b.constraint_pool[p]] = rs[r].checks[k]

\* The places in the pool of the foreign keys of a row.
KeysFrom(b, r) == b.columns[r].foreign_keys.start
KeysTo(rs, b, r) == KeysFrom(b, r) + Len(rs[r].foreign_keys)

\* They follow each other and fill the pool.
KeysLinked(rs, b) ==
    /\ Len(rs) = 0 => Len(b.foreign_key_pool) = 0
    /\ Len(rs) > 0 => KeysFrom(b, 1) = 0
    /\ \A r \in 1..Len(rs) :
          KeysTo(rs, b, r) = IF r = Len(rs) THEN Len(b.foreign_key_pool)
                             ELSE KeysFrom(b, r + 1)

\* The row is one of the table's.
InTable(m, r) == m.columns_start < r /\ r <= m.columns_start + m.columns_len

\* The primary key is the last one of the table's rows that is primary.
KeyLinked(rs, m) ==
    LET last == m.columns_start + m.primary_key + 1
    IN  /\ m.primary_key = None =>
              \A r \in 1..Len(rs) : InTable(m, r) => ~ rs[r].primary
        /\ m.primary_key # None =>
              /\ m.primary_key \in 0..(m.columns_len - 1)
              /\ rs[last].primary
              /\ \A r \in 1..Len(rs) : InTable(m, r) /\ rs[r].primary
                                          => r <= last

\* The table's rows are those of its name.
TableLinked(rs, b, m) ==
    /\ m.name \in 1..Len(b.interner)
    /\ m.columns_start \in Nat /\ m.columns_len \in 1..MaxColumns
    /\ m.columns_start + m.columns_len <= Len(rs)
    /\ \A r \in 1..Len(rs) :
          rs[r].table = b.interner[m.name] <=> InTable(m, r)
    /\ KeyLinked(rs, m)
    /\ m.fk_start = KeysFrom(b, m.columns_start + 1)
    /\ m.fk_len = AsU16(KeysTo(rs, b, m.columns_start + m.columns_len)
                        - m.fk_start)

TablesLinked(rs, b, ts) ==
    /\ \A t \in 1..Len(ts) : TableLinked(rs, b, ts[t])
    /\ \A t, u \in 1..Len(ts) : t < u =>
          ts[t].columns_start + ts[t].columns_len <= ts[u].columns_start
    /\ \A r \in 1..Len(rs) : \E t \in 1..Len(ts) : InTable(ts[t], r)

\* The table in turn is that of the last row.
OpenLinked(rs, b) ==
    /\ Len(rs) = 0 => b.current_table = None /\ Len(b.tables) = 0
    /\ Len(rs) > 0 => /\ b.current_table \in 1..Len(b.interner)
                      /\ b.interner[b.current_table] = rs[Len(rs)].table

\* The foreign keys of which build has yet to look for the target: those of
\* the pool from this place on.
Done(b) == Len(b.foreign_key_pool) - Len(b.unresolved)

ReferenceLinked(b, ts, p, row, fk, u) ==
    /\ u.pool_index = p
    /\ u.source + 1 \in 1..Len(ts)
    /\ b.interner[ts[u.source + 1].name] = row.table
    /\ u.table \in 1..Len(b.interner) /\ b.interner[u.table] = fk.table
    /\ u.column \in 1..Len(b.interner) /\ b.interner[u.column] = fk.column

ReferencesLinked(rs, b, ts) ==
    /\ Len(b.unresolved) <= Len(b.foreign_key_pool)
    /\ \A r \in 1..Len(rs) : \A j \in 1..Len(rs[r].foreign_keys) :
          LET p == KeysFrom(b, r) + j - 1
          IN  p >= Done(b) =>
                 ReferenceLinked(b, ts, p, rs[r], rs[r].foreign_keys[j],
                                 b.unresolved[p - Done(b) + 1])

Linked(rs, b, ts) ==
    /\ RowsLinked(rs)
    /\ ColumnsLinked(rs, b)
    /\ ChecksLinked(rs, b)
    /\ KeysLinked(rs, b)
    /\ TablesLinked(rs, b, ts)
    /\ ReferencesLinked(rs, b, ts)

\* The links in every state.
LinkInv ==
    /\ phase = "rows" => /\ Linked(rows, builder, AllTables(builder))
                         /\ OpenLinked(rows, builder)
                         /\ Len(builder.unresolved)
                               = Len(builder.foreign_key_pool)
    /\ phase # "rows" => Linked(rows, builder, builder.tables)
    /\ phase \notin {"rows", "resolve"} => builder.unresolved = <<>>

-----------------------------------------------------------------------------
(* add_row keeps the links.                                                *)

NextRow(rs, row, rs2) ==
    /\ Len(rs) \in Nat /\ Len(rs2) = Len(rs) + 1
    /\ rs2[Len(rs) + 1] = row
    /\ \A r \in 1..Len(rs) : rs2[r] = rs[r]

\* The order in which Postgres reports rows, for the rows rs.
MayFollow(rs, row) ==
    LET mates == {i \in 1..Len(rs) : rs[i].table = row.table}
    IN  /\ \A i \in 1..Len(rs) : Position(TableOrder, rs[i].table)
                                    <= Position(TableOrder, row.table)
        /\ \A i \in mates : rs[i].column # row.column
        /\ Cardinality(mates) < MaxColumns

\* The lengths that are compared.
Sizes(b) ==
    /\ Len(b.interner) \in Nat /\ Len(b.columns) \in Nat
    /\ Len(b.column_names) \in Nat /\ Len(b.foreign_key_pool) \in Nat
    /\ Len(b.unresolved) \in Nat /\ Len(b.tables) \in Nat

LEMMA SizesAre == ASSUME NEW b \in DatabaseSchemaBuilder PROVE Sizes(b)
<1>1. /\ b.column_names \in Seq(Symbol) /\ b.unresolved \in Seq(UnresolvedFk)
      /\ Len(b.interner) \in Nat /\ Len(b.columns) \in Nat
      /\ Len(b.foreign_key_pool) \in Nat /\ Len(b.tables) \in Nat
  BY BuilderTypes
<1> QED
  BY <1>1, LenProperties DEF Sizes

LEMMA ColumnStays ==
    ASSUME NEW rs, NEW row, NEW rs2, NextRow(rs, row, rs2), NEW b, NEW c,
           Sizes(b), Sizes(c), IsAdded(b, row, c), ColumnsLinked(rs, b)
    PROVE  /\ ColumnsLinked(rs2, c)
           /\ \A r \in 1..Len(rs) : c.columns[r] = b.columns[r]
           /\ \A i \in 1..Len(b.interner) : /\ i \in 1..Len(c.interner)
                                            /\ c.interner[i] = b.interner[i]
<1> DEFINE n == Len(rs)
           ni == Len(b.interner)
           mi == Len(c.interner)
<1>1. /\ NoRepeats(c.interner) /\ ni <= mi /\ ni \in Nat /\ mi \in Nat
      /\ \A i \in 1..ni : c.interner[i] = b.interner[i]
  BY DEF IsAdded, ColumnsLinked, Grows, Sizes
<1>2. /\ n \in Nat /\ Len(rs2) = n + 1 /\ rs2[n + 1] = row
      /\ \A r \in 1..n : rs2[r] = rs[r]
  BY DEF NextRow
<1>3. /\ Len(b.columns) = n /\ Len(b.column_names) = n
      /\ \A r \in 1..n : ColumnLinked(rs, b, r)
  BY DEF ColumnsLinked
<1>4. /\ Len(c.columns) = n + 1 /\ \A r \in 1..n : c.columns[r] = b.columns[r]
      /\ Len(c.column_names) = n + 1
      /\ \A r \in 1..n : c.column_names[r] = b.column_names[r]
  BY <1>3 DEF IsAdded, ColumnAdded, NameAdded, Grows
<1> HIDE DEF n, ni, mi
<1>5. ASSUME NEW r \in 1..n PROVE ColumnLinked(rs2, c, r)
  <2>1. ColumnLinked(rs, b, r)
    BY <1>3
  <2>2. /\ rs2[r] = rs[r] /\ c.columns[r] = b.columns[r]
        /\ c.column_names[r] = b.column_names[r]
    BY <1>2, <1>4
  <2>3. b.column_names[r] \in 1..ni
    BY <2>1 DEF ColumnLinked, ni
  <2>4. b.column_names[r] \in 1..mi
    BY <1>1, <2>3
  <2>5. c.interner[b.column_names[r]] = b.interner[b.column_names[r]]
    BY <1>1, <2>3
  <2> QED
    BY <2>1, <2>2, <2>4, <2>5 DEF ColumnLinked, mi
<1>6. ColumnLinked(rs2, c, n + 1)
  <2>1. /\ c.column_names[n + 1] \in 1..Len(c.interner)
        /\ c.interner[c.column_names[n + 1]] = row.column
    BY <1>3 DEF IsAdded, NameAdded
  <2>2. LET column == c.columns[n + 1]
        IN  /\ column.flags = Flags(row.nullable, row.primary, row.unique)
            /\ column.constraints.len = AsU16(Len(row.checks))
            /\ column.foreign_keys.len = AsU16(Len(row.foreign_keys))
    BY <1>3 DEF IsAdded, ColumnAdded
  <2> QED
    BY <1>2, <2>1, <2>2 DEF ColumnLinked
<1>7. \A r \in 1..(n + 1) : r = n + 1 \/ r \in 1..n
  BY <1>2
<1>8. \A r \in 1..Len(rs2) : ColumnLinked(rs2, c, r)
  BY <1>2, <1>5, <1>6, <1>7
<1>9. ColumnsLinked(rs2, c)
  BY <1>1, <1>2, <1>4, <1>8 DEF ColumnsLinked
<1>10. \A i \in 1..ni : i \in 1..mi
  BY <1>1
<1> QED
  BY <1>1, <1>4, <1>9, <1>10 DEF n, ni, mi

LEMMA ChecksStay ==
    ASSUME NEW rs, NEW row, NEW rs2, NextRow(rs, row, rs2), NEW b, NEW c,
           Sizes(b), Sizes(c), IsAdded(b, row, c), ColumnsLinked(rs, b),
           ChecksLinked(rs, b), Len(b.constraint_pool) \in Nat,
           Len(row.checks) \in Nat
    PROVE  ChecksLinked(rs2, c)
<1> DEFINE n == Len(rs)
           pool == b.constraint_pool
           pool2 == c.constraint_pool
           x == Len(pool)
           y == Len(row.checks)
<1>1. /\ n \in Nat /\ Len(rs2) = n + 1 /\ rs2[n + 1] = row
      /\ \A r \in 1..n : rs2[r] = rs[r]
  BY DEF NextRow
<1>2. /\ \A r \in 1..n : c.columns[r] = b.columns[r]
      /\ \A i \in 1..Len(b.interner) : /\ i \in 1..Len(c.interner)
                                       /\ c.interner[i] = b.interner[i]
  BY ColumnStays
<1>3. /\ Len(pool2) = x + y /\ \A p \in 1..x : pool2[p] = pool[p]
      /\ \A k \in 1..y : /\ pool2[x + k] \in 1..Len(c.interner)
                         /\ c.interner[pool2[x + k]] = row.checks[k]
  BY DEF IsAdded, ChecksAdded, Grows
<1>4. c.columns[n + 1].constraints.start = x
  BY DEF IsAdded, ColumnAdded, ColumnsLinked
<1>5. x \in Nat /\ y \in Nat
  OBVIOUS
<1>6. ASSUME NEW r \in 1..Len(rs2), NEW k \in 1..Len(rs2[r].checks)
      PROVE  LET p == c.columns[r].constraints.start + k
             IN  /\ p \in 1..Len(pool2)
                 /\ pool2[p] \in 1..Len(c.interner)
                 /\ c.interner[pool2[p]] = rs2[r].checks[k]
  <2>1. CASE r \in 1..n
    <3> DEFINE p == b.columns[r].constraints.start + k
    <3>1. rs2[r] = rs[r] /\ c.columns[r] = b.columns[r]
      BY <1>1, <1>2, <2>1
    <3>2. /\ p \in 1..x /\ pool[p] \in 1..Len(b.interner)
          /\ b.interner[pool[p]] = rs[r].checks[k]
      BY <1>6, <2>1, <3>1 DEF ChecksLinked
    <3> HIDE DEF p, x, y, pool, pool2
    <3>3. p \in 1..Len(pool2) /\ pool2[p] = pool[p]
      BY <1>3, <1>5, <3>2
    <3>4. /\ pool[p] \in 1..Len(c.interner)
          /\ c.interner[pool[p]] = b.interner[pool[p]]
      BY <1>2, <3>2
    <3> QED
      BY <3>1, <3>2, <3>3, <3>4 DEF p
  <2>2. CASE r = n + 1
    <3>1. rs2[r] = row /\ k \in 1..y /\ c.columns[r].constraints.start = x
      BY <1>1, <1>4, <1>6, <2>2
    <3> HIDE DEF x, y, pool, pool2
    <3>2. x + k \in 1..Len(pool2)
      BY <1>3, <1>5, <3>1
    <3> QED
      BY <1>3, <3>1, <3>2
  <2>3. r \in 1..n \/ r = n + 1
    BY <1>1, <1>6
  <2> QED
    BY <2>1, <2>2, <2>3
<1> QED
  BY <1>6 DEF ChecksLinked

LEMMA KeysStay ==
    ASSUME NEW rs, NEW row, NEW rs2, NextRow(rs, row, rs2), NEW b, NEW c,
           Sizes(b), Sizes(c), IsAdded(b, row, c), ColumnsLinked(rs, b),
           KeysLinked(rs, b), Len(row.foreign_keys) \in Nat
    PROVE  /\ KeysLinked(rs2, c)
           /\ \A r \in 1..Len(rs) : /\ KeysFrom(c, r) = KeysFrom(b, r)
                                    /\ KeysTo(rs2, c, r) = KeysTo(rs, b, r)
           /\ KeysFrom(c, Len(rs) + 1) = Len(b.foreign_key_pool)
           /\ KeysTo(rs2, c, Len(rs) + 1) = Len(c.foreign_key_pool)
<1> DEFINE n == Len(rs)
           x == Len(b.foreign_key_pool)
           y == Len(c.foreign_key_pool)
<1>1. /\ n \in Nat /\ Len(rs2) = n + 1 /\ rs2[n + 1] = row
      /\ \A r \in 1..n : rs2[r] = rs[r]
  BY DEF NextRow
<1>2. \A r \in 1..n : c.columns[r] = b.columns[r]
  BY ColumnStays
<1>3. /\ y = x + Len(row.foreign_keys) /\ x \in Nat /\ y \in Nat
      /\ c.columns[n + 1].foreign_keys.start = x
  BY DEF IsAdded, ColumnAdded, ColumnsLinked, Sizes
<1>4. /\ n = 0 => x = 0
      /\ n > 0 => KeysFrom(b, 1) = 0
      /\ \A r \in 1..n : KeysTo(rs, b, r) = IF r = n THEN x
                                            ELSE KeysFrom(b, r + 1)
  BY DEF KeysLinked
<1> HIDE DEF n, x, y
<1>5. ASSUME NEW r \in 1..n
      PROVE  /\ KeysFrom(c, r) = KeysFrom(b, r)
             /\ KeysTo(rs2, c, r) = KeysTo(rs, b, r)
  BY <1>1, <1>2 DEF KeysFrom, KeysTo
<1>6. /\ KeysFrom(c, n + 1) = x
      /\ KeysTo(rs2, c, n + 1) = y
  BY <1>1, <1>3 DEF KeysFrom, KeysTo
<1>7. KeysFrom(c, 1) = 0
  <2>1. CASE n = 0
    BY <1>4, <1>6, <2>1
  <2>2. CASE n # 0
    <3>1. 1 \in 1..n /\ n > 0
      BY <1>1, <2>2
    <3> QED
      BY <1>4, <1>5, <3>1
  <2> QED
    BY <2>1, <2>2
<1>8. ASSUME NEW r \in 1..(n + 1)
      PROVE  KeysTo(rs2, c, r) = IF r = n + 1 THEN y ELSE KeysFrom(c, r + 1)
  <2>1. CASE r = n + 1
    BY <1>6, <2>1
  <2>2. CASE r = n /\ r \in 1..n
    <3>1. r # n + 1
      BY <1>1, <2>2
    <3>2. KeysTo(rs2, c, r) = x
      BY <1>4, <1>5, <2>2
    <3> QED
      BY <1>6, <2>2, <3>1, <3>2
  <2>3. CASE r \in 1..n /\ r # n
    <3>1. r + 1 \in 1..n /\ r # n + 1
      BY <1>1, <2>3
    <3>2. KeysTo(rs2, c, r) = KeysFrom(b, r + 1)
      BY <1>4, <1>5, <2>3
    <3> QED
      BY <1>5, <3>1, <3>2
  <2>4. r = n + 1 \/ r \in 1..n
    BY <1>1
  <2> QED
    BY <2>1, <2>2, <2>3, <2>4
<1>9. KeysLinked(rs2, c)
  <2>1. Len(rs2) # 0
    BY <1>1
  <2> QED
    BY <1>1, <1>7, <1>8, <2>1 DEF KeysLinked, y
<1> QED
  BY <1>5, <1>6, <1>9 DEF n, x, y

\* Every table has a place in the order of Postgres, and no two the same.
LEMMA OrderPlaces ==
    ASSUME NEW row \in Row, NEW other \in Row,
           \E i \in DOMAIN TableOrder : TableOrder[i] = row.table,
           \E i \in DOMAIN TableOrder : TableOrder[i] = other.table
    PROVE  /\ Position(TableOrder, row.table) \in Nat
           /\ Position(TableOrder, row.table)
                 = Position(TableOrder, other.table)
              => row.table = other.table
<1>1. /\ Len(TableOrder) \in Nat /\ DOMAIN TableOrder = 1..Len(TableOrder)
      /\ None \notin Nat
  BY LimitsAssumption, NoneAssumption
<1> DEFINE x == Position(TableOrder, row.table)
           y == Position(TableOrder, other.table)
<1>2. x # None /\ y # None
  BY <1>1, PositionFinds
<1>3. /\ x \in Indices(TableOrder) /\ At(TableOrder, x) = row.table
      /\ y \in Indices(TableOrder) /\ At(TableOrder, y) = other.table
  BY <1>1, <1>2, PositionFinds
<1>4. x \in Nat
  BY <1>1, <1>3 DEF Indices
<1> QED
  BY <1>3, <1>4

LEMMA RowsStay ==
    ASSUME NEW rs \in Seq(Rows), NEW row \in Rows, NEW rs2,
           NextRow(rs, row, rs2), MayFollow(rs, row), RowsLinked(rs)
    PROVE  RowsLinked(rs2)
<1> DEFINE n == Len(rs)
           place(r) == Position(TableOrder, r.table)
<1>1. /\ n \in Nat /\ Len(rs2) = n + 1 /\ rs2[n + 1] = row
      /\ \A r \in 1..n : rs2[r] = rs[r]
      /\ \A r \in 1..(n + 1) : r = n + 1 \/ r \in 1..n
  BY DEF NextRow
<1>2. /\ \A r \in 1..n : place(rs[r]) <= place(row)
      /\ \A r \in 1..n : rs[r].table = row.table => rs[r].column # row.column
  BY DEF MayFollow
<1>3. place(row) \in Nat
  BY RowsAssumption, OrderPlaces
<1> HIDE DEF n, place
<1>4. ASSUME NEW r \in 1..(n + 1), NEW s \in 1..(n + 1),
             rs2[r].table = rs2[s].table, rs2[r].column = rs2[s].column
      PROVE  r = s
  <2>1. CASE r \in 1..n /\ s \in 1..n
    <3>1. rs[r].table = rs[s].table /\ rs[r].column = rs[s].column
      BY <1>1, <1>4, <2>1
    <3> QED
      BY <2>1, <3>1 DEF RowsLinked, n
  <2>2. CASE r = n + 1 /\ s \in 1..n
    BY <1>1, <1>2, <1>4, <2>2
  <2>3. CASE s = n + 1 /\ r \in 1..n
    BY <1>1, <1>2, <1>4, <2>3
  <2> QED
    BY <1>1, <2>1, <2>2, <2>3
<1>5. ASSUME NEW r \in 1..(n + 1) PROVE place(rs2[r]) <= place(rs2[n + 1])
  BY <1>1, <1>2, <1>3
<1> QED
  BY <1>1, <1>4, <1>5 DEF RowsLinked, place

\* A row has the table in turn, or one that no row had before.
LEMMA TableIsNew ==
    ASSUME NEW rs \in Seq(Rows), NEW row \in Rows, NEW rs2,
           NextRow(rs, row, rs2), MayFollow(rs, row), RowsLinked(rs),
           NEW b, NEW c, Sizes(b), Sizes(c), IsAdded(b, row, c),
           ColumnsLinked(rs, b), OpenLinked(rs, b)
    PROVE  /\ b.current_table = c.current_table =>
                 Len(rs) > 0 /\ row.table = rs[Len(rs)].table
           /\ b.current_table # c.current_table =>
                 \A r \in 1..Len(rs) : rs[r].table # row.table
<1> DEFINE n == Len(rs)
           place(r) == Position(TableOrder, r.table)
<1>1. /\ n \in Nat /\ \A r \in 1..n : rs[r] \in Rows
  OBVIOUS
<1>2. /\ c.current_table \in 1..Len(c.interner)
      /\ c.interner[c.current_table] = row.table
  BY DEF IsAdded, TableAdded
<1>3. /\ NoRepeats(c.interner)
      /\ \A i \in 1..Len(b.interner) : /\ i \in 1..Len(c.interner)
                                       /\ c.interner[i] = b.interner[i]
  <2>1. ColumnsLinked(rs2, c)
    BY ColumnStays
  <2>2. \A i \in 1..Len(b.interner) : /\ i \in 1..Len(c.interner)
                                       /\ c.interner[i] = b.interner[i]
    BY ColumnStays
  <2> QED
    BY <2>1, <2>2 DEF ColumnsLinked
<1>4. n > 0 => /\ b.current_table \in 1..Len(b.interner)
               /\ b.interner[b.current_table] = rs[n].table
  BY DEF OpenLinked
<1>5. n > 0 => /\ b.current_table \in 1..Len(c.interner)
               /\ c.interner[b.current_table] = rs[n].table
  BY <1>3, <1>4
<1>6. ASSUME b.current_table = c.current_table
      PROVE  n > 0 /\ row.table = rs[n].table
  <2>1. c.current_table # None
    <3>1. c.current_table \in Int
      BY <1>2
    <3> QED
      BY <3>1, NoneAssumption
  <2>2. n # 0
    BY <1>6, <2>1 DEF OpenLinked
  <2>3. n > 0
    BY <1>1, <2>2
  <2> QED
    BY <1>2, <1>5, <1>6, <2>3
<1>7. ASSUME b.current_table # c.current_table, NEW r \in 1..n,
             rs[r].table = row.table
      PROVE  FALSE
  <2>1. n > 0 /\ n \in 1..n
    BY <1>1
  <2>2. place(rs[r]) <= place(rs[n])
    BY DEF RowsLinked
  <2>3. place(rs[n]) <= place(row)
    BY <2>1 DEF MayFollow
  <2>4. place(rs[r]) = place(row)
    BY <1>7
  <2>5. /\ rs[n] \in Row /\ row \in Row
        /\ \E i \in DOMAIN TableOrder : TableOrder[i] = rs[n].table
        /\ \E i \in DOMAIN TableOrder : TableOrder[i] = row.table
    BY <1>1, <2>1, RowsAssumption
  <2>6. /\ place(rs[n]) \in Nat /\ place(row) \in Nat
        /\ place(rs[n]) = place(row) => rs[n].table = row.table
    BY <2>5, OrderPlaces
  <2> HIDE DEF place
  <2>7. place(rs[n]) = place(row)
    BY <2>2, <2>3, <2>4, <2>6
  <2>8. c.interner[b.current_table] = c.interner[c.current_table]
    BY <1>2, <1>5, <2>1, <2>6, <2>7
  <2>9. b.current_table = c.current_table
    BY <1>2, <1>3, <1>5, <2>1, <2>8 DEF NoRepeats
  <2> QED
    BY <1>7, <2>9
<1> QED
  BY <1>6, <1>7

\* What is known of a table stays so when a row of another one comes.
LEMMA TableStays ==
    ASSUME NEW rs, NEW row, NEW rs2, NextRow(rs, row, rs2), NEW b, NEW c,
           Sizes(b), Sizes(c), IsAdded(b, row, c), ColumnsLinked(rs, b),
           KeysLinked(rs, b), Len(row.foreign_keys) \in Nat,
           NEW m \in TableMeta, TableLinked(rs, b, m),
           row.table # b.interner[m.name]
    PROVE  TableLinked(rs2, c, m)
<1> DEFINE n == Len(rs)
           end == m.columns_start + m.columns_len
<1>1. /\ n \in Nat /\ Len(rs2) = n + 1 /\ rs2[n + 1] = row
      /\ \A r \in 1..n : rs2[r] = rs[r]
      /\ \A r \in 1..(n + 1) : r = n + 1 \/ r \in 1..n
  BY DEF NextRow
<1>2. /\ m.name \in 1..Len(b.interner)
      /\ m.columns_start \in Nat /\ m.columns_len \in 1..MaxColumns
      /\ end <= n
      /\ \A r \in 1..n : rs[r].table = b.interner[m.name] <=> InTable(m, r)
      /\ KeyLinked(rs, m)
      /\ m.fk_start = KeysFrom(b, m.columns_start + 1)
      /\ m.fk_len = AsU16(KeysTo(rs, b, end) - m.fk_start)
  BY DEF TableLinked
<1>3. /\ m.name \in 1..Len(c.interner) /\ c.interner[m.name] = b.interner[m.name]
  BY <1>2, ColumnStays
<1>4. end \in Nat /\ m.columns_start + 1 \in 1..n /\ end \in 1..n
  BY SMTT(30), <1>1, <1>2, LimitsAssumption
<1> HIDE DEF n, end
<1>5. ~ InTable(m, n + 1)
  <2>1. ~ (n + 1 <= end)
    BY <1>1, <1>2, <1>4
  <2> QED
    BY <2>1 DEF InTable, end
<1>6. \A r \in 1..(n + 1) : rs2[r].table = c.interner[m.name] <=> InTable(m, r)
  BY <1>1, <1>2, <1>3, <1>5
<1>7. /\ m.fk_start = KeysFrom(c, m.columns_start + 1)
      /\ m.fk_len = AsU16(KeysTo(rs2, c, end) - m.fk_start)
  <2>1. \A r \in 1..n : /\ KeysFrom(c, r) = KeysFrom(b, r)
                        /\ KeysTo(rs2, c, r) = KeysTo(rs, b, r)
    BY KeysStay DEF n
  <2> QED
    BY <1>2, <1>4, <2>1
<1>8. KeyLinked(rs2, m)
  <2> DEFINE last == m.columns_start + m.primary_key + 1
  <2>1. CASE m.primary_key = None
    <3>1. \A r \in 1..n : InTable(m, r) => ~ rs[r].primary
      BY <1>2, <2>1 DEF KeyLinked, n
    <3>2. \A r \in 1..(n + 1) : InTable(m, r) => ~ rs2[r].primary
      BY <1>1, <1>5, <3>1
    <3> QED
      BY <1>1, <2>1, <3>2 DEF KeyLinked
  <2>2. CASE m.primary_key # None
    <3>1. /\ m.primary_key \in 0..(m.columns_len - 1) /\ rs[last].primary
          /\ \A r \in 1..n : InTable(m, r) /\ rs[r].primary => r <= last
      BY <1>2, <2>2 DEF KeyLinked, n
    <3>2. last \in 1..n
      <4>1. /\ m.columns_start \in Nat /\ m.columns_len \in Nat
            /\ m.columns_start + m.columns_len <= n /\ n \in Nat
            /\ m.primary_key \in 0..(m.columns_len - 1)
        BY <1>1, <1>2, <3>1, LimitsAssumption DEF end
      <4> QED
        BY <4>1
    <3> HIDE DEF last
    <3>3. rs2[last].primary
      BY <1>1, <3>1, <3>2
    <3>4. \A r \in 1..(n + 1) : InTable(m, r) /\ rs2[r].primary => r <= last
      BY <1>1, <1>5, <3>1
    <3> QED
      BY <1>1, <2>2, <3>1, <3>3, <3>4 DEF KeyLinked, last
  <2> QED
    BY <2>1, <2>2
<1>9. end <= n + 1
  BY <1>1, <1>2, <1>4
<1> QED
  BY <1>1, <1>2, <1>3, <1>6, <1>7, <1>8, <1>9 DEF TableLinked, end

LEMMA AsU16Is == ASSUME NEW n \in Nat, n < U16 PROVE AsU16(n) = n
<1>1. U16 \in Nat /\ U16 > 0
  BY U16Assumption
<1> QED
  BY <1>1 DEF AsU16

LEMMA OpenTableIs ==
    ASSUME NEW b
    PROVE  LET m == OpenTable(b)
           IN  /\ m.name = b.current_table
               /\ m.columns_start = b.current_cols_start
               /\ m.columns_len = AsU16(Len(b.columns) - b.current_cols_start)
               /\ m.primary_key = b.current_pk
               /\ m.fk_start = b.current_fk_start
               /\ m.fk_len = AsU16(Len(b.foreign_key_pool)
                                   - b.current_fk_start)
  BY DEF OpenTable

\* The table in turn has the rows from its start to the last one.
LEMMA OpenIsLast ==
    ASSUME NEW rs, Len(rs) \in Nat, Len(rs) > 0, NEW b, OpenLinked(rs, b),
           NEW m, m.name = b.current_table, TableLinked(rs, b, m)
    PROVE  m.columns_start + m.columns_len = Len(rs)
<1> DEFINE n == Len(rs)
<1>1. n \in 1..n /\ n \in Nat
  OBVIOUS
<1>2. /\ m.columns_start \in Nat /\ m.columns_len \in 1..MaxColumns
      /\ m.columns_start + m.columns_len <= n
      /\ rs[n].table = b.interner[m.name] <=> InTable(m, n)
  BY <1>1 DEF TableLinked
<1>3. InTable(m, n)
  BY <1>2 DEF OpenLinked
<1>4. n <= m.columns_start + m.columns_len
  BY <1>3 DEF InTable
<1>5. m.columns_len \in Nat
  BY <1>2, LimitsAssumption
<1> QED
  BY <1>1, <1>2, <1>4, <1>5

\* One more row of the table in turn.
LEMMA OpenGrows ==
    ASSUME NEW rs, NEW row, NEW rs2, NextRow(rs, row, rs2), NEW b, NEW c,
           Sizes(b), Sizes(c), IsAdded(b, row, c), ColumnsLinked(rs, b),
           KeysLinked(rs, b), Len(row.foreign_keys) \in Nat,
           MayFollow(rs, row), OpenLinked(rs, b),
           TableLinked(rs, b, OpenTable(b)),
           b.current_table = c.current_table, Len(rs) > 0,
           row.table = rs[Len(rs)].table
    PROVE  /\ TableLinked(rs2, c, OpenTable(c))
           /\ OpenTable(c).columns_start = OpenTable(b).columns_start
           /\ OpenTable(c).name = OpenTable(b).name
           /\ OpenTable(c).columns_len = OpenTable(b).columns_len + 1
<1> DEFINE n == Len(rs)
           m == OpenTable(b)
           w == OpenTable(c)
           k == m.columns_start
           l == m.columns_len
<1>1. /\ n \in Nat /\ Len(rs2) = n + 1 /\ rs2[n + 1] = row
      /\ \A r \in 1..n : rs2[r] = rs[r]
      /\ \A r \in 1..(n + 1) : r = n + 1 \/ r \in 1..n
  BY DEF NextRow
<1>2. /\ c.current_cols_start = b.current_cols_start
      /\ c.current_fk_start = b.current_fk_start
      /\ c.current_pk = IF row.primary
                        THEN AsU16(Len(b.columns) - c.current_cols_start)
                        ELSE b.current_pk
  BY DEF IsAdded, TableAdded
<1>3. Len(b.columns) = n /\ Len(c.columns) = n + 1
  BY DEF ColumnsLinked, IsAdded, ColumnAdded
<1>4. /\ w.name = m.name /\ w.columns_start = k
      /\ w.columns_len = AsU16((n + 1) - k)
      /\ w.primary_key = IF row.primary THEN AsU16(n - k) ELSE m.primary_key
      /\ w.fk_start = m.fk_start
      /\ w.fk_len = AsU16(Len(c.foreign_key_pool) - m.fk_start)
      /\ m.name = b.current_table
  <2>1. /\ m.name = b.current_table /\ k = b.current_cols_start
        /\ m.primary_key = b.current_pk /\ m.fk_start = b.current_fk_start
    BY OpenTableIs
  <2>2. /\ w.name = c.current_table /\ w.columns_start = c.current_cols_start
        /\ w.columns_len = AsU16(Len(c.columns) - c.current_cols_start)
        /\ w.primary_key = c.current_pk /\ w.fk_start = c.current_fk_start
        /\ w.fk_len = AsU16(Len(c.foreign_key_pool) - c.current_fk_start)
    BY OpenTableIs
  <2> HIDE DEF m, w, k, n
  <2>3. w.name = m.name /\ w.columns_start = k /\ w.fk_start = m.fk_start
    BY <1>2, <2>1, <2>2
  <2>4. w.columns_len = AsU16((n + 1) - k)
    <3>1. w.columns_len = AsU16(Len(c.columns) - c.current_cols_start)
      BY <2>2
    <3>2. Len(c.columns) = n + 1 /\ c.current_cols_start = k
      BY <1>2, <1>3, <2>1
    <3> QED
      BY <3>1, <3>2
  <2>5. w.primary_key = IF row.primary THEN AsU16(n - k) ELSE m.primary_key
    BY Zenon, <1>2, <1>3, <2>1, <2>2
  <2>6. w.fk_len = AsU16(Len(c.foreign_key_pool) - m.fk_start)
    BY <1>2, <2>1, <2>2
  <2> QED
    BY Zenon, <2>1, <2>3, <2>4, <2>5, <2>6
<1> HIDE DEF m, w
<1>5. /\ m.name \in 1..Len(b.interner)
      /\ k \in Nat /\ l \in 1..MaxColumns
      /\ \A r \in 1..n : rs[r].table = b.interner[m.name] <=> InTable(m, r)
      /\ KeyLinked(rs, m)
      /\ m.fk_start = KeysFrom(b, k + 1)
  BY DEF TableLinked, m
<1>6. k + l = n
  BY <1>1, <1>4, OpenIsLast DEF m
<1> HIDE DEF n, k, l
<1>7. /\ m.name \in 1..Len(c.interner)
      /\ c.interner[m.name] = b.interner[m.name]
  BY <1>5, ColumnStays
<1>8. row.table = b.interner[m.name]
  <2>1. b.interner[b.current_table] = rs[n].table
    BY DEF OpenLinked, n
  <2> QED
    BY <1>4, <2>1 DEF n
<1>9. /\ n \in Nat /\ k \in Nat /\ l \in Nat /\ l >= 1 /\ k + l = n
      /\ MaxColumns \in Nat /\ MaxColumns < U16 /\ U16 \in Nat
  <2>1. n \in Nat /\ k \in Nat /\ l \in 1..MaxColumns /\ k + l = n
    BY <1>1, <1>5, <1>6
  <2>2. MaxColumns \in Nat /\ MaxColumns < U16 /\ U16 \in Nat
    BY LimitsAssumption, U16Assumption
  <2> QED
    BY <2>1, <2>2
<1>10. \A r \in 1..n : InTable(m, r) <=> k < r
  BY <1>9 DEF InTable, k, l
<1>11. n - k < MaxColumns
  <2> DEFINE mates == {i \in 1..n : rs[i].table = row.table}
  <2>1. Cardinality(mates) < MaxColumns
    BY DEF MayFollow, n
  <2>2. mates = (k + 1)..n
    <3>1. \A i \in 1..n : i \in mates <=> k < i
      BY <1>5, <1>8, <1>10
    <3> HIDE DEF mates
    <3>2. mates \in SUBSET (1..n)
      BY DEF mates
    <3>3. \A i : i \in (k + 1)..n <=> i \in 1..n /\ k < i
      BY <1>9
    <3> QED
      BY <3>1, <3>2, <3>3
  <2>3. Cardinality((k + 1)..n) = n - k
    <3>1. k + 1 \in Int /\ n \in Int /\ k + 1 <= n + 1 /\ n - (k + 1) + 1 = n - k
      BY <1>9
    <3>2. Cardinality((k + 1)..n) = IF k + 1 > n THEN 0 ELSE n - (k + 1) + 1
      BY <3>1, FS_Interval
    <3> QED
      BY <1>9, <3>1, <3>2
  <2> QED
    BY <2>1, <2>2, <2>3
<1>12. /\ (n + 1) - k \in Nat /\ (n + 1) - k < U16 /\ n - k \in Nat /\ n - k < U16
       /\ (n + 1) - k \in 1..MaxColumns /\ (n + 1) - k = l + 1
  BY <1>9, <1>11
<1>13. w.columns_len = (n + 1) - k
  BY <1>4, <1>12, AsU16Is
<1>14. \A r \in 1..(n + 1) : InTable(w, r) <=> k < r
  BY <1>4, <1>9, <1>13 DEF InTable
<1>15. k < n + 1
  BY <1>9
<1>16. \A r \in 1..(n + 1) : rs2[r].table = c.interner[w.name] <=> InTable(w, r)
  BY <1>1, <1>4, <1>5, <1>7, <1>8, <1>10, <1>14, <1>15
<1>17. /\ w.fk_start = KeysFrom(c, k + 1)
       /\ w.fk_len = AsU16(KeysTo(rs2, c, n + 1) - w.fk_start)
  <2>1. /\ \A r \in 1..n : KeysFrom(c, r) = KeysFrom(b, r)
        /\ KeysTo(rs2, c, n + 1) = Len(c.foreign_key_pool)
    BY KeysStay DEF n
  <2>2. k + 1 \in 1..n
    BY <1>9
  <2> QED
    BY <1>4, <1>5, <2>1, <2>2
<1>18. KeyLinked(rs2, w)
  <2>1. CASE row.primary
    <3>1. w.primary_key = n - k
      BY <1>4, <1>12, <2>1, AsU16Is
    <3>2. n - k # None
      BY <1>12, NoneAssumption
    <3>3. w.columns_start + w.primary_key + 1 = n + 1
      BY <1>4, <1>9, <3>1
    <3>4. w.primary_key \in 0..(w.columns_len - 1)
      BY <1>9, <1>12, <1>13, <3>1
    <3>5. \A r \in 1..(n + 1) : r <= n + 1
      BY <1>1
    <3> QED
      BY <1>1, <2>1, <3>1, <3>2, <3>3, <3>4, <3>5 DEF KeyLinked
  <2>2. CASE ~ row.primary
    <3>1. w.primary_key = m.primary_key
      BY <1>4, <2>2
    <3>2. CASE m.primary_key = None
      <4>1. \A r \in 1..n : InTable(m, r) => ~ rs[r].primary
        BY <1>5, <3>2 DEF KeyLinked, n
      <4>2. \A r \in 1..(n + 1) : InTable(w, r) => ~ rs2[r].primary
        BY <1>1, <1>10, <1>14, <2>2, <4>1
      <4> QED
        BY <1>1, <3>1, <3>2, <4>2 DEF KeyLinked
    <3>3. CASE m.primary_key # None
      <4> DEFINE last == k + m.primary_key + 1
      <4>1. /\ m.primary_key \in 0..(l - 1) /\ rs[last].primary
            /\ \A r \in 1..n : InTable(m, r) /\ rs[r].primary => r <= last
        BY <1>5, <3>3 DEF KeyLinked, n, k, l
      <4>2. last \in 1..n /\ m.primary_key \in 0..(w.columns_len - 1)
        <5>1. m.primary_key \in 0..(l - 1) /\ w.columns_len = l + 1
          BY <1>12, <1>13, <4>1
        <5> QED
          BY <1>9, <5>1
      <4> HIDE DEF last
      <4>3. \A r \in 1..(n + 1) : InTable(w, r) /\ rs2[r].primary => r <= last
        BY <1>1, <1>10, <1>14, <2>2, <4>1
      <4>4. rs2[last].primary /\ w.columns_start + w.primary_key + 1 = last
        BY <1>1, <1>4, <3>1, <4>1, <4>2 DEF last
      <4> QED
        BY <1>1, <3>1, <3>3, <4>2, <4>3, <4>4 DEF KeyLinked
    <3> QED
      BY <3>2, <3>3
  <2> QED
    BY <2>1, <2>2
<1>19. w.columns_start + w.columns_len = n + 1
  BY <1>4, <1>9, <1>13
<1>20. TableLinked(rs2, c, w)
  <2>1. /\ w.name \in 1..Len(c.interner) /\ w.columns_start \in Nat
        /\ w.columns_len \in 1..MaxColumns
    BY <1>4, <1>7, <1>9, <1>12, <1>13
  <2>2. Len(rs2) = n + 1 /\ w.columns_start + w.columns_len <= Len(rs2)
    BY <1>1, <1>9, <1>19
  <2>3. /\ w.fk_start = KeysFrom(c, w.columns_start + 1)
        /\ w.fk_len = AsU16(KeysTo(rs2, c, w.columns_start + w.columns_len)
                            - w.fk_start)
    BY <1>4, <1>17, <1>19
  <2>4. \A r \in 1..Len(rs2) :
           rs2[r].table = c.interner[w.name] <=> InTable(w, r)
    BY <1>16, <2>2
  <2> QED
    BY <1>18, <2>1, <2>2, <2>3, <2>4 DEF TableLinked
<1> QED
  BY <1>4, <1>12, <1>13, <1>20 DEF m, w, k, l

\* The first row of a table.
LEMMA OpenStarts ==
    ASSUME NEW rs, NEW row, NEW rs2, NextRow(rs, row, rs2), NEW b, NEW c,
           Sizes(b), Sizes(c), IsAdded(b, row, c), ColumnsLinked(rs, b),
           KeysLinked(rs, b), Len(row.foreign_keys) \in Nat,
           b.current_table # c.current_table,
           \A r \in 1..Len(rs) : rs[r].table # row.table
    PROVE  /\ TableLinked(rs2, c, OpenTable(c))
           /\ OpenTable(c).columns_start = Len(rs)
           /\ OpenTable(c).columns_len = 1
<1> DEFINE n == Len(rs)
           w == OpenTable(c)
<1>1. /\ n \in Nat /\ Len(rs2) = n + 1 /\ rs2[n + 1] = row
      /\ \A r \in 1..n : rs2[r] = rs[r]
      /\ \A r \in 1..(n + 1) : r = n + 1 \/ r \in 1..n
  BY DEF NextRow
<1>2. Len(b.columns) = n /\ Len(c.columns) = n + 1
  BY DEF ColumnsLinked, IsAdded, ColumnAdded
<1>3. /\ c.current_cols_start = n
      /\ c.current_fk_start = Len(b.foreign_key_pool)
      /\ c.current_pk = IF row.primary THEN AsU16(n - n) ELSE None
      /\ c.current_table \in 1..Len(c.interner)
      /\ c.interner[c.current_table] = row.table
  BY <1>2 DEF IsAdded, TableAdded
<1>4. /\ w.name = c.current_table /\ w.columns_start = n
      /\ w.columns_len = AsU16((n + 1) - n)
      /\ w.primary_key = IF row.primary THEN AsU16(n - n) ELSE None
      /\ w.fk_start = Len(b.foreign_key_pool)
      /\ w.fk_len = AsU16(Len(c.foreign_key_pool) - w.fk_start)
  BY <1>2, <1>3, OpenTableIs
<1> HIDE DEF n, w
<1>5. U16 \in Nat /\ 0 < U16 /\ 1 < U16 /\ (n + 1) - n = 1 /\ n - n = 0
  BY <1>1, U16Assumption
<1>6. w.columns_len = 1
  BY <1>4, <1>5, AsU16Is
<1>7. w.primary_key = IF row.primary THEN 0 ELSE None
  BY <1>4, <1>5, AsU16Is
<1>8. \A r \in 1..(n + 1) : InTable(w, r) <=> r = n + 1
  BY <1>1, <1>4, <1>6 DEF InTable
<1>9. ASSUME NEW r \in 1..(n + 1)
      PROVE  rs2[r].table = c.interner[w.name] <=> InTable(w, r)
  <2>1. c.interner[w.name] = row.table
    BY <1>3, <1>4
  <2>2. CASE r = n + 1
    BY <1>1, <1>8, <2>1, <2>2
  <2>3. CASE r \in 1..n
    <3>1. r # n + 1 /\ rs2[r].table # row.table
      BY <1>1, <2>3 DEF n
    <3> QED
      BY <1>8, <2>1, <3>1
  <2> QED
    BY <1>1, <2>2, <2>3
<1>10. /\ w.fk_start = KeysFrom(c, n + 1)
       /\ w.fk_len = AsU16(KeysTo(rs2, c, n + 1) - w.fk_start)
  <2>1. /\ KeysFrom(c, n + 1) = Len(b.foreign_key_pool)
        /\ KeysTo(rs2, c, n + 1) = Len(c.foreign_key_pool)
    BY KeysStay DEF n
  <2> QED
    BY <1>4, <2>1
<1>11. KeyLinked(rs2, w)
  <2>1. CASE row.primary
    <3>1. w.primary_key = 0 /\ 0 # None
      BY <1>7, <2>1, NoneAssumption
    <3>2. w.columns_start + w.primary_key + 1 = n + 1
      BY <1>1, <1>4, <3>1
    <3>3. \A r \in 1..(n + 1) : r <= n + 1
      BY <1>1
    <3>4. 0 \in 0..(w.columns_len - 1)
      BY <1>6
    <3> QED
      BY <1>1, <2>1, <3>1, <3>2, <3>3, <3>4 DEF KeyLinked
  <2>2. CASE ~ row.primary
    <3>1. w.primary_key = None
      BY <1>7, <2>2
    <3> QED
      BY <1>1, <1>8, <2>2, <3>1 DEF KeyLinked
  <2> QED
    BY <2>1, <2>2
<1>12. 1 \in 1..MaxColumns
  BY LimitsAssumption
<1>13. TableLinked(rs2, c, w)
  <2>1. /\ w.name \in 1..Len(c.interner) /\ w.columns_start \in Nat
        /\ w.columns_len \in 1..MaxColumns
        /\ w.columns_start + w.columns_len = n + 1
    BY <1>1, <1>3, <1>4, <1>6, <1>12
  <2>2. w.columns_start + w.columns_len <= Len(rs2)
    BY <1>1, <2>1
  <2>3. /\ w.fk_start = KeysFrom(c, w.columns_start + 1)
        /\ w.fk_len = AsU16(KeysTo(rs2, c, w.columns_start + w.columns_len)
                            - w.fk_start)
    BY <1>4, <1>10, <2>1
  <2> QED
    BY <1>1, <1>9, <1>11, <2>1, <2>2, <2>3 DEF TableLinked
<1> QED
  BY <1>4, <1>6, <1>13 DEF n, w

\* The names of the tables stay.
NamesStay(ts, us) ==
    /\ Len(ts) \in Nat /\ Len(us) \in Nat /\ Len(ts) <= Len(us)
    /\ \A t \in 1..Len(ts) : us[t].name = ts[t].name

LEMMA LinkedTable ==
    ASSUME NEW rs, Len(rs) \in Nat, NEW b, NEW m, TableLinked(rs, b, m)
    PROVE  /\ m.columns_start \in Nat /\ m.columns_len \in Nat
           /\ m.columns_len >= 1
           /\ m.columns_start + m.columns_len <= Len(rs)
           /\ m.columns_start + 1 \in 1..Len(rs)
           /\ m.columns_start + m.columns_len \in 1..Len(rs)
           /\ \A r \in 1..Len(rs) :
                 rs[r].table = b.interner[m.name] <=> InTable(m, r)
<1>1. /\ m.columns_start \in Nat /\ m.columns_len \in 1..MaxColumns
      /\ m.columns_start + m.columns_len <= Len(rs)
      /\ \A r \in 1..Len(rs) :
            rs[r].table = b.interner[m.name] <=> InTable(m, r)
  BY DEF TableLinked
<1>2. m.columns_len \in Nat /\ m.columns_len >= 1
  BY <1>1, LimitsAssumption
<1>3. /\ m.columns_start + 1 \in 1..Len(rs)
      /\ m.columns_start + m.columns_len \in 1..Len(rs)
  <2>1. m.columns_start \in Nat /\ m.columns_start + m.columns_len <= Len(rs)
    BY <1>1
  <2> QED
    BY <1>2, <2>1
<1> QED
  BY <1>1, <1>2, <1>3

\* All tables, with one more row of the last one.
LEMMA LastTableGrows ==
    ASSUME NEW rs, NEW row, NEW rs2, NextRow(rs, row, rs2), NEW b, NEW c,
           Sizes(b), Sizes(c), IsAdded(b, row, c), ColumnsLinked(rs, b),
           KeysLinked(rs, b), Len(row.foreign_keys) \in Nat, Len(rs) > 0,
           row.table = rs[Len(rs)].table,
           NEW front \in Seq(TableMeta), NEW m \in TableMeta,
           NEW w \in TableMeta, TablesLinked(rs, b, Append(front, m)),
           TableLinked(rs2, c, w), w.name = m.name,
           w.columns_start = m.columns_start,
           w.columns_len = m.columns_len + 1,
           m.columns_start + m.columns_len = Len(rs)
    PROVE  /\ TablesLinked(rs2, c, Append(front, w))
           /\ NamesStay(Append(front, m), Append(front, w))
<1> DEFINE n == Len(rs)
           k == Len(front)
           ts == Append(front, m)
           us == Append(front, w)
<1>1. /\ n \in Nat /\ Len(rs2) = n + 1 /\ rs2[n + 1] = row
      /\ \A r \in 1..n : rs2[r] = rs[r]
      /\ \A r \in 1..(n + 1) : r = n + 1 \/ r \in 1..n
  BY DEF NextRow
<1>2. /\ k \in Nat /\ Len(ts) = k + 1 /\ Len(us) = k + 1
      /\ ts[k + 1] = m /\ us[k + 1] = w
      /\ \A t \in 1..k : ts[t] = front[t] /\ us[t] = front[t]
  BY AppendAt
<1>3. \A t \in 1..k : front[t] \in TableMeta
  OBVIOUS
<1> HIDE DEF n, k, ts, us
<1>4. \A t \in 1..(k + 1) : t = k + 1 \/ t \in 1..k
  BY <1>2
<1>5. /\ \A t \in 1..(k + 1) : TableLinked(rs, b, ts[t])
      /\ \A t, u \in 1..(k + 1) : t < u =>
            ts[t].columns_start + ts[t].columns_len <= ts[u].columns_start
      /\ \A r \in 1..n : \E t \in 1..(k + 1) : InTable(ts[t], r)
  BY <1>2 DEF TablesLinked, ts, n
<1>6. /\ k + 1 \in 1..(k + 1) /\ \A t \in 1..k : t \in 1..(k + 1) /\ t < k + 1
  BY <1>2
<1>7. /\ m.columns_start \in Nat /\ m.columns_len \in Nat
      /\ m.columns_len >= 1 /\ m.columns_start + m.columns_len = n
  BY <1>1, <1>2, <1>5, <1>6, LinkedTable DEF n
<1>8. ASSUME NEW t \in 1..k PROVE TableLinked(rs2, c, us[t])
  <2> DEFINE e == front[t]
  <2>1. /\ e \in TableMeta /\ TableLinked(rs, b, e)
        /\ us[t] = e
    BY <1>2, <1>3, <1>5, <1>6
  <2>2. e.columns_start + e.columns_len <= m.columns_start
    BY <1>2, <1>5, <1>6
  <2> HIDE DEF e
  <2>3. /\ e.columns_start \in Nat /\ e.columns_len \in Nat
        /\ \A r \in 1..n : rs[r].table = b.interner[e.name] <=> InTable(e, r)
    BY SMTT(30), <1>1, <2>1, LinkedTable DEF n
  <2>4. ~ InTable(e, n)
    BY <1>7, <2>2, <2>3 DEF InTable
  <2>5. n \in 1..n
    BY <1>1 DEF n
  <2>6. row.table # b.interner[e.name]
    BY <2>3, <2>4, <2>5 DEF n
  <2> QED
    BY <2>1, <2>6, TableStays
<1>9. \A t \in 1..(k + 1) : TableLinked(rs2, c, us[t])
  BY <1>2, <1>4, <1>8
<1>10. \A t \in 1..(k + 1) : us[t].columns_start = ts[t].columns_start
                             /\ us[t].name = ts[t].name
  BY <1>2, <1>4
<1>11. ASSUME NEW t \in 1..(k + 1), NEW u \in 1..(k + 1), t < u
       PROVE  us[t].columns_start + us[t].columns_len <= us[u].columns_start
  <2>1. t \in 1..k
    BY <1>2, <1>11
  <2>2. us[t] = ts[t]
    BY <1>2, <2>1
  <2> QED
    BY <1>5, <1>10, <1>11, <2>2
<1>12. ASSUME NEW r \in 1..(n + 1) PROVE \E t \in 1..(k + 1) : InTable(us[t], r)
  <2>1. CASE r = n + 1
    <3>1. InTable(w, n + 1)
      BY <1>7 DEF InTable
    <3> QED
      BY <1>2, <1>6, <2>1, <3>1
  <2>2. CASE r \in 1..n
    <3>1. PICK t \in 1..(k + 1) : InTable(ts[t], r)
      BY <1>5, <2>2
    <3>2. CASE t \in 1..k
      BY <1>2, <3>1, <3>2
    <3>3. CASE t = k + 1
      <4>1. InTable(m, r)
        BY <1>2, <3>1, <3>3
      <4>2. InTable(w, r)
        BY <1>7, <4>1 DEF InTable
      <4> QED
        BY <1>2, <1>6, <4>2
    <3> QED
      BY <1>4, <3>2, <3>3
  <2> QED
    BY <1>1, <2>1, <2>2
<1>13. TablesLinked(rs2, c, us)
  BY <1>1, <1>2, <1>9, <1>11, <1>12 DEF TablesLinked
<1>14. NamesStay(ts, us)
  BY <1>2, <1>10 DEF NamesStay
<1> QED
  BY <1>13, <1>14 DEF ts, us

\* One more table.
LEMMA TableIsAppended ==
    ASSUME NEW rs, NEW row, NEW rs2, NextRow(rs, row, rs2), NEW b, NEW c,
           Sizes(b), Sizes(c), IsAdded(b, row, c), ColumnsLinked(rs, b),
           KeysLinked(rs, b), Len(row.foreign_keys) \in Nat,
           \A r \in 1..Len(rs) : rs[r].table # row.table,
           NEW ts \in Seq(TableMeta), NEW w \in TableMeta,
           TablesLinked(rs, b, ts), TableLinked(rs2, c, w),
           w.columns_start = Len(rs), w.columns_len = 1
    PROVE  /\ TablesLinked(rs2, c, Append(ts, w))
           /\ NamesStay(ts, Append(ts, w))
<1> DEFINE n == Len(rs)
           k == Len(ts)
           us == Append(ts, w)
<1>1. /\ n \in Nat /\ Len(rs2) = n + 1 /\ rs2[n + 1] = row
      /\ \A r \in 1..n : rs2[r] = rs[r]
      /\ \A r \in 1..(n + 1) : r = n + 1 \/ r \in 1..n
  BY DEF NextRow
<1>2. /\ k \in Nat /\ Len(us) = k + 1 /\ us[k + 1] = w
      /\ \A t \in 1..k : us[t] = ts[t]
  BY AppendAt
<1>3. \A t \in 1..k : ts[t] \in TableMeta
  OBVIOUS
<1> HIDE DEF n, k, us
<1>4. \A t \in 1..(k + 1) : t = k + 1 \/ t \in 1..k
  BY <1>2
<1>5. /\ \A t \in 1..k : TableLinked(rs, b, ts[t])
      /\ \A t, u \in 1..k : t < u =>
            ts[t].columns_start + ts[t].columns_len <= ts[u].columns_start
      /\ \A r \in 1..n : \E t \in 1..k : InTable(ts[t], r)
  BY DEF TablesLinked, k, n
<1>6. k + 1 \in 1..(k + 1) /\ \A t \in 1..k : t \in 1..(k + 1)
  BY <1>2
<1>7. ASSUME NEW t \in 1..k
      PROVE  /\ TableLinked(rs2, c, us[t])
             /\ us[t].columns_start + us[t].columns_len <= n
  <2> DEFINE e == ts[t]
  <2>1. e \in TableMeta /\ TableLinked(rs, b, e) /\ us[t] = e
    BY <1>2, <1>3, <1>5
  <2> HIDE DEF e
  <2>2. /\ e.columns_start \in Nat /\ e.columns_len \in Nat
        /\ e.columns_len >= 1 /\ e.columns_start + 1 \in 1..n
        /\ e.columns_start + e.columns_len <= n
        /\ \A r \in 1..n : rs[r].table = b.interner[e.name] <=> InTable(e, r)
    BY <1>1, <2>1, LinkedTable DEF n
  <2>3. InTable(e, e.columns_start + 1)
    BY <2>2 DEF InTable
  <2>4. row.table # b.interner[e.name]
    BY <2>2, <2>3 DEF n
  <2>5. TableLinked(rs2, c, e)
    BY <2>1, <2>4, TableStays
  <2> QED
    BY <2>1, <2>2, <2>5
<1>8. \A t \in 1..(k + 1) : TableLinked(rs2, c, us[t])
  BY <1>2, <1>4, <1>7
<1>9. ASSUME NEW t \in 1..(k + 1), NEW u \in 1..(k + 1), t < u
      PROVE  us[t].columns_start + us[t].columns_len <= us[u].columns_start
  <2>1. t \in 1..k
    BY <1>2, <1>9
  <2>2. CASE u \in 1..k
    BY <1>2, <1>5, <1>9, <2>1, <2>2
  <2>3. CASE u = k + 1
    <3>1. us[u].columns_start = n
      BY <1>2, <2>3 DEF n
    <3> QED
      BY <1>7, <2>1, <3>1
  <2> QED
    BY <1>4, <2>2, <2>3
<1>10. ASSUME NEW r \in 1..(n + 1) PROVE \E t \in 1..(k + 1) : InTable(us[t], r)
  <2>1. CASE r = n + 1
    <3>1. w.columns_start = n /\ w.columns_len = 1
      BY DEF n
    <3>2. InTable(w, n + 1)
      BY <1>1, <3>1 DEF InTable
    <3> QED
      BY <1>2, <1>6, <2>1, <3>2
  <2>2. CASE r \in 1..n
    <3>1. PICK t \in 1..k : InTable(ts[t], r)
      BY <1>5, <2>2
    <3> QED
      BY <1>2, <1>6, <3>1
  <2> QED
    BY <1>1, <2>1, <2>2
<1>11. TablesLinked(rs2, c, us)
  BY <1>1, <1>2, <1>8, <1>9, <1>10 DEF TablesLinked
<1>12. NamesStay(ts, us)
  BY <1>2 DEF NamesStay, k
<1> QED
  BY <1>11, <1>12 DEF us

\* The tables after add_row.
LEMMA TablesStay ==
    ASSUME NEW rs \in Seq(Rows), NEW row \in Rows, NEW rs2,
           NextRow(rs, row, rs2), MayFollow(rs, row), RowsLinked(rs),
           NEW b, NEW c, BuilderFits(b), BuilderFits(c), IsAdded(b, row, c),
           ColumnsLinked(rs, b), KeysLinked(rs, b), OpenLinked(rs, b),
           TablesLinked(rs, b, AllTables(b))
    PROVE  /\ TablesLinked(rs2, c, AllTables(c))
           /\ NamesStay(AllTables(b), AllTables(c))
           /\ OpenLinked(rs2, c)
           /\ Len(AllTables(c)) = Len(c.tables) + 1
           /\ AllTables(c)[Len(c.tables) + 1].name = c.current_table
<1>1. /\ b \in DatabaseSchemaBuilder /\ StartsFit(b) /\ Sizes(b)
      /\ c \in DatabaseSchemaBuilder /\ StartsFit(c) /\ Sizes(c)
  BY SizesAre DEF BuilderFits
<1>2. row \in Row /\ Len(row.foreign_keys) \in Nat
  <2>1. row \in Row
    BY RowsAssumption
  <2>2. row.foreign_keys \in Seq(RawForeignKey)
    BY <2>1 DEF Row
  <2> QED
    BY <2>1, <2>2
<1>3. /\ c.current_table \in 1..Len(c.interner)
      /\ c.interner[c.current_table] = row.table
      /\ c.tables = IF b.current_table = c.current_table THEN b.tables
                    ELSE AllTables(b)
  BY DEF IsAdded, TableAdded
<1>4. c.current_table # None
  <2>1. c.current_table \in Int
    BY <1>3
  <2> QED
    BY <2>1, NoneAssumption
<1>5. /\ AllTables(c) = Append(c.tables, OpenTable(c))
      /\ OpenTable(c) \in TableMeta
  BY <1>1, <1>4, AllTablesAre
<1>6. b.tables \in Seq(TableMeta) /\ c.tables \in Seq(TableMeta)
  BY <1>1, BuilderTypes
<1>7. OpenLinked(rs2, c)
  <2>1. /\ Len(rs) \in Nat /\ Len(rs2) = Len(rs) + 1
        /\ rs2[Len(rs) + 1] = row
    BY DEF NextRow
  <2>2. Len(rs2) # 0 /\ rs2[Len(rs2)] = row
    BY <2>1
  <2> QED
    BY <1>3, <2>2 DEF OpenLinked
<1>8. /\ Len(AllTables(c)) = Len(c.tables) + 1
      /\ AllTables(c)[Len(c.tables) + 1].name = c.current_table
  <2>1. /\ Len(AllTables(c)) = Len(c.tables) + 1
        /\ AllTables(c)[Len(c.tables) + 1] = OpenTable(c)
    BY <1>5, <1>6, AppendAt
  <2> QED
    BY <2>1, OpenTableIs
<1>9. CASE b.current_table = c.current_table
  <2>1. Len(rs) > 0 /\ row.table = rs[Len(rs)].table
    BY <1>1, <1>9, TableIsNew
  <2>2. /\ AllTables(b) = Append(b.tables, OpenTable(b))
        /\ OpenTable(b) \in TableMeta
    BY <1>1, <1>4, <1>9, AllTablesAre
  <2>3. c.tables = b.tables
    BY <1>3, <1>9
  <2>4. /\ Len(AllTables(b)) = Len(b.tables) + 1 /\ Len(b.tables) \in Nat
        /\ AllTables(b)[Len(b.tables) + 1] = OpenTable(b)
    BY <1>6, <2>2, AppendAt
  <2>5. TableLinked(rs, b, OpenTable(b))
    <3>1. Len(b.tables) + 1 \in 1..Len(AllTables(b))
      BY <2>4
    <3>2. TableLinked(rs, b, AllTables(b)[Len(b.tables) + 1])
      BY <3>1 DEF TablesLinked
    <3> QED
      BY <2>4, <3>2
  <2>6. /\ TableLinked(rs2, c, OpenTable(c))
        /\ OpenTable(c).columns_start = OpenTable(b).columns_start
        /\ OpenTable(c).name = OpenTable(b).name
        /\ OpenTable(c).columns_len = OpenTable(b).columns_len + 1
    BY <1>1, <1>2, <1>9, <2>1, <2>5, OpenGrows
  <2>7. OpenTable(b).columns_start + OpenTable(b).columns_len = Len(rs)
    <3>1. OpenTable(b).name = b.current_table /\ Len(rs) \in Nat
      BY OpenTableIs
    <3> QED
      BY <2>1, <2>5, <3>1, OpenIsLast
  <2> DEFINE m == OpenTable(b)
             w == OpenTable(c)
             front == b.tables
  <2>8. /\ front \in Seq(TableMeta) /\ m \in TableMeta /\ w \in TableMeta
        /\ TablesLinked(rs, b, Append(front, m))
    BY <1>5, <1>6, <2>2
  <2>9. /\ TableLinked(rs2, c, w) /\ w.name = m.name
        /\ w.columns_start = m.columns_start
        /\ w.columns_len = m.columns_len + 1
        /\ m.columns_start + m.columns_len = Len(rs)
    BY <2>6, <2>7
  <2> HIDE DEF m, w, front
  <2>10. /\ TablesLinked(rs2, c, Append(front, w))
         /\ NamesStay(Append(front, m), Append(front, w))
    BY <1>1, <1>2, <2>1, <2>8, <2>9, LastTableGrows
  <2> QED
    BY <1>5, <1>7, <1>8, <2>2, <2>3, <2>10 DEF m, w, front
<1>10. CASE b.current_table # c.current_table
  <2>1. \A r \in 1..Len(rs) : rs[r].table # row.table
    BY <1>1, <1>10, TableIsNew
  <2>2. c.tables = AllTables(b)
    BY <1>3, <1>10
  <2>3. /\ TableLinked(rs2, c, OpenTable(c))
        /\ OpenTable(c).columns_start = Len(rs)
        /\ OpenTable(c).columns_len = 1
    BY <1>1, <1>2, <1>10, <2>1, OpenStarts
  <2> DEFINE ts == AllTables(b)
             w == OpenTable(c)
  <2>4. ts \in Seq(TableMeta) /\ w \in TableMeta /\ TablesLinked(rs, b, ts)
    BY <1>1, <1>5, AllTablesAre
  <2>5. /\ TableLinked(rs2, c, w) /\ w.columns_start = Len(rs)
        /\ w.columns_len = 1
    BY <2>3
  <2> HIDE DEF ts, w
  <2>6. /\ TablesLinked(rs2, c, Append(ts, w)) /\ NamesStay(ts, Append(ts, w))
    BY <1>1, <1>2, <2>1, <2>4, <2>5, TableIsAppended
  <2> QED
    BY <1>5, <1>7, <1>8, <2>2, <2>6 DEF ts, w
<1> QED
  BY <1>9, <1>10

\* Every row's foreign keys are in the pool.
UpperKeys(rs, b) ==
    \A r \in 1..Len(rs) : KeysTo(rs, b, r) <= Len(b.foreign_key_pool)

LEMMA KeysAreBelow ==
    ASSUME NEW rs, Len(rs) \in Nat, NEW b, Sizes(b), KeysLinked(rs, b),
           \A r \in 1..Len(rs) : /\ Len(rs[r].foreign_keys) \in Nat
                                 /\ KeysFrom(b, r) \in Nat
    PROVE  UpperKeys(rs, b)
<1> DEFINE n == Len(rs)
           x == Len(b.foreign_key_pool)
           P == {i \in Nat : i < n => KeysTo(rs, b, n - i) <= x}
<1>1. /\ x \in Nat /\ n \in Nat
      /\ \A r \in 1..n : KeysTo(rs, b, r) = IF r = n THEN x
                                            ELSE KeysFrom(b, r + 1)
  BY DEF Sizes, KeysLinked
<1>2. \A r \in 1..n : /\ KeysTo(rs, b, r) \in Nat
                      /\ KeysFrom(b, r) <= KeysTo(rs, b, r)
  BY DEF KeysTo
<1> HIDE DEF n, x
<1>3. 0 \in P
  <2>1. 0 < n => KeysTo(rs, b, n) = x
    BY <1>1
  <2>2. n - 0 = n
    BY <1>1
  <2> QED
    BY <1>1, <2>1, <2>2
<1>4. ASSUME NEW i \in Nat, i < n, i \in P PROVE i + 1 \in P
  <2> SUFFICES ASSUME i + 1 < n PROVE KeysTo(rs, b, n - (i + 1)) <= x
    OBVIOUS
  <2> DEFINE r == n - (i + 1)
  <2>1. r \in 1..n /\ r # n /\ r + 1 = n - i /\ r + 1 \in 1..n
    BY <1>1
  <2>2. KeysTo(rs, b, r + 1) <= x
    BY <1>4, <2>1
  <2> HIDE DEF r
  <2>3. KeysTo(rs, b, r) = KeysFrom(b, r + 1)
    BY <1>1, <2>1
  <2>4. KeysFrom(b, r + 1) <= KeysTo(rs, b, r + 1)
    BY <1>2, <2>1
  <2>5. KeysTo(rs, b, r) \in Nat /\ KeysTo(rs, b, r + 1) \in Nat
    BY <1>2, <2>1
  <2> QED
    BY <1>1, <2>2, <2>3, <2>4, <2>5 DEF r
<1>5. \A i \in 0..n : i \in P
  <2> HIDE DEF P
  <2> QED
    BY <1>1, <1>3, <1>4, UpTo
<1>6. ASSUME NEW r \in 1..n PROVE KeysTo(rs, b, r) <= x
  <2>1. n - r \in 0..n /\ n - r < n /\ n - (n - r) = r
    BY <1>1
  <2> QED
    BY <1>5, <2>1
<1> QED
  BY <1>6 DEF UpperKeys, n, x

\* The references after add_row.
LEMMA ReferencesStay ==
    ASSUME NEW rs, NEW row, NEW rs2, NextRow(rs, row, rs2), NEW b, NEW c,
           Sizes(b), Sizes(c), IsAdded(b, row, c), ColumnsLinked(rs, b),
           KeysLinked(rs, b), Len(row.foreign_keys) \in Nat,
           \A r \in 1..Len(rs) : /\ Len(rs[r].foreign_keys) \in Nat
                                 /\ KeysFrom(b, r) \in Nat,
           NEW ts, NEW us, NamesStay(ts, us), ReferencesLinked(rs, b, ts),
           \A t \in 1..Len(ts) : ts[t].name \in 1..Len(b.interner),
           Len(b.unresolved) = Len(b.foreign_key_pool),
           Len(us) = Len(c.tables) + 1,
           us[Len(c.tables) + 1].name = c.current_table
    PROVE  /\ ReferencesLinked(rs2, c, us)
           /\ Len(c.unresolved) = Len(c.foreign_key_pool)
<1> DEFINE n == Len(rs)
           x == Len(b.foreign_key_pool)
           k == Len(row.foreign_keys)
<1>1. /\ n \in Nat /\ Len(rs2) = n + 1 /\ rs2[n + 1] = row
      /\ \A r \in 1..n : rs2[r] = rs[r]
      /\ \A r \in 1..(n + 1) : r = n + 1 \/ r \in 1..n
  BY DEF NextRow
<1>2. /\ x \in Nat /\ k \in Nat /\ Len(b.unresolved) = x
      /\ Len(c.foreign_key_pool) = x + k /\ Len(c.unresolved) = x + k
      /\ \A i \in 1..x : c.unresolved[i] = b.unresolved[i]
  BY DEF IsAdded, UnresolvedAdded, Grows, Sizes
<1>3. /\ \A r \in 1..n : KeysFrom(c, r) = KeysFrom(b, r)
      /\ KeysFrom(c, n + 1) = x
  BY KeysStay
<1>4. \A i \in 1..Len(b.interner) : /\ i \in 1..Len(c.interner)
                                    /\ c.interner[i] = b.interner[i]
  BY ColumnStays
<1>5. Done(b) = 0 /\ Done(c) = 0
  <2>1. x - x = 0 /\ (x + k) - (x + k) = 0
    BY <1>2
  <2> QED
    BY <1>2, <2>1 DEF Done
<1>6. \A j \in 1..k :
         LET u == c.unresolved[x + j]
             fk == row.foreign_keys[j]
         IN  /\ u.pool_index = x + j - 1
             /\ u.source = Len(c.tables)
             /\ u.table \in 1..Len(c.interner) /\ c.interner[u.table] = fk.table
             /\ u.column \in 1..Len(c.interner)
             /\ c.interner[u.column] = fk.column
  BY <1>2 DEF IsAdded, UnresolvedAdded
<1>7. /\ c.interner[c.current_table] = row.table /\ Len(c.tables) \in Nat
  BY DEF IsAdded, TableAdded, Sizes
<1> HIDE DEF n, x, k
<1>8. ASSUME NEW r \in 1..n, NEW j \in 1..Len(rs[r].foreign_keys)
      PROVE  LET p == KeysFrom(b, r) + j - 1
             IN  ReferenceLinked(c, us, p, rs[r], rs[r].foreign_keys[j],
                                 c.unresolved[p + 1])
  <2> DEFINE p == KeysFrom(b, r) + j - 1
             u == b.unresolved[p + 1]
             fk == rs[r].foreign_keys[j]
  <2>1. p \in Nat /\ p + 1 \in Nat
    BY DEF n
  <2>2. p + 1 \in 1..x
    <3>1. KeysTo(rs, b, r) <= x
      <4>1. UpperKeys(rs, b)
        BY KeysAreBelow DEF n
      <4> QED
        BY <4>1 DEF UpperKeys, n, x
    <3>2. /\ KeysFrom(b, r) \in Nat /\ Len(rs[r].foreign_keys) \in Nat
          /\ j \in 1..Len(rs[r].foreign_keys)
          /\ KeysFrom(b, r) + Len(rs[r].foreign_keys) <= x
      BY <3>1 DEF KeysTo, n
    <3> DEFINE from == KeysFrom(b, r)
               len == Len(rs[r].foreign_keys)
    <3>3. /\ from \in Nat /\ len \in Nat /\ j \in 1..len /\ from + len <= x
          /\ x \in Nat /\ p = from + j - 1
      BY <1>2, <3>2
    <3> HIDE DEF from, len, p, u, fk
    <3> QED
      BY <3>3
  <2>3. ReferenceLinked(b, ts, p, rs[r], fk, b.unresolved[(p - 0) + 1])
    <3>1. p >= 0
      BY <2>1
    <3> QED
      BY <1>5, <3>1 DEF ReferencesLinked, n
  <2>4. (p - 0) + 1 = p + 1
    BY <2>1
  <2>5. /\ u.pool_index = p /\ u.source + 1 \in 1..Len(ts)
        /\ b.interner[ts[u.source + 1].name] = rs[r].table
        /\ u.table \in 1..Len(b.interner) /\ b.interner[u.table] = fk.table
        /\ u.column \in 1..Len(b.interner) /\ b.interner[u.column] = fk.column
    BY <2>3, <2>4 DEF ReferenceLinked
  <2>6. /\ u.source + 1 \in 1..Len(us)
        /\ us[u.source + 1].name = ts[u.source + 1].name
        /\ ts[u.source + 1].name \in 1..Len(b.interner)
    <3> DEFINE i == u.source + 1
    <3>1. i \in 1..Len(ts)
      BY <2>5
    <3> HIDE DEF i
    <3>2. /\ i \in 1..Len(us) /\ us[i].name = ts[i].name
          /\ ts[i].name \in 1..Len(b.interner)
      BY <3>1 DEF NamesStay
    <3> QED
      BY <3>2 DEF i
  <2>7. c.unresolved[p + 1] = u
    BY <1>2, <2>2
  <2> HIDE DEF p, u, fk
  <2>8. ReferenceLinked(c, us, p, rs[r], fk, u)
    BY <1>4, <2>5, <2>6 DEF ReferenceLinked
  <2> QED
    BY <2>7, <2>8 DEF p, fk
<1>9. ASSUME NEW j \in 1..k
      PROVE  LET p == x + j - 1
             IN  ReferenceLinked(c, us, p, row, row.foreign_keys[j],
                                 c.unresolved[p + 1])
  <2> DEFINE p == x + j - 1
             u == c.unresolved[x + j]
  <2>1. p + 1 = x + j
    BY <1>2
  <2>2. /\ u.source + 1 \in 1..Len(us)
        /\ c.interner[us[u.source + 1].name] = row.table
    <3>1. u.source = Len(c.tables)
      BY <1>6
    <3>2. Len(c.tables) + 1 \in 1..Len(us)
      BY <1>7
    <3> HIDE DEF u
    <3> QED
      BY <1>7, <3>1, <3>2
  <2> QED
    BY <1>6, <2>1, <2>2 DEF ReferenceLinked
<1>10. ASSUME NEW r \in 1..(n + 1), NEW j \in 1..Len(rs2[r].foreign_keys)
       PROVE  LET p == KeysFrom(c, r) + j - 1
              IN  ReferenceLinked(c, us, p, rs2[r], rs2[r].foreign_keys[j],
                                  c.unresolved[(p - Done(c)) + 1])
  <2> DEFINE p == KeysFrom(c, r) + j - 1
  <2>1. CASE r \in 1..n
    <3>1. KeysFrom(c, r) = KeysFrom(b, r) /\ rs2[r] = rs[r]
      BY <1>1, <1>3, <2>1
    <3>2. j \in 1..Len(rs[r].foreign_keys)
      BY <3>1
    <3>3. p \in Int
      BY <2>1, <3>1, <3>2 DEF n
    <3>4. (p - Done(c)) + 1 = p + 1
      BY <1>5, <3>3
    <3> QED
      BY <1>8, <2>1, <3>1, <3>2, <3>4
  <2>2. CASE r = n + 1
    <3>1. KeysFrom(c, r) = x /\ rs2[r] = row
      BY <1>1, <1>3, <2>2
    <3>2. j \in 1..k
      BY <3>1 DEF k
    <3>3. p \in Int
      BY <1>2, <3>1, <3>2
    <3>4. (p - Done(c)) + 1 = p + 1
      BY <1>5, <3>3
    <3> QED
      BY <1>9, <3>1, <3>2, <3>4
  <2> QED
    BY <1>1, <2>1, <2>2
<1>11. ReferencesLinked(rs2, c, us)
  <2>1. Len(c.unresolved) <= Len(c.foreign_key_pool)
    BY <1>2
  <2> QED
    BY <1>1, <1>10, <2>1 DEF ReferencesLinked
<1> QED
  BY <1>2, <1>11

-----------------------------------------------------------------------------
(* The links are kept by every step.                                       *)

LEMMA RowTypes ==
    ASSUME NEW rs \in Seq(Rows)
    PROVE  /\ Len(rs) \in Nat
           /\ \A r \in 1..Len(rs) :
                 /\ rs[r] \in Rows /\ rs[r] \in Row
                 /\ rs[r].foreign_keys \in Seq(RawForeignKey)
                 /\ Len(rs[r].foreign_keys) \in Nat
                 /\ Len(rs[r].checks) \in Nat
<1>1. Len(rs) \in Nat /\ \A r \in 1..Len(rs) : rs[r] \in Rows
  OBVIOUS
<1>2. ASSUME NEW r \in 1..Len(rs)
      PROVE  /\ rs[r] \in Rows /\ rs[r] \in Row
             /\ rs[r].foreign_keys \in Seq(RawForeignKey)
             /\ Len(rs[r].foreign_keys) \in Nat /\ Len(rs[r].checks) \in Nat
  <2>1. rs[r] \in Rows /\ rs[r] \in Row
    BY <1>1, RowsAssumption
  <2>2. /\ rs[r].foreign_keys \in Seq(RawForeignKey)
        /\ rs[r].checks \in Seq(STRING)
    BY <2>1 DEF Row
  <2> QED
    BY <2>1, <2>2, LenProperties
<1> QED
  BY <1>1, <1>2

LEMMA KeyTypes ==
    ASSUME NEW rs \in Seq(Rows), NEW b \in DatabaseSchemaBuilder,
           ColumnsLinked(rs, b)
    PROVE  \A r \in 1..Len(rs) : /\ b.columns[r] \in Column
                                 /\ Len(rs[r].foreign_keys) \in Nat
                                 /\ KeysFrom(b, r) \in Nat
<1> SUFFICES ASSUME NEW r \in 1..Len(rs)
             PROVE  /\ b.columns[r] \in Column
                    /\ Len(rs[r].foreign_keys) \in Nat
                    /\ KeysFrom(b, r) \in Nat
  OBVIOUS
<1>1. b.columns \in Seq(Column) /\ Len(b.columns) = Len(rs)
  BY BuilderTypes DEF ColumnsLinked
<1>2. b.columns[r] \in Column
  BY <1>1
<1>3. KeysFrom(b, r) \in Nat
  BY <1>2 DEF KeysFrom, Column, PoolRanges
<1> QED
  BY <1>2, <1>3, RowTypes

\* add_row.
LEMMA RowKeepsLinks ==
    ASSUME NEW rs \in Seq(Rows), NEW row \in Rows, NEW rs2,
           NextRow(rs, row, rs2), MayFollow(rs, row),
           NEW b, NEW c, BuilderFits(b), BuilderFits(c), IsAdded(b, row, c),
           Linked(rs, b, AllTables(b)), OpenLinked(rs, b),
           Len(b.unresolved) = Len(b.foreign_key_pool)
    PROVE  /\ Linked(rs2, c, AllTables(c)) /\ OpenLinked(rs2, c)
           /\ Len(c.unresolved) = Len(c.foreign_key_pool)
<1>1. /\ b \in DatabaseSchemaBuilder /\ Sizes(b) /\ Sizes(c)
  BY SizesAre DEF BuilderFits
<1>2. /\ row \in Row /\ Len(row.foreign_keys) \in Nat
      /\ Len(row.checks) \in Nat
  <2>1. row \in Row
    BY RowsAssumption
  <2>2. row.foreign_keys \in Seq(RawForeignKey) /\ row.checks \in Seq(STRING)
    BY <2>1 DEF Row
  <2> QED
    BY <2>1, <2>2, LenProperties
<1>3. /\ RowsLinked(rs) /\ ColumnsLinked(rs, b) /\ KeysLinked(rs, b)
      /\ ChecksLinked(rs, b)
      /\ TablesLinked(rs, b, AllTables(b))
      /\ ReferencesLinked(rs, b, AllTables(b))
  BY DEF Linked
<1>4. RowsLinked(rs2)
  BY <1>3, RowsStay
<1>5. ColumnsLinked(rs2, c)
  BY <1>1, <1>3, ColumnStays
<1>6. KeysLinked(rs2, c)
  BY <1>1, <1>2, <1>3, KeysStay
<1>7. /\ TablesLinked(rs2, c, AllTables(c))
      /\ NamesStay(AllTables(b), AllTables(c))
      /\ OpenLinked(rs2, c)
      /\ Len(AllTables(c)) = Len(c.tables) + 1
      /\ AllTables(c)[Len(c.tables) + 1].name = c.current_table
  BY <1>3, TablesStay
<1>8. \A r \in 1..Len(rs) : /\ Len(rs[r].foreign_keys) \in Nat
                            /\ KeysFrom(b, r) \in Nat
  BY <1>1, <1>3, KeyTypes
<1>9. \A t \in 1..Len(AllTables(b)) :
         AllTables(b)[t].name \in 1..Len(b.interner)
  BY <1>3 DEF TablesLinked, TableLinked
<1>10. /\ ReferencesLinked(rs2, c, AllTables(c))
       /\ Len(c.unresolved) = Len(c.foreign_key_pool)
  BY <1>1, <1>2, <1>3, <1>7, <1>8, <1>9, ReferencesStay
<1>11. ChecksLinked(rs2, c)
  <2>1. b.constraint_pool \in Seq(Symbol)
    BY <1>1, BuilderTypes
  <2>2. Len(b.constraint_pool) \in Nat
    BY <2>1, LenProperties
  <2> QED
    BY <1>1, <1>2, <1>3, <2>2, ChecksStay
<1> QED
  BY <1>4, <1>5, <1>6, <1>7, <1>10, <1>11 DEF Linked

\* What does not touch the arrays keeps the links.
LEMMA SameKeepsLinks ==
    ASSUME NEW rs, NEW b, NEW c, NEW ts, SameFields(b, c), Linked(rs, b, ts)
    PROVE  Linked(rs, c, ts)
<1>1. /\ c.interner = b.interner /\ c.columns = b.columns
      /\ c.column_names = b.column_names
      /\ c.constraint_pool = b.constraint_pool
      /\ c.foreign_key_pool = b.foreign_key_pool
      /\ c.unresolved = b.unresolved
  BY DEF SameFields
<1>2. /\ ColumnsLinked(rs, b) <=> ColumnsLinked(rs, c)
      /\ ChecksLinked(rs, b) => ChecksLinked(rs, c)
  BY <1>1 DEF ColumnsLinked, ColumnLinked, ChecksLinked
<1>3. \A r : KeysFrom(b, r) = KeysFrom(c, r)
  BY <1>1 DEF KeysFrom
<1>4. \A r : KeysTo(rs, b, r) = KeysTo(rs, c, r)
  BY <1>3 DEF KeysTo
<1>5. KeysLinked(rs, b) => KeysLinked(rs, c)
  BY <1>1, <1>3, <1>4 DEF KeysLinked
<1>6. \A m : TableLinked(rs, b, m) => TableLinked(rs, c, m)
  BY <1>1, <1>3, <1>4 DEF TableLinked
<1>7. TablesLinked(rs, b, ts) => TablesLinked(rs, c, ts)
  BY <1>6 DEF TablesLinked
<1>8. \A p, row, fk, u : ReferenceLinked(b, ts, p, row, fk, u)
                         => ReferenceLinked(c, ts, p, row, fk, u)
  BY <1>1 DEF ReferenceLinked
<1>9. Done(b) = Done(c)
  BY <1>1 DEF Done
<1>10. ReferencesLinked(rs, b, ts) => ReferencesLinked(rs, c, ts)
  BY <1>1, <1>3, <1>8, <1>9 DEF ReferencesLinked
<1> QED
  BY <1>2, <1>5, <1>7, <1>10 DEF Linked

\* build takes the first reference off the list.
FirstTaken(b, c) ==
    /\ c.interner = b.interner /\ c.columns = b.columns
    /\ c.column_names = b.column_names
    /\ c.constraint_pool = b.constraint_pool
    /\ c.foreign_key_pool = b.foreign_key_pool
    /\ c.tables = b.tables
    /\ Len(b.unresolved) \in Nat /\ Len(b.unresolved) > 0
    /\ Len(c.unresolved) = Len(b.unresolved) - 1
    /\ \A i \in 1..(Len(b.unresolved) - 1) :
          c.unresolved[i] = b.unresolved[i + 1]

LEMMA TailIsTaken ==
    ASSUME NEW b \in DatabaseSchemaBuilder, b.unresolved # <<>>,
           NEW c, c = [b EXCEPT !.unresolved = Tail(b.unresolved)]
    PROVE  FirstTaken(b, c) /\ c.constraint_pool = b.constraint_pool
<1>1. b.unresolved \in Seq(UnresolvedFk)
  BY BuilderTypes
<1>2. /\ c.interner = b.interner /\ c.columns = b.columns
      /\ c.column_names = b.column_names
      /\ c.foreign_key_pool = b.foreign_key_pool
      /\ c.constraint_pool = b.constraint_pool
      /\ c.tables = b.tables /\ c.unresolved = Tail(b.unresolved)
  BY DEF DatabaseSchemaBuilder
<1>3. /\ Len(b.unresolved) \in Nat /\ Len(b.unresolved) > 0
      /\ Len(Tail(b.unresolved)) = Len(b.unresolved) - 1
      /\ \A i \in 1..(Len(b.unresolved) - 1) :
            Tail(b.unresolved)[i] = b.unresolved[i + 1]
  BY <1>1
<1> QED
  BY <1>2, <1>3 DEF FirstTaken

LEMMA TakenKeepsLinks ==
    ASSUME NEW rs \in Seq(Rows), NEW b \in DatabaseSchemaBuilder,
           NEW c, NEW ts, FirstTaken(b, c), Linked(rs, b, ts)
    PROVE  /\ Linked(rs, c, ts) /\ Done(c) = Done(b) + 1
           /\ Done(b) \in Nat
<1> DEFINE l == Len(b.unresolved)
           x == Len(b.foreign_key_pool)
<1>1. /\ c.interner = b.interner /\ c.columns = b.columns
      /\ c.column_names = b.column_names
      /\ c.constraint_pool = b.constraint_pool
      /\ c.foreign_key_pool = b.foreign_key_pool
      /\ l \in Nat /\ l > 0 /\ Len(c.unresolved) = l - 1
      /\ \A i \in 1..(l - 1) : c.unresolved[i] = b.unresolved[i + 1]
  BY DEF FirstTaken
<1>2. /\ ColumnsLinked(rs, b) <=> ColumnsLinked(rs, c)
      /\ ChecksLinked(rs, b) => ChecksLinked(rs, c)
  BY <1>1 DEF ColumnsLinked, ColumnLinked, ChecksLinked
<1>3. \A r : KeysFrom(b, r) = KeysFrom(c, r)
  BY <1>1 DEF KeysFrom
<1>4. \A r : KeysTo(rs, b, r) = KeysTo(rs, c, r)
  BY <1>3 DEF KeysTo
<1>5. KeysLinked(rs, b) => KeysLinked(rs, c)
  BY <1>1, <1>3, <1>4 DEF KeysLinked
<1>6. \A m : TableLinked(rs, b, m) => TableLinked(rs, c, m)
  BY <1>1, <1>3, <1>4 DEF TableLinked
<1>7. TablesLinked(rs, b, ts) => TablesLinked(rs, c, ts)
  BY <1>6 DEF TablesLinked
<1>8. \A p, row, fk, u : ReferenceLinked(b, ts, p, row, fk, u)
                         => ReferenceLinked(c, ts, p, row, fk, u)
  BY <1>1 DEF ReferenceLinked
<1>9. /\ ColumnsLinked(rs, b) /\ KeysLinked(rs, b) /\ ReferencesLinked(rs, b, ts)
      /\ Sizes(b)
  BY SizesAre DEF Linked
<1>10. x \in Nat /\ l <= x
  BY <1>9 DEF ReferencesLinked, Sizes
<1>11. UpperKeys(rs, b)
  <2>1. \A r \in 1..Len(rs) : /\ Len(rs[r].foreign_keys) \in Nat
                              /\ KeysFrom(b, r) \in Nat
    BY <1>9, KeyTypes
  <2>2. Len(rs) \in Nat
    OBVIOUS
  <2> QED
    BY <1>9, <2>1, <2>2, KeysAreBelow
<1>12. Done(b) = x - l /\ Done(c) = x - (l - 1)
  BY <1>1 DEF Done
<1> HIDE DEF l, x
<1>13. Done(c) = Done(b) + 1 /\ Done(b) \in Nat /\ Done(b) = x - l
  BY <1>1, <1>10, <1>12
<1>14. ASSUME NEW r \in 1..Len(rs), NEW j \in 1..Len(rs[r].foreign_keys)
       PROVE  LET p == KeysFrom(c, r) + j - 1
              IN  p >= Done(c) =>
                     ReferenceLinked(c, ts, p, rs[r], rs[r].foreign_keys[j],
                                     c.unresolved[p - Done(c) + 1])
  <2> DEFINE from == KeysFrom(b, r)
             len == Len(rs[r].foreign_keys)
             p == from + j - 1
             i == p - Done(c) + 1
             fk == rs[r].foreign_keys[j]
  <2>1. /\ from \in Nat /\ len \in Nat /\ j \in 1..len /\ from + len <= x
    BY <1>9, <1>11, KeyTypes DEF UpperKeys, KeysTo, x
  <2>2. ReferenceLinked(b, ts, p, rs[r], fk, b.unresolved[p - Done(b) + 1])
        \/ ~ (p >= Done(b))
    BY <1>9 DEF ReferencesLinked
  <2> HIDE DEF from, len, fk
  <2>3. p \in Nat /\ p < x
    BY <1>10, <2>1
  <2> HIDE DEF p
  <2>4. ASSUME p >= Done(c)
        PROVE  ReferenceLinked(c, ts, p, rs[r], fk, c.unresolved[i])
    <3>1. /\ i \in 1..(l - 1) /\ i + 1 = p - Done(b) + 1 /\ p >= Done(b)
      BY <1>1, <1>10, <1>13, <2>3, <2>4
    <3> HIDE DEF i
    <3>2. c.unresolved[i] = b.unresolved[i + 1]
      BY <1>1, <3>1
    <3> QED
      BY <1>8, <2>2, <3>1, <3>2
  <2>5. p = KeysFrom(c, r) + j - 1
    BY <1>3 DEF p, from
  <2> QED
    BY <2>4, <2>5 DEF fk
<1>15. ReferencesLinked(rs, c, ts)
  <2>1. Len(c.unresolved) <= Len(c.foreign_key_pool)
    BY <1>1, <1>10 DEF x
  <2> QED
    BY <1>14, <2>1 DEF ReferencesLinked
<1>16. /\ RowsLinked(rs) /\ ColumnsLinked(rs, c) /\ ChecksLinked(rs, c)
       /\ KeysLinked(rs, c) /\ TablesLinked(rs, c, ts)
  BY <1>2, <1>5, <1>7 DEF Linked
<1> QED
  BY <1>13, <1>15, <1>16 DEF Linked

LEMMA InitLinks == ASSUME Init PROVE LinkInv
<1>1. /\ rows = <<>> /\ phase = "rows" /\ builder = EmptyBuilder
  BY DEF Init
<1>2. /\ builder.interner = <<>> /\ builder.tables = <<>>
      /\ builder.columns = <<>> /\ builder.column_names = <<>>
      /\ builder.foreign_key_pool = <<>> /\ builder.unresolved = <<>>
      /\ builder.current_table = None
  BY <1>1 DEF EmptyBuilder
<1>3. AllTables(builder) = <<>>
  BY <1>2 DEF AllTables, FinishTable
<1>4. Len(<<>>) = 0 /\ 1..0 = {}
  OBVIOUS
<1>5. /\ RowsLinked(rows) /\ ColumnsLinked(rows, builder)
      /\ ChecksLinked(rows, builder)
  BY <1>1, <1>2, <1>4 DEF RowsLinked, ColumnsLinked, ChecksLinked, NoRepeats
<1>6. KeysLinked(rows, builder) /\ TablesLinked(rows, builder, <<>>)
  BY <1>1, <1>2, <1>4 DEF KeysLinked, TablesLinked
<1>7. ReferencesLinked(rows, builder, <<>>) /\ OpenLinked(rows, builder)
  BY <1>1, <1>2, <1>4 DEF ReferencesLinked, OpenLinked
<1> QED
  BY <1>1, <1>2, <1>3, <1>5, <1>6, <1>7 DEF LinkInv, Linked

LEMMA AddRowLinks ==
    ASSUME IInv, LinkInv, NEW row \in Rows, AddRow(row)
    PROVE  LinkInv'
<1>1. /\ phase = "rows" /\ phase' = "rows" /\ Follows(row)
      /\ rows' = Append(rows, row) /\ builder' = WithRow(builder, row)
  BY DEF AddRow
<1>2. rows \in Seq(Rows) /\ BuilderFits(builder) /\ row \in Row
  BY <1>1, RowsAssumption DEF IInv, TypeOK, EarlyInv
<1>3. BuilderFits(builder') /\ IsAdded(builder, row, builder')
  BY <1>1, <1>2, WithRowKeeps, RowIsAdded
<1>4. NextRow(rows, row, rows')
  <2>1. /\ Len(rows') = Len(rows) + 1 /\ rows'[Len(rows) + 1] = row
        /\ Len(rows) \in Nat /\ \A i \in 1..Len(rows) : rows'[i] = rows[i]
    BY <1>1, <1>2, AppendAt
  <2> QED
    BY <2>1 DEF NextRow
<1>5. MayFollow(rows, row)
  <2>1. DOMAIN rows = 1..Len(rows)
    BY <1>2
  <2> QED
    BY <1>1, <2>1 DEF Follows, MayFollow
<1>6. /\ Linked(rows, builder, AllTables(builder)) /\ OpenLinked(rows, builder)
      /\ Len(builder.unresolved) = Len(builder.foreign_key_pool)
  BY <1>1 DEF LinkInv
<1>7. /\ Linked(rows', builder', AllTables(builder'))
      /\ OpenLinked(rows', builder')
      /\ Len(builder'.unresolved) = Len(builder'.foreign_key_pool)
  BY <1>2, <1>3, <1>4, <1>5, <1>6, RowKeepsLinks
<1> QED
  BY <1>1, <1>7 DEF LinkInv

LEMMA BuildLinks ==
    ASSUME IInv, LinkInv, Build
    PROVE  LinkInv'
<1>1. /\ phase = "rows" /\ phase' = "resolve"
      /\ builder' = FinishTable(builder) /\ rows' = rows
  BY DEF Build
<1>2. builder \in DatabaseSchemaBuilder /\ StartsFit(builder)
  BY <1>1 DEF IInv, EarlyInv, BuilderFits
<1>3. SameFields(builder, builder') /\ builder'.tables = AllTables(builder)
  BY <1>1, <1>2, FinishTableKeeps DEF AllTables
<1>4. Linked(rows, builder, AllTables(builder))
  BY <1>1 DEF LinkInv
<1>5. Linked(rows', builder', builder'.tables)
  BY <1>1, <1>3, <1>4, SameKeepsLinks
<1> QED
  BY <1>1, <1>5 DEF LinkInv

LEMMA ResolveFkLinks ==
    ASSUME IInv, LinkInv, ResolveFk
    PROVE  LinkInv'
<1>1. /\ phase = "resolve" /\ phase' = "resolve" /\ rows' = rows
      /\ builder.unresolved # <<>>
      /\ builder' = [builder EXCEPT !.unresolved = Tail(builder.unresolved)]
  BY DEF ResolveFk
<1>2. builder \in DatabaseSchemaBuilder /\ rows \in Seq(Rows)
  BY DEF IInv, TypeOK
<1>3. FirstTaken(builder, builder')
  BY <1>1, <1>2, TailIsTaken
<1>4. Linked(rows, builder, builder.tables)
  BY <1>1 DEF LinkInv
<1>5. Linked(rows, builder', builder.tables)
  BY <1>2, <1>3, <1>4, TakenKeepsLinks
<1>6. builder'.tables = builder.tables
  BY <1>3 DEF FirstTaken
<1> QED
  BY <1>1, <1>5, <1>6 DEF LinkInv

\* Every step keeps the links.
LEMMA LinkStep ==
    ASSUME IInv, LinkInv, [Next]_vars
    PROVE  LinkInv'
<1>1. CASE Build
  BY <1>1, BuildLinks
<1>2. CASE ResolveFk
  BY <1>2, ResolveFkLinks
<1>3. CASE \E row \in Rows : AddRow(row)
  BY <1>3, AddRowLinks
<1>4. CASE StartSort
  <2>1. /\ phase = "resolve" /\ phase' = "sort" /\ builder.unresolved = <<>>
        /\ rows' = rows /\ builder' = builder
    BY <1>4 DEF StartSort
  <2> QED
    BY <2>1 DEF LinkInv
<1>5. CASE Visit \/ Relax \/ AddCycles \/ Finish
  <2>1. /\ phase \in {"sort", "number"} /\ phase' \in {"sort", "number", "done"}
        /\ rows' = rows /\ builder' = builder
    BY <1>5 DEF Visit, Relax, AddCycles, Finish
  <2> QED
    BY <2>1 DEF LinkInv
<1>6. CASE UNCHANGED vars
  BY <1>6 DEF vars, LinkInv
<1> QED
  BY <1>1, <1>2, <1>3, <1>4, <1>5, <1>6 DEF Next, Step

\* The links hold throughout.
LEMMA LinksInductive == Spec => [](IInv /\ LinkInv)
<1>1. Init => LinkInv
  BY InitLinks
<1>2. IInv /\ LinkInv /\ [Next]_vars => LinkInv'
  BY LinkStep
<1> QED
  BY <1>1, <1>2, Inductive, PTL DEF Spec

-----------------------------------------------------------------------------
(* The result comes back from its bytes.                                   *)

LEMMA NewTableKeeps ==
    ASSUME NEW fks, NEW t \in TableMeta
    PROVE  /\ NewTable(fks, t).name = t.name
           /\ NewTable(fks, t).columns_start = t.columns_start
           /\ NewTable(fks, t).columns_len = t.columns_len
           /\ NewTable(fks, t).primary_key = t.primary_key
           /\ NewTable(fks, t).fk_start
                 = Compacted(fks, t.fk_start, t.fk_len).start
           /\ NewTable(fks, t).fk_len
                 = Compacted(fks, t.fk_start, t.fk_len).len
BY DEF NewTable, TableMeta

\* The i-th table of the result is one of the builder's.
LEMMA BuiltTables ==
    ASSUME IInv, phase \in {"number", "done"}, NEW i \in 1..Len(Built.tables)
    PROVE  /\ i \in DOMAIN sorted /\ sorted[i] \in Tables(builder)
           /\ sorted[i] + 1 \in 1..Len(builder.tables)
           /\ At(builder.tables, sorted[i]) \in TableMeta
           /\ Built.tables[i]
                 = NewTable(resolved, At(builder.tables, sorted[i]))
<1>1. sorted \in Seq(Tables(builder)) /\ builder \in DatabaseSchemaBuilder
  BY DEF IInv, TypeOK
<1>2. Len(Built.tables) = Len(sorted)
  BY BuiltIs
<1>3. i \in DOMAIN sorted /\ sorted[i] \in Tables(builder)
  BY <1>1, <1>2
<1>4. At(builder.tables, sorted[i]) \in TableMeta
  BY <1>1, <1>3, TablesAre
<1>5. sorted[i] + 1 \in 1..Len(builder.tables)
  <2>1. sorted[i] \in 0..(Len(builder.tables) - 1)
    BY <1>1, <1>3, TablesAre
  <2>2. Len(builder.tables) \in Nat
    BY <1>1, BuilderTypes
  <2> QED
    BY <2>1, <2>2
<1>6. Built.tables = [k \in DOMAIN sorted |->
                         NewTable(resolved, At(builder.tables, sorted[k]))]
  BY DEF Built
<1> QED
  BY <1>3, <1>4, <1>5, <1>6

\* encode and decode, and decode_unchecked, give back the result of build,
\* for any rows: no primary key has the number that stands for None.
THEOREM SchemaComesBack == Spec => []RoundTrip
<1>1. IInv /\ LinkInv => RoundTrip
  <2> SUFFICES ASSUME IInv, LinkInv, phase = "done" PROVE RoundTrip
    BY DEF RoundTrip
  <2>1. schema = Built /\ Built \in DatabaseSchema
    BY BuiltIs DEF IInv, DoneInv
  <2>2. TablesLinked(rows, builder, builder.tables)
    BY DEF LinkInv, Linked
  <2>3. ASSUME NEW i \in 1..Len(Built.tables)
        PROVE  Built.tables[i].primary_key # U16 - 1
    <3> DEFINE m == At(builder.tables, sorted[i])
    <3>1. Built.tables[i].primary_key = m.primary_key
      BY BuiltTables, NewTableKeeps
    <3>2. TableLinked(rows, builder, m)
      <4>1. sorted[i] + 1 \in 1..Len(builder.tables)
        BY BuiltTables
      <4> QED
        BY <2>2, <4>1 DEF TablesLinked, At
    <3> HIDE DEF m
    <3>3. /\ m.columns_len \in 1..MaxColumns
          /\ m.primary_key # None => m.primary_key \in 0..(m.columns_len - 1)
      BY <3>2 DEF TableLinked, KeyLinked
    <3>4. /\ MaxColumns \in Nat /\ MaxColumns < U16 /\ U16 \in Nat
          /\ None \notin Int
      BY LimitsAssumption, U16Assumption, NoneAssumption
    <3>5. m.primary_key # None => m.primary_key # U16 - 1
      BY <3>3, <3>4
    <3>6. None # U16 - 1
      BY <3>4
    <3> QED
      BY <3>1, <3>5, <3>6
  <2>4. KeysFit(schema)
    BY <2>1, <2>3 DEF KeysFit
  <2>5. Decode(Encode(schema)) = schema /\ DecodeUnchecked(Encode(schema)) = schema
    BY <2>1, <2>4, DecodeInverts
  <2> QED
    BY <2>5 DEF RoundTrip
<1> QED
  BY <1>1, LinksInductive, PTL

-----------------------------------------------------------------------------
(* What is resolved, and the graph.                                        *)

\* Leads, for the rows rs.
LeadsIn(rs, fk) ==
    \E r \in 1..Len(rs) : rs[r].table = fk.table /\ rs[r].column = fk.column

\* The table t and its i-th column, from 0, are those a foreign key names.
TargetLinked(b, fk, t, i) ==
    LET m == At(b.tables, t)
    IN  /\ t \in Tables(b)
        /\ b.interner[m.name] = fk.table
        /\ i \in 0..(m.columns_len - 1)
        /\ b.interner[b.column_names[m.columns_start + i + 1]] = fk.column

\* The j-th foreign key of row r is at place p of the pool.
IsAt(rs, b, p, r, j) ==
    /\ r \in 1..Len(rs) /\ j \in 1..Len(rs[r].foreign_keys)
    /\ p = KeysFrom(b, r) + j - 1

\* A foreign key that was resolved leads where its row says.
ResolvedTo(rs, b, p, t, i) ==
    \E r, j \in Nat : /\ IsAt(rs, b, p, r, j)
                      /\ TargetLinked(b, rs[r].foreign_keys[j], t, i)

\* Those that were resolved are in order, and are all that lead somewhere.
ResolvedLinked(rs, b, done) ==
    /\ \A k, l \in 1..Len(done) :
          k < l => done[k].pool_index < done[l].pool_index
    /\ \A k \in 1..Len(done) :
          /\ done[k].pool_index < Done(b)
          /\ ResolvedTo(rs, b, done[k].pool_index, done[k].table,
                        done[k].column)
    /\ \A r, j, p \in Nat :
          IsAt(rs, b, p, r, j) /\ p < Done(b)
          /\ LeadsIn(rs, rs[r].foreign_keys[j])
             => \E k \in 1..Len(done) : done[k].pool_index = p

\* The name of a table of the builder.
NameIn(b, t) == b.interner[TableName(b, t)]

\* The foreign key at place p leads from the table v to u.
LinkAt(rs, b, p, v, u) ==
    \E r, j \in Nat :
        /\ IsAt(rs, b, p, r, j)
        /\ rs[r].table = NameIn(b, v)
        /\ rs[r].foreign_keys[j].table = NameIn(b, u)
        /\ LeadsIn(rs, rs[r].foreign_keys[j])

\* One before place n does.
Refers(rs, b, n, v, u) == \E p \in Nat : p < n /\ LinkAt(rs, b, p, v, u)

GraphLinked(rs, b, g) ==
    \A u, v \in Tables(b) :
        Contains(g[u], v) <=> u # v /\ Refers(rs, b, Done(b), v, u)

ResolveInv ==
    phase # "rows" => /\ ResolvedLinked(rows, builder, resolved)
                      /\ GraphLinked(rows, builder, graph)

\* No two tables have the same name.
LEMMA NamesDiffer ==
    ASSUME NEW rs, Len(rs) \in Nat, NEW b, TablesLinked(rs, b, b.tables),
           NEW t \in Tables(b), NEW u \in Tables(b), Len(b.tables) \in Nat,
           NameIn(b, t) = NameIn(b, u)
    PROVE  t = u
<1> DEFINE x == At(b.tables, t)
           y == At(b.tables, u)
<1>1. /\ t \in Nat /\ u \in Nat
      /\ t + 1 \in 1..Len(b.tables) /\ u + 1 \in 1..Len(b.tables)
  BY DEF Tables, Indices
<1>2. TableLinked(rs, b, x) /\ TableLinked(rs, b, y)
  BY <1>1 DEF TablesLinked, At
<1>3. b.interner[x.name] = b.interner[y.name]
  BY DEF NameIn, TableName
<1>4. /\ t < u => x.columns_start + x.columns_len <= y.columns_start
      /\ u < t => y.columns_start + y.columns_len <= x.columns_start
  <2>1. /\ t < u => t + 1 < u + 1
        /\ u < t => u + 1 < t + 1
    BY <1>1
  <2> QED
    BY <1>1, <2>1 DEF TablesLinked, At
<1> HIDE DEF x, y
<1>5. /\ x.columns_start \in Nat /\ x.columns_len \in Nat
      /\ x.columns_len >= 1 /\ x.columns_start + 1 \in 1..Len(rs)
      /\ \A r \in 1..Len(rs) :
            rs[r].table = b.interner[x.name] <=> InTable(x, r)
      /\ y.columns_start \in Nat /\ y.columns_len \in Nat
      /\ y.columns_len >= 1 /\ y.columns_start + 1 \in 1..Len(rs)
      /\ \A r \in 1..Len(rs) :
            rs[r].table = b.interner[y.name] <=> InTable(y, r)
  BY <1>2, LinkedTable
<1>6. InTable(x, x.columns_start + 1) /\ InTable(y, y.columns_start + 1)
  BY SMTT(30), <1>5 DEF InTable
<1>7. InTable(y, x.columns_start + 1) /\ InTable(x, y.columns_start + 1)
  BY <1>3, <1>5, <1>6
<1>8. x.columns_start = y.columns_start
  BY <1>5, <1>7 DEF InTable
<1>9. ~ (t < u) /\ ~ (u < t)
  BY <1>4, <1>5, <1>8
<1> QED
  BY <1>1, <1>9

\* Every row is one of a table.
LEMMA RowsTable ==
    ASSUME NEW rs, Len(rs) \in Nat, NEW b, TablesLinked(rs, b, b.tables),
           Len(b.tables) \in Nat, NEW r \in 1..Len(rs)
    PROVE  \E t \in Tables(b) : /\ InTable(At(b.tables, t), r)
                                /\ NameIn(b, t) = rs[r].table
<1>1. PICK k \in 1..Len(b.tables) : InTable(b.tables[k], r)
  BY DEF TablesLinked
<1> DEFINE t == k - 1
<1>2. t \in Tables(b) /\ t + 1 = k
  BY DEF Tables, Indices
<1>3. At(b.tables, t) = b.tables[k]
  BY <1>2 DEF At
<1>4. TableLinked(rs, b, b.tables[k])
  BY DEF TablesLinked
<1>5. rs[r].table = b.interner[b.tables[k].name]
  BY <1>1, <1>4, LinkedTable
<1>6. NameIn(b, t) = rs[r].table
  BY <1>3, <1>5 DEF NameIn, TableName
<1> QED
  BY <1>1, <1>2, <1>3, <1>6

\* A table of the builder, by its number.
LEMMA TableAtIs ==
    ASSUME NEW rs, Len(rs) \in Nat, NEW b, TablesLinked(rs, b, b.tables),
           Len(b.tables) \in Nat, NEW t \in Tables(b)
    PROVE  LET m == At(b.tables, t)
           IN  /\ t + 1 \in 1..Len(b.tables) /\ t \in Nat
               /\ TableLinked(rs, b, m)
               /\ TableName(b, t) = m.name /\ NameIn(b, t) = b.interner[m.name]
               /\ m.name \in 1..Len(b.interner)
               /\ m.columns_start \in Nat /\ m.columns_len \in Nat
               /\ m.columns_len >= 1
               /\ m.columns_start + m.columns_len <= Len(rs)
               /\ \A r \in 1..Len(rs) :
                     rs[r].table = NameIn(b, t) <=> InTable(m, r)
<1> DEFINE m == At(b.tables, t)
<1>1. t + 1 \in 1..Len(b.tables) /\ t \in Nat
  BY DEF Tables, Indices
<1>2. TableLinked(rs, b, m)
  BY <1>1 DEF TablesLinked, At
<1>3. TableName(b, t) = m.name /\ NameIn(b, t) = b.interner[m.name]
  BY DEF TableName, NameIn
<1> HIDE DEF m
<1>4. /\ m.columns_start \in Nat /\ m.columns_len \in Nat
      /\ m.columns_len >= 1
      /\ m.columns_start + m.columns_len <= Len(rs)
      /\ \A r \in 1..Len(rs) :
            rs[r].table = b.interner[m.name] <=> InTable(m, r)
  BY <1>2, LinkedTable
<1>5. m.name \in 1..Len(b.interner)
  BY <1>2 DEF TableLinked
<1> QED
  BY <1>1, <1>2, <1>3, <1>4, <1>5 DEF m

\* The row of a foreign key's target.
LEMMA TargetRow ==
    ASSUME NEW rs, Len(rs) \in Nat, NEW b, TablesLinked(rs, b, b.tables),
           ColumnsLinked(rs, b), Len(b.tables) \in Nat,
           NEW fk, NEW t, NEW i, TargetLinked(b, fk, t, i)
    PROVE  LET s == At(b.tables, t).columns_start + i + 1
           IN  /\ s \in 1..Len(rs) /\ InTable(At(b.tables, t), s)
               /\ rs[s].table = fk.table /\ rs[s].column = fk.column
               /\ LeadsIn(rs, fk)
<1> DEFINE m == At(b.tables, t)
           s == m.columns_start + i + 1
<1>1. /\ t \in Tables(b) /\ b.interner[m.name] = fk.table
      /\ i \in 0..(m.columns_len - 1)
      /\ b.interner[b.column_names[s]] = fk.column
  BY DEF TargetLinked
<1>2. /\ m.columns_start \in Nat /\ m.columns_len \in Nat
      /\ m.columns_start + m.columns_len <= Len(rs)
      /\ \A r \in 1..Len(rs) : rs[r].table = NameIn(b, t) <=> InTable(m, r)
      /\ NameIn(b, t) = b.interner[m.name]
  BY <1>1, TableAtIs
<1> HIDE DEF m
<1>3. /\ m.columns_start \in Nat /\ m.columns_len \in Nat /\ Len(rs) \in Nat
      /\ m.columns_start + m.columns_len <= Len(rs)
      /\ i \in 0..(m.columns_len - 1)
  BY <1>1, <1>2
<1>4. s \in 1..Len(rs) /\ m.columns_start < s
      /\ s <= m.columns_start + m.columns_len
  BY <1>3
<1> HIDE DEF s
<1>5. InTable(m, s)
  BY <1>4 DEF InTable
<1>6. rs[s].table = fk.table
  BY <1>1, <1>2, <1>4, <1>5
<1>7. rs[s].column = fk.column
  BY <1>1, <1>4 DEF ColumnsLinked, ColumnLinked
<1>8. LeadsIn(rs, fk)
  BY <1>4, <1>6, <1>7 DEF LeadsIn
<1> QED
  BY <1>4, <1>5, <1>6, <1>7, <1>8 DEF s, m

\* Every place of the pool is that of a row's foreign key.
LEMMA PoolIsFilled ==
    ASSUME NEW rs \in Seq(Rows), NEW b \in DatabaseSchemaBuilder,
           ColumnsLinked(rs, b), KeysLinked(rs, b),
           NEW p \in Nat, p < Len(b.foreign_key_pool)
    PROVE  \E r, j \in Nat : IsAt(rs, b, p, r, j)
<1> DEFINE n == Len(rs)
           x == Len(b.foreign_key_pool)
           EndOf(r) == IF r = n THEN x ELSE KeysFrom(b, r + 1)
           P == {r \in Nat : r <= n /\ p < EndOf(r)
                             => \E s, j \in Nat : IsAt(rs, b, p, s, j)}
<1>1. /\ n \in Nat /\ x \in Nat
      /\ \A r \in 1..n : /\ KeysFrom(b, r) \in Nat
                         /\ Len(rs[r].foreign_keys) \in Nat
  BY KeyTypes, BuilderTypes
<1>2. /\ n = 0 => x = 0
      /\ n > 0 => KeysFrom(b, 1) = 0
      /\ \A r \in 1..n : KeysTo(rs, b, r) = EndOf(r)
  BY DEF KeysLinked
<1> HIDE DEF n, x
<1>3. 0 \in P
  <2> SUFFICES ASSUME p < EndOf(0) PROVE FALSE
    OBVIOUS
  <2>1. CASE n = 0
    BY <1>2, <2>1
  <2>2. CASE n # 0
    <3>1. n > 0 /\ 0 + 1 = 1
      BY <1>1, <2>2
    <3>2. EndOf(0) = 0
      BY <1>2, <2>2, <3>1
    <3> HIDE DEF EndOf
    <3> QED
      BY <3>2
  <2> QED
    BY <2>1, <2>2
<1>4. ASSUME NEW r \in Nat, r < n, r \in P PROVE r + 1 \in P
  <2> SUFFICES ASSUME p < EndOf(r + 1)
               PROVE  \E s, j \in Nat : IsAt(rs, b, p, s, j)
    OBVIOUS
  <2> DEFINE s == r + 1
             from == KeysFrom(b, s)
             len == Len(rs[s].foreign_keys)
  <2>1. s \in 1..n /\ from \in Nat /\ len \in Nat
    BY <1>1, <1>4
  <2>2. EndOf(s) = from + len
    BY <1>2, <2>1 DEF KeysTo
  <2>3. EndOf(r) = from
    BY <1>1, <1>4
  <2>4. CASE p < from
    BY <1>1, <1>4, <2>3, <2>4
  <2>5. CASE ~ (p < from)
    <3> DEFINE j == (p - from) + 1
    <3>1. p < from + len
      BY <2>2
    <3> HIDE DEF from, len, EndOf
    <3>2. j \in 1..len /\ p = from + j - 1 /\ j \in Nat
      BY <2>1, <2>5, <3>1
    <3> HIDE DEF s, j
    <3>3. IsAt(rs, b, p, s, j)
      BY <2>1, <3>2 DEF IsAt, from, len, n
    <3>4. s \in Nat
      BY DEF s
    <3> QED
      BY <3>2, <3>3, <3>4
  <2> QED
    BY <2>4, <2>5
<1>5. \A r \in 0..n : r \in P
  <2> HIDE DEF P
  <2> QED
    BY <1>1, <1>3, <1>4, UpTo
<1>6. n \in P
  <2> HIDE DEF P
  <2> QED
    BY <1>1, <1>5
<1>7. p < EndOf(n) /\ n <= n
  BY <1>1 DEF x
<1> HIDE DEF EndOf
<1> QED
  BY <1>6, <1>7

LEMMA SliceAt ==
    ASSUME NEW S, NEW s \in Seq(S), NEW start \in Nat, NEW len \in Nat,
           start + len <= Len(s)
    PROVE  /\ Slice(s, start, len) \in Seq(S)
           /\ Len(Slice(s, start, len)) = len
           /\ DOMAIN Slice(s, start, len) = 1..len
           /\ \A k \in 1..len : Slice(s, start, len)[k] = s[start + k]
<1> DEFINE a == start + 1
           z == start + len
<1>1. /\ a \in 1..(Len(s) + 1) /\ z \in 0..Len(s) /\ (z - a) + 1 = len
      /\ Len(s) \in Nat
  OBVIOUS
<1>2. Slice(s, start, len) = SubSeq(s, a, z)
  BY DEF Slice
<1>3. SubSeq(s, a, z) \in Seq(S)
  <2>1. \A i \in a..z : s[i] \in S
    BY <1>1
  <2> QED
    BY <2>1
<1>4. Len(SubSeq(s, a, z)) = len
  BY <1>1
<1>5. \A k \in 1..len : SubSeq(s, a, z)[k] = s[start + k]
  BY <1>1
<1> QED
  BY <1>2, <1>3, <1>4, <1>5

\* The first of the list is the foreign key at the place that build has come
\* to.
LEMMA HeadIs ==
    ASSUME NEW rs \in Seq(Rows), NEW b \in DatabaseSchemaBuilder,
           Linked(rs, b, b.tables), b.unresolved # <<>>,
           NEW r, NEW j, IsAt(rs, b, Done(b), r, j)
    PROVE  ReferenceLinked(b, b.tables, Done(b), rs[r],
                           rs[r].foreign_keys[j], Head(b.unresolved))
<1> DEFINE d == Done(b)
<1>1. b.unresolved \in Seq(UnresolvedFk) /\ Len(b.foreign_key_pool) \in Nat
  BY BuilderTypes
<1>2. Head(b.unresolved) = b.unresolved[1] /\ Len(b.unresolved) \in Nat
  BY <1>1
<1>3. d \in Int
  BY <1>1, <1>2 DEF Done
<1>4. /\ r \in 1..Len(rs) /\ j \in 1..Len(rs[r].foreign_keys)
      /\ KeysFrom(b, r) + j - 1 = d
  BY DEF IsAt
<1>5. d >= d /\ d - d + 1 = 1
  BY <1>3
<1>6. ReferencesLinked(rs, b, b.tables)
  BY DEF Linked
<1> HIDE DEF d
<1>7. ReferenceLinked(b, b.tables, d, rs[r], rs[r].foreign_keys[j],
                      b.unresolved[d - d + 1])
  BY <1>4, <1>5, <1>6 DEF ReferencesLinked, d
<1> QED
  BY <1>2, <1>5, <1>7 DEF d

\* The symbols of a foreign key's target.
NamesOf(b, fk, u) ==
    /\ u.table \in 1..Len(b.interner) /\ b.interner[u.table] = fk.table
    /\ u.column \in 1..Len(b.interner) /\ b.interner[u.column] = fk.column

\* build finds the target of a foreign key if it leads somewhere, and no
\* other.
LEMMA TargetLeads ==
    ASSUME rows \in Seq(Rows), builder \in DatabaseSchemaBuilder,
           old_by_name = SortedByName(builder.tables),
           Linked(rows, builder, builder.tables),
           NEW fk, NEW u \in UnresolvedFk, NamesOf(builder, fk, u)
    PROVE  /\ Target(u) # None =>
                 /\ TargetLinked(builder, fk, OldTable(u.table), Target(u))
                 /\ OldTable(u.table) \in Tables(builder)
                 /\ LeadsIn(rows, fk)
           /\ LeadsIn(rows, fk) => Target(u) # None
<1> DEFINE b == builder
           t == OldTable(u.table)
           m == At(b.tables, t)
           names == ColumnNames(b, t)
<1>1. /\ Len(rows) \in Nat /\ Len(b.tables) \in Nat /\ Len(b.interner) \in Nat
      /\ b.column_names \in Seq(Symbol)
      /\ TablesLinked(rows, b, b.tables) /\ ColumnsLinked(rows, b)
  BY BuilderTypes DEF Linked
<1>2. u.table \in Symbol /\ None \notin Nat
  BY NoneAssumption DEF UnresolvedFk
<1>3. /\ t \in {None} \cup Tables(b)
      /\ t # None => TableName(b, t) = u.table
      /\ (\E w \in Tables(b) : TableName(b, w) = u.table) => t # None
  <2>1. t \in {None} \cup Tables(b) /\ (t # None => TableName(b, t) = u.table)
    BY <1>2, OldTableIs
  <2>2. ASSUME \E w \in Tables(b) : TableName(b, w) = u.table
        PROVE  t # None
    <3> DEFINE slot == BinarySearch(KeysByName(b, old_by_name), u.table)
    <3>1. slot # None /\ At(old_by_name, slot) \in Tables(b)
      BY <1>2, <2>2, BuilderIndex
    <3>2. t = At(old_by_name, slot)
      BY <3>1 DEF OldTable
    <3>3. \A w \in Tables(b) : w \in Nat
      BY TablesAre
    <3> QED
      BY <1>2, <3>1, <3>2, <3>3
  <2> QED
    BY <2>1, <2>2
<1>4. Target(u) = IF t = None THEN None ELSE Position(names, u.column)
  BY DEF Target
<1>5. /\ NoRepeats(b.interner) /\ Len(b.column_names) = Len(rows)
      /\ \A r \in 1..Len(rows) : ColumnLinked(rows, b, r)
  BY <1>1 DEF ColumnsLinked
<1>6. /\ u.table \in 1..Len(b.interner) /\ b.interner[u.table] = fk.table
      /\ u.column \in 1..Len(b.interner) /\ b.interner[u.column] = fk.column
  BY DEF NamesOf
<1>7. ASSUME t # None
      PROVE  /\ t \in Tables(b) /\ m.name = u.table
             /\ NameIn(b, t) = fk.table /\ b.interner[m.name] = fk.table
             /\ m.columns_start \in Nat /\ m.columns_len \in Nat
             /\ m.columns_start + m.columns_len <= Len(rows)
             /\ \A r \in 1..Len(rows) :
                   rows[r].table = fk.table <=> InTable(m, r)
             /\ Len(names) = m.columns_len
             /\ \A k \in 1..m.columns_len :
                   names[k] = b.column_names[m.columns_start + k]
  <2>1. t \in Tables(b) /\ TableName(b, t) = u.table
    BY <1>3, <1>7
  <2>2. /\ m.name = u.table /\ NameIn(b, t) = b.interner[m.name]
        /\ m.columns_start \in Nat /\ m.columns_len \in Nat
        /\ m.columns_start + m.columns_len <= Len(rows)
        /\ \A r \in 1..Len(rows) :
              rows[r].table = NameIn(b, t) <=> InTable(m, r)
    BY <1>1, <2>1, TableAtIs
  <2>3. names = Slice(b.column_names, m.columns_start, m.columns_len)
    BY DEF ColumnNames
  <2> HIDE DEF t, m, names
  <2>4. /\ Len(names) = m.columns_len
        /\ \A k \in 1..m.columns_len :
              names[k] = b.column_names[m.columns_start + k]
    <3>1. /\ b.column_names \in Seq(Symbol)
          /\ m.columns_start \in Nat /\ m.columns_len \in Nat
          /\ m.columns_start + m.columns_len <= Len(b.column_names)
      BY <1>1, <1>5, <2>2
    <3> DEFINE all == b.column_names
               start == m.columns_start
               len == m.columns_len
    <3> HIDE DEF all, start, len
    <3>2. /\ all \in Seq(Symbol) /\ start \in Nat /\ len \in Nat
          /\ start + len <= Len(all)
      BY <3>1 DEF all, start, len
    <3>3. /\ Len(Slice(all, start, len)) = len
          /\ \A k \in 1..len : Slice(all, start, len)[k] = all[start + k]
      <4>1. /\ Slice(all, start, len) \in Seq(Symbol)
            /\ Len(Slice(all, start, len)) = len
            /\ DOMAIN Slice(all, start, len) = 1..len
            /\ \A k \in 1..len : Slice(all, start, len)[k] = all[start + k]
        BY SMTT(60), <3>2, SliceAt
      <4> QED
        BY <4>1
    <3> QED
      BY <2>3, <3>3 DEF all, start, len
  <2> QED
    BY <1>6, <2>1, <2>2, <2>4
<1> HIDE DEF t, m, names
<1>8. ASSUME Target(u) # None
      PROVE  /\ TargetLinked(b, fk, t, Target(u)) /\ t \in Tables(b)
             /\ LeadsIn(rows, fk)
  <2> DEFINE i == Position(names, u.column)
  <2>1. t # None /\ Target(u) = i /\ i # None
    BY <1>4, <1>8
  <2>2. Len(names) \in Nat
    BY <1>7, <2>1
  <2>3. i \in Indices(names) /\ At(names, i) = u.column
    BY <1>2, <2>1, <2>2, PositionFinds
  <2> HIDE DEF i
  <2>4. i \in 0..(m.columns_len - 1) /\ names[i + 1] = u.column
    BY <1>7, <2>1, <2>3 DEF Indices, At
  <2>5. i + 1 \in 1..m.columns_len
    BY <1>7, <2>1, <2>4
  <2>6. b.column_names[m.columns_start + (i + 1)] = u.column
    BY <1>7, <2>1, <2>4, <2>5
  <2>7. m.columns_start + (i + 1) = m.columns_start + i + 1
    <3>1. m.columns_start \in Nat /\ i \in Int
      BY <1>7, <2>1, <2>4
    <3> QED
      BY <3>1
  <2>8. b.interner[b.column_names[m.columns_start + i + 1]] = fk.column
    BY <1>6, <2>6, <2>7
  <2>9. TargetLinked(b, fk, t, i)
    BY <1>7, <2>1, <2>4, <2>8 DEF TargetLinked, m
  <2> QED
    BY <1>1, <1>7, <2>1, <2>9, TargetRow
<1>9. ASSUME LeadsIn(rows, fk) PROVE Target(u) # None
  <2>1. PICK s \in 1..Len(rows) :
           rows[s].table = fk.table /\ rows[s].column = fk.column
    BY <1>9 DEF LeadsIn
  <2>2. PICK w \in Tables(b) : NameIn(b, w) = rows[s].table
    BY <1>1, RowsTable
  <2>3. TableName(b, w) = u.table
    <3>1. /\ TableName(b, w) \in 1..Len(b.interner)
          /\ b.interner[TableName(b, w)] = b.interner[u.table]
      BY SMTT(30), <1>1, <1>6, <2>1, <2>2, TableAtIs
    <3> QED
      BY <1>5, <1>6, <3>1 DEF NoRepeats
  <2>4. t # None
    BY <1>3, <2>3
  <2>5. InTable(m, s)
    BY <1>7, <2>1, <2>4
  <2> DEFINE k == s - m.columns_start
  <2>6. k \in 1..m.columns_len /\ m.columns_start + k = s
    <3>1. /\ m.columns_start \in Nat /\ m.columns_len \in Nat /\ s \in Nat
          /\ m.columns_start < s /\ s <= m.columns_start + m.columns_len
      BY <1>1, <1>7, <2>4, <2>5 DEF InTable
    <3> QED
      BY <3>1
  <2> HIDE DEF k
  <2>7. names[k] = b.column_names[s]
    BY <1>7, <2>4, <2>6
  <2>8. b.column_names[s] = u.column
    <3>1. /\ b.column_names[s] \in 1..Len(b.interner)
          /\ b.interner[b.column_names[s]] = b.interner[u.column]
      BY <1>5, <1>6, <2>1 DEF ColumnLinked
    <3> QED
      BY <1>5, <1>6, <3>1 DEF NoRepeats
  <2>9. /\ Len(names) \in Nat /\ \E i \in 1..Len(names) : names[i] = u.column
    BY <1>7, <2>4, <2>6, <2>7, <2>8
  <2>10. Position(names, u.column) # None
    BY <1>2, <2>9, PositionFinds
  <2> QED
    BY <1>4, <2>4, <2>10
<1> QED
  BY <1>8, <1>9 DEF t

LEMMA TakenIsSame ==
    ASSUME NEW rs, NEW b, NEW c, FirstTaken(b, c)
    PROVE  /\ Tables(c) = Tables(b)
           /\ \A p, r, j : IsAt(rs, c, p, r, j) <=> IsAt(rs, b, p, r, j)
           /\ \A fk, t, i : TargetLinked(c, fk, t, i)
                            <=> TargetLinked(b, fk, t, i)
           /\ \A p, t, i : ResolvedTo(rs, c, p, t, i)
                           <=> ResolvedTo(rs, b, p, t, i)
           /\ \A p, v, u : LinkAt(rs, c, p, v, u) <=> LinkAt(rs, b, p, v, u)
<1>1. /\ c.interner = b.interner /\ c.columns = b.columns
      /\ c.column_names = b.column_names /\ c.tables = b.tables
  BY DEF FirstTaken
<1>2. Tables(c) = Tables(b)
  BY <1>1 DEF Tables
<1>3. \A p, r, j : IsAt(rs, c, p, r, j) <=> IsAt(rs, b, p, r, j)
  BY <1>1 DEF IsAt, KeysFrom
<1>4. \A fk, t, i : TargetLinked(c, fk, t, i) <=> TargetLinked(b, fk, t, i)
  BY <1>1, <1>2 DEF TargetLinked
<1>5. \A p, t, i : ResolvedTo(rs, c, p, t, i) <=> ResolvedTo(rs, b, p, t, i)
  BY <1>3, <1>4 DEF ResolvedTo
<1>6. \A t : NameIn(c, t) = NameIn(b, t)
  BY <1>1 DEF NameIn, TableName
<1>7. \A p, v, u : LinkAt(rs, c, p, v, u) <=> LinkAt(rs, b, p, v, u)
  BY <1>3, <1>6 DEF LinkAt
<1> QED
  BY <1>2, <1>3, <1>4, <1>5, <1>7

\* A foreign key that leads nowhere is left out.
LEMMA ResolvedSkips ==
    ASSUME NEW rs, NEW b, NEW c, FirstTaken(b, c), Done(b) \in Nat,
           Done(c) = Done(b) + 1, NEW done,
           \A k \in 1..Len(done) : done[k].pool_index \in Nat,
           ResolvedLinked(rs, b, done),
           \A r, j : IsAt(rs, b, Done(b), r, j)
                     => ~ LeadsIn(rs, rs[r].foreign_keys[j])
    PROVE  ResolvedLinked(rs, c, done)
<1> DEFINE d == Done(b)
<1>1. /\ \A k, l \in 1..Len(done) :
            k < l => done[k].pool_index < done[l].pool_index
      /\ \A k \in 1..Len(done) :
            /\ done[k].pool_index < d
            /\ ResolvedTo(rs, b, done[k].pool_index, done[k].table,
                          done[k].column)
      /\ \A r, j, p \in Nat :
            IsAt(rs, b, p, r, j) /\ p < d
            /\ LeadsIn(rs, rs[r].foreign_keys[j])
               => \E k \in 1..Len(done) : done[k].pool_index = p
  BY DEF ResolvedLinked
<1>2. d \in Nat /\ Done(c) = d + 1
  OBVIOUS
<1> HIDE DEF d
<1>3. \A k \in 1..Len(done) : done[k].pool_index < Done(c)
  BY <1>1, <1>2
<1>4. ASSUME NEW r \in Nat, NEW j \in Nat, NEW p \in Nat,
             IsAt(rs, c, p, r, j), p < Done(c),
             LeadsIn(rs, rs[r].foreign_keys[j])
      PROVE  \E k \in 1..Len(done) : done[k].pool_index = p
  <2>1. IsAt(rs, b, p, r, j)
    BY <1>4, TakenIsSame
  <2>2. p # d
    BY <1>4, <2>1 DEF d
  <2>3. p < d
    BY <1>2, <1>4, <2>2
  <2> QED
    BY <1>1, <1>4, <2>1, <2>3
<1>5. \A k \in 1..Len(done) :
         ResolvedTo(rs, c, done[k].pool_index, done[k].table, done[k].column)
  BY SMTT(30), <1>1, TakenIsSame
<1> QED
  BY <1>1, <1>3, <1>4, <1>5 DEF ResolvedLinked

\* The next one is added.
LEMMA ResolvedGrows ==
    ASSUME NEW rs, NEW b, NEW c, FirstTaken(b, c), Done(b) \in Nat,
           Done(c) = Done(b) + 1, NEW S, NEW done \in Seq(S), NEW x \in S,
           \A k \in 1..Len(done) : done[k].pool_index \in Nat,
           ResolvedLinked(rs, b, done), x.pool_index = Done(b),
           ResolvedTo(rs, b, Done(b), x.table, x.column)
    PROVE  ResolvedLinked(rs, c, Append(done, x))
<1> DEFINE d == Done(b)
           n == Len(done)
           more == Append(done, x)
<1>1. /\ \A k, l \in 1..n :
            k < l => done[k].pool_index < done[l].pool_index
      /\ \A k \in 1..n :
            /\ done[k].pool_index < d
            /\ ResolvedTo(rs, b, done[k].pool_index, done[k].table,
                          done[k].column)
      /\ \A r, j, p \in Nat :
            IsAt(rs, b, p, r, j) /\ p < d
            /\ LeadsIn(rs, rs[r].foreign_keys[j])
               => \E k \in 1..n : done[k].pool_index = p
  BY DEF ResolvedLinked
<1>2. /\ d \in Nat /\ Done(c) = d + 1 /\ x.pool_index = d
      /\ ResolvedTo(rs, b, d, x.table, x.column)
      /\ \A k \in 1..n : done[k].pool_index \in Nat
  OBVIOUS
<1>3. /\ Len(more) = n + 1 /\ more[n + 1] = x /\ n \in Nat
      /\ \A i \in 1..n : more[i] = done[i]
  BY AppendAt
<1> HIDE DEF d, n, more
<1>4. \A k \in 1..(n + 1) : k = n + 1 \/ k \in 1..n
  BY <1>3
<1>5. ASSUME NEW k \in 1..(n + 1), NEW l \in 1..(n + 1), k < l
      PROVE  more[k].pool_index < more[l].pool_index
  <2>1. k \in 1..n /\ more[k] = done[k]
    BY <1>3, <1>5
  <2>2. CASE l = n + 1
    BY <1>1, <1>2, <1>3, <2>1, <2>2
  <2>3. CASE l \in 1..n
    BY <1>1, <1>3, <1>5, <2>1, <2>3
  <2> QED
    BY <1>4, <2>2, <2>3
<1>6. ASSUME NEW k \in 1..(n + 1)
      PROVE  /\ more[k].pool_index < Done(c)
             /\ ResolvedTo(rs, c, more[k].pool_index, more[k].table,
                           more[k].column)
  <2>1. CASE k = n + 1
    <3>1. more[k] = x /\ d < d + 1
      BY <1>2, <1>3, <2>1
    <3> QED
      BY <1>2, <3>1, TakenIsSame
  <2>2. CASE k \in 1..n
    <3>1. more[k] = done[k]
      BY <1>3, <2>2
    <3>2. done[k].pool_index < d + 1
      BY <1>1, <1>2, <2>2
    <3> QED
      BY <1>1, <1>2, <2>2, <3>1, <3>2, TakenIsSame
  <2> QED
    BY <1>4, <2>1, <2>2
<1>7. ASSUME NEW r \in Nat, NEW j \in Nat, NEW p \in Nat,
             IsAt(rs, c, p, r, j), p < Done(c),
             LeadsIn(rs, rs[r].foreign_keys[j])
      PROVE  \E k \in 1..(n + 1) : more[k].pool_index = p
  <2>1. IsAt(rs, b, p, r, j)
    BY <1>7, TakenIsSame
  <2>2. CASE p = d
    <3>1. n + 1 \in 1..(n + 1)
      BY <1>3
    <3> QED
      BY <1>2, <1>3, <2>2, <3>1
  <2>3. CASE p # d
    <3>1. p < d
      BY <1>2, <1>7, <2>3
    <3>2. PICK k \in 1..n : done[k].pool_index = p
      BY <1>1, <1>7, <2>1, <3>1
    <3>3. k \in 1..(n + 1) /\ more[k] = done[k]
      BY <1>3
    <3> QED
      BY <3>2, <3>3
  <2> QED
    BY <2>2, <2>3
<1> QED
  BY <1>3, <1>5, <1>6, <1>7 DEF ResolvedLinked, more

\* One more place of the pool is looked at.
LEMMA RefersOn ==
    ASSUME NEW rs, NEW b, NEW c, FirstTaken(b, c), Done(b) \in Nat,
           Done(c) = Done(b) + 1, NEW v, NEW u
    PROVE  Refers(rs, c, Done(c), v, u) <=>
              Refers(rs, b, Done(b), v, u) \/ LinkAt(rs, b, Done(b), v, u)
<1>1. \A p : LinkAt(rs, c, p, v, u) <=> LinkAt(rs, b, p, v, u)
  BY TakenIsSame
<1>2. \A p \in Nat : p < Done(c) <=> p < Done(b) \/ p = Done(b)
  OBVIOUS
<1> QED
  BY <1>1, <1>2 DEF Refers

LEMMA ContainsAppend ==
    ASSUME NEW S, NEW s \in Seq(S), NEW x \in S, NEW v
    PROVE  Contains(Append(s, x), v) <=> Contains(s, v) \/ v = x
<1> DEFINE n == Len(s)
           m == Append(s, x)
<1>1. /\ m \in Seq(S) /\ Len(m) = n + 1 /\ m[n + 1] = x /\ n \in Nat
      /\ \A i \in 1..n : m[i] = s[i]
  BY AppendAt
<1>2. \A i \in 1..(n + 1) : i = n + 1 \/ i \in 1..n
  BY <1>1
<1>3. n + 1 \in 1..(n + 1) /\ \A i \in 1..n : i \in 1..(n + 1)
  BY <1>1
<1> HIDE DEF n, m
<1>4. Contains(m, v) <=> \E i \in 1..(n + 1) : m[i] = v
  BY <1>1, ContainsAt
<1>5. Contains(s, v) <=> \E i \in 1..n : s[i] = v
  BY ContainsAt DEF n
<1> QED
  BY <1>1, <1>2, <1>3, <1>4, <1>5 DEF m

\* What the foreign key in turn links.
LEMMA HeadLinks ==
    ASSUME IInv, LinkInv, phase = "resolve", builder.unresolved # <<>>
    PROVE  LET u == Head(builder.unresolved)
               d == Done(builder)
               t == OldTable(u.table)
           IN  /\ d \in Nat /\ u \in UnresolvedFk /\ u.pool_index = d
               /\ u.source \in Tables(builder)
               /\ Target(u) = None =>
                     /\ \A r, j : IsAt(rows, builder, d, r, j)
                           => ~ LeadsIn(rows, rows[r].foreign_keys[j])
                     /\ \A v, w : ~ LinkAt(rows, builder, d, v, w)
               /\ Target(u) # None =>
                     /\ t \in Tables(builder)
                     /\ ResolvedTo(rows, builder, d, t, Target(u))
                     /\ \A v, w \in Tables(builder) :
                           LinkAt(rows, builder, d, v, w)
                              <=> v = u.source /\ w = t
<1> DEFINE b == builder
           u == Head(b.unresolved)
           d == Done(b)
           t == OldTable(u.table)
<1>1. /\ b \in DatabaseSchemaBuilder /\ rows \in Seq(Rows)
      /\ Linked(rows, b, b.tables)
      /\ old_by_name = SortedByName(b.tables)
  BY DEF IInv, TypeOK, IndexInv, LinkInv
<1>2. /\ ColumnsLinked(rows, b) /\ KeysLinked(rows, b)
      /\ TablesLinked(rows, b, b.tables)
      /\ Len(b.unresolved) <= Len(b.foreign_key_pool)
  BY <1>1 DEF Linked, ReferencesLinked
<1>3. /\ b.unresolved \in Seq(UnresolvedFk) /\ Len(b.foreign_key_pool) \in Nat
      /\ Len(b.tables) \in Nat /\ Len(b.interner) \in Nat /\ Len(rows) \in Nat
  BY <1>1, BuilderTypes
<1>4. u \in UnresolvedFk /\ Len(b.unresolved) \in Nat /\ Len(b.unresolved) > 0
  BY <1>3
<1>5. d \in Nat /\ d < Len(b.foreign_key_pool)
  <2> DEFINE x == Len(b.foreign_key_pool)
             l == Len(b.unresolved)
  <2>1. d = x - l /\ x \in Nat /\ l \in Nat /\ l > 0 /\ l <= x
    BY <1>2, <1>3, <1>4 DEF Done
  <2> HIDE DEF x, l, d
  <2>2. d \in Nat /\ d < x
    BY <2>1
  <2> QED
    BY <2>2 DEF x
<1> HIDE DEF u, d, t, b
<1>6. ASSUME NEW r, NEW j, IsAt(rows, b, d, r, j)
      PROVE  /\ NamesOf(b, rows[r].foreign_keys[j], u)
             /\ u.pool_index = d
             /\ u.source \in Tables(b) /\ NameIn(b, u.source) = rows[r].table
  <2>1. ReferenceLinked(b, b.tables, d, rows[r], rows[r].foreign_keys[j], u)
    BY <1>1, <1>6, HeadIs DEF b, d, u
  <2>2. /\ u.pool_index = d /\ u.source + 1 \in 1..Len(b.tables)
        /\ b.interner[b.tables[u.source + 1].name] = rows[r].table
    BY <2>1 DEF ReferenceLinked
  <2>3. NamesOf(b, rows[r].foreign_keys[j], u)
    BY <2>1 DEF ReferenceLinked, NamesOf
  <2>4. u.source \in Nat
    BY <1>4 DEF UnresolvedFk
  <2>5. u.source \in Tables(b)
    BY <1>3, <2>2, <2>4 DEF Tables, Indices
  <2> QED
    BY <2>2, <2>3, <2>5 DEF NameIn, TableName, At
<1>7. PICK r0 \in Nat, j0 \in Nat : IsAt(rows, b, d, r0, j0)
  BY <1>1, <1>2, <1>5, PoolIsFilled
<1>8. u.pool_index = d /\ u.source \in Tables(b)
  BY <1>6, <1>7
<1>9. ASSUME NEW r, NEW j, IsAt(rows, b, d, r, j)
      PROVE  /\ Target(u) # None =>
                   /\ TargetLinked(b, rows[r].foreign_keys[j], t, Target(u))
                   /\ t \in Tables(b)
                   /\ LeadsIn(rows, rows[r].foreign_keys[j])
             /\ LeadsIn(rows, rows[r].foreign_keys[j]) => Target(u) # None
  <2> DEFINE fk == rows[r].foreign_keys[j]
  <2>1. NamesOf(b, fk, u)
    BY <1>6, <1>9
  <2> HIDE DEF fk
  <2>2. /\ Target(u) # None =>
                 /\ TargetLinked(b, fk, t, Target(u))
                 /\ t \in Tables(b) /\ LeadsIn(rows, fk)
        /\ LeadsIn(rows, fk) => Target(u) # None
    BY <1>1, <1>4, <2>1, TargetLeads DEF b, t
  <2> QED
    BY <2>2 DEF fk
<1>10. ASSUME Target(u) = None
       PROVE  /\ \A r, j : IsAt(rows, b, d, r, j)
                    => ~ LeadsIn(rows, rows[r].foreign_keys[j])
              /\ \A v, w : ~ LinkAt(rows, b, d, v, w)
  <2>1. \A r, j : IsAt(rows, b, d, r, j)
                  => ~ LeadsIn(rows, rows[r].foreign_keys[j])
    BY <1>9, <1>10
  <2> QED
    BY <2>1 DEF LinkAt
<1>11. ASSUME Target(u) # None
       PROVE  /\ t \in Tables(b) /\ ResolvedTo(rows, b, d, t, Target(u))
              /\ \A v, w \in Tables(b) :
                    LinkAt(rows, b, d, v, w) <=> v = u.source /\ w = t
  <2>1. /\ TargetLinked(b, rows[r0].foreign_keys[j0], t, Target(u))
        /\ t \in Tables(b)
    BY <1>7, <1>9, <1>11
  <2>2. ResolvedTo(rows, b, d, t, Target(u))
    BY <1>7, <2>1 DEF ResolvedTo
  <2>3. ASSUME NEW r, NEW j, IsAt(rows, b, d, r, j)
        PROVE  NameIn(b, t) = rows[r].foreign_keys[j].table
    <3>1. TargetLinked(b, rows[r].foreign_keys[j], t, Target(u))
      BY <1>9, <1>11, <2>3
    <3> QED
      BY <3>1 DEF TargetLinked, NameIn, TableName
  <2>4. ASSUME NEW v \in Tables(b), NEW w \in Tables(b),
               LinkAt(rows, b, d, v, w)
        PROVE  v = u.source /\ w = t
    <3>1. PICK r \in Nat, j \in Nat :
             /\ IsAt(rows, b, d, r, j)
             /\ rows[r].table = NameIn(b, v)
             /\ rows[r].foreign_keys[j].table = NameIn(b, w)
      BY <2>4 DEF LinkAt
    <3>2. NameIn(b, v) = NameIn(b, u.source) /\ NameIn(b, w) = NameIn(b, t)
      BY <1>6, <2>3, <3>1
    <3>3. v = u.source
      BY <1>2, <1>3, <1>8, <3>2, NamesDiffer
    <3>4. w = t
      BY <1>2, <1>3, <2>1, <3>2, NamesDiffer
    <3> QED
      BY <3>3, <3>4
  <2>5. LinkAt(rows, b, d, u.source, t)
    <3>1. /\ rows[r0].table = NameIn(b, u.source)
          /\ rows[r0].foreign_keys[j0].table = NameIn(b, t)
          /\ LeadsIn(rows, rows[r0].foreign_keys[j0])
      BY <1>6, <1>7, <1>9, <1>11, <2>3
    <3> QED
      BY <1>7, <3>1 DEF LinkAt
  <2> QED
    BY <2>1, <2>2, <2>4, <2>5
<1> QED
  BY <1>4, <1>5, <1>8, <1>10, <1>11 DEF u, d, t, b

LEMMA ResolveFkResolves ==
    ASSUME IInv, LinkInv, ResolveInv, ResolveFk
    PROVE  ResolveInv'
<1> DEFINE b == builder
           c == builder'
           u == Head(b.unresolved)
           d == Done(b)
           t == OldTable(u.table)
           T == Tables(b)
<1>1. /\ phase = "resolve" /\ phase' = "resolve" /\ rows' = rows
      /\ b.unresolved # <<>>
      /\ c = [b EXCEPT !.unresolved = Tail(b.unresolved)]
      /\ resolved' = IF Target(u) = None THEN resolved
                     ELSE Append(resolved, [pool_index |-> u.pool_index,
                                            table |-> t, column |-> Target(u)])
      /\ IF Waits(u)
         THEN graph' = [graph EXCEPT ![t] = Append(graph[t], u.source)]
         ELSE graph' = graph
  BY DEF ResolveFk
<1>2. /\ b \in DatabaseSchemaBuilder /\ rows \in Seq(Rows)
      /\ Linked(rows, b, b.tables)
      /\ graph \in [T -> Seq(T)]
      /\ resolved \in Seq([pool_index : Indices(b.foreign_key_pool),
                           table : T, column : Nat])
  BY <1>1 DEF IInv, TypeOK, LinkInv
<1>3. FirstTaken(b, c)
  BY <1>1, <1>2, TailIsTaken
<1>4. Done(c) = d + 1 /\ d \in Nat
  BY <1>2, <1>3, TakenKeepsLinks
<1>5. ResolvedLinked(rows, b, resolved) /\ GraphLinked(rows, b, graph)
  BY <1>1 DEF ResolveInv
<1> DEFINE R == [pool_index : Indices(b.foreign_key_pool), table : T,
                 column : Nat]
<1>6. /\ \A k \in 1..Len(resolved) : /\ resolved[k].pool_index \in Nat
                                       /\ resolved[k] \in R
      /\ Len(resolved) \in Nat
      /\ resolved = [k \in 1..Len(resolved) |-> resolved[k]]
  <2>1. resolved \in Seq(R)
    BY <1>2
  <2> HIDE DEF R
  <2>2. /\ \A k \in 1..Len(resolved) : resolved[k] \in R
        /\ Len(resolved) \in Nat
        /\ resolved = [k \in 1..Len(resolved) |-> resolved[k]]
    BY <2>1
  <2>3. Indices(b.foreign_key_pool) \in SUBSET Nat
    BY <1>2, BuilderTypes DEF Indices
  <2>4. \A x \in R : x.pool_index \in Nat
    BY <2>3 DEF R
  <2> QED
    BY <2>2, <2>4
<1>7. /\ u \in UnresolvedFk /\ u.pool_index = d /\ u.source \in T
      /\ Target(u) = None =>
            /\ \A r, j : IsAt(rows, b, d, r, j)
                  => ~ LeadsIn(rows, rows[r].foreign_keys[j])
            /\ \A v, w : ~ LinkAt(rows, b, d, v, w)
      /\ Target(u) # None =>
            /\ t \in T /\ ResolvedTo(rows, b, d, t, Target(u))
            /\ \A v, w \in T : LinkAt(rows, b, d, v, w)
                               <=> v = u.source /\ w = t
  BY <1>1, HeadLinks
<1>8. /\ Target(u) \in {None} \cup Nat
      /\ Tables(c) = T /\ Indices(b.foreign_key_pool) = 0..(Len(b.foreign_key_pool) - 1)
  <2>1. old_by_name = SortedByName(b.tables)
    BY <1>1 DEF IInv, IndexInv
  <2> QED
    BY <1>2, <1>3, <1>7, <2>1, TargetIs, TakenIsSame DEF Indices
<1> HIDE DEF b, c, u, d, t, T, R
<1>9. ResolvedLinked(rows, c, resolved')
  <2>1. CASE Target(u) = None
    <3>1. resolved' = resolved
      BY <1>1, <2>1
    <3> QED
      BY <1>3, <1>4, <1>5, <1>6, <1>7, <2>1, <3>1, ResolvedSkips DEF d
  <2>2. CASE Target(u) # None
    <3> DEFINE x == [pool_index |-> u.pool_index, table |-> t,
                     column |-> Target(u)]
               S == [pool_index : Nat, table : T, column : Nat]
    <3>1. resolved' = Append(resolved, x)
      BY <1>1, <2>2
    <3>2. x \in S /\ x.pool_index = d /\ x.table = t /\ x.column = Target(u)
      BY <1>4, <1>7, <1>8, <2>2
    <3>3. resolved \in Seq(S)
      <4>1. \A k \in 1..Len(resolved) : resolved[k] \in S
        BY <1>6 DEF R
      <4> HIDE DEF S
      <4> QED
        BY <1>6, <4>1
    <3> HIDE DEF x, S
    <3>4. ResolvedTo(rows, b, d, x.table, x.column)
      BY <1>7, <2>2, <3>2
    <3>5. ResolvedLinked(rows, c, Append(resolved, x))
      BY <1>3, <1>4, <1>5, <1>6, <3>2, <3>3, <3>4, ResolvedGrows DEF d
    <3> QED
      BY <3>1, <3>5
  <2> QED
    BY <2>1, <2>2
<1>10. \A v, w : Refers(rows, c, Done(c), v, w) <=>
                    Refers(rows, b, d, v, w) \/ LinkAt(rows, b, d, v, w)
  BY <1>3, <1>4, RefersOn DEF d
<1>11. \A v, w \in T : Contains(graph[w], v) <=>
                          w # v /\ Refers(rows, b, d, v, w)
  BY <1>5 DEF GraphLinked, T, d
<1>12. ASSUME NEW v \in T, NEW w \in T
       PROVE  Contains(graph'[w], v) <=>
                 w # v /\ Refers(rows, c, Done(c), v, w)
  <2>1. CASE Target(u) = None
    <3>1. graph' = graph
      BY <1>1, <2>1 DEF Waits
    <3> QED
      BY <1>7, <1>10, <1>11, <2>1, <3>1
  <2>2. CASE Target(u) # None /\ t = u.source
    <3>1. graph' = graph
      BY <1>1, <2>2 DEF Waits, t
    <3> QED
      BY <1>7, <1>10, <1>11, <2>2, <3>1
  <2>3. CASE Target(u) # None /\ t # u.source
    <3>1. graph' = [graph EXCEPT ![t] = Append(graph[t], u.source)]
      BY <1>1, <2>3 DEF Waits, t
    <3>2. t \in T /\ u.source \in T /\ graph[t] \in Seq(T)
          /\ graph[w] \in Seq(T)
      BY <1>2, <1>7, <2>3
    <3>3. Contains(graph'[w], v) <=>
             Contains(graph[w], v) \/ (w = t /\ v = u.source)
      <4>1. CASE w = t
        <5>1. graph'[w] = Append(graph[w], u.source)
          BY <1>2, <3>1, <3>2, <4>1
        <5>2. Contains(Append(graph[w], u.source), v) <=>
                 Contains(graph[w], v) \/ v = u.source
          BY <3>2, ContainsAppend
        <5> QED
          BY <4>1, <5>1, <5>2
      <4>2. CASE w # t
        BY <1>2, <3>1, <4>2
      <4> QED
        BY <4>1, <4>2
    <3> QED
      BY <1>7, <1>10, <1>11, <2>3, <3>3
  <2> QED
    BY <2>1, <2>2, <2>3
<1>13. GraphLinked(rows, c, graph')
  BY <1>8, <1>12 DEF GraphLinked
<1> QED
  BY <1>1, <1>9, <1>13 DEF ResolveInv, c

LEMMA BuildResolves ==
    ASSUME IInv, LinkInv, Build
    PROVE  ResolveInv'
<1> DEFINE c == builder'
<1>1. /\ phase = "rows" /\ phase' = "resolve" /\ rows' = rows
      /\ c = FinishTable(builder) /\ resolved' = resolved
      /\ graph' = [t \in Tables(c) |-> <<>>]
  BY DEF Build
<1>2. /\ builder \in DatabaseSchemaBuilder /\ StartsFit(builder)
      /\ resolved = <<>>
  BY <1>1 DEF IInv, EarlyInv, BuilderFits
<1>3. c \in DatabaseSchemaBuilder /\ SameFields(builder, c)
  BY <1>1, <1>2, FinishTableKeeps
<1>4. Len(c.unresolved) = Len(c.foreign_key_pool)
  BY <1>1, <1>3 DEF LinkInv, SameFields
<1>5. Done(c) = 0
  BY <1>3, <1>4, BuilderTypes DEF Done
<1> HIDE DEF c
<1>6. ~ \E p \in Nat : p < 0
  OBVIOUS
<1>7. Len(resolved') = 0 /\ 1..0 = {}
  BY <1>1, <1>2
<1>8. ResolvedLinked(rows, c, resolved')
  BY <1>5, <1>6, <1>7 DEF ResolvedLinked
<1>9. ASSUME NEW u \in Tables(c), NEW v \in Tables(c)
      PROVE  ~ Contains(graph'[u], v) /\ ~ Refers(rows, c, Done(c), v, u)
  <2>1. graph'[u] = <<>>
    BY <1>1
  <2>2. ~ Contains(<<>>, v)
    BY DEF Contains
  <2>3. ~ Refers(rows, c, Done(c), v, u)
    BY <1>5, <1>6 DEF Refers
  <2> QED
    BY <2>1, <2>2, <2>3
<1>10. GraphLinked(rows, c, graph')
  BY <1>9 DEF GraphLinked
<1> QED
  BY <1>1, <1>8, <1>10 DEF ResolveInv, c

\* Every step keeps what is resolved and the graph linked to the rows.
LEMMA ResolveStep ==
    ASSUME IInv, LinkInv, ResolveInv, [Next]_vars
    PROVE  ResolveInv'
<1>1. CASE Build
  BY <1>1, BuildResolves
<1>2. CASE ResolveFk
  BY <1>2, ResolveFkResolves
<1>3. CASE \E row \in Rows : AddRow(row)
  <2>1. phase' = "rows"
    BY <1>3 DEF AddRow
  <2> QED
    BY <2>1 DEF ResolveInv
<1>4. CASE StartSort \/ Visit \/ Relax \/ AddCycles \/ Finish
  <2>1. /\ phase # "rows" /\ rows' = rows /\ builder' = builder
        /\ resolved' = resolved /\ graph' = graph
    BY <1>4 DEF StartSort, Visit, Relax, AddCycles, Finish
  <2> QED
    BY <2>1 DEF ResolveInv
<1>5. CASE UNCHANGED vars
  BY <1>5 DEF vars, ResolveInv
<1> QED
  BY <1>1, <1>2, <1>3, <1>4, <1>5 DEF Next, Step

\* So do what is resolved and the graph.
LEMMA ResolveInductive == Spec => [](IInv /\ LinkInv /\ ResolveInv)
<1>1. Init => ResolveInv
  BY DEF Init, ResolveInv
<1>2. IInv /\ LinkInv /\ ResolveInv /\ [Next]_vars => ResolveInv'
  BY ResolveStep
<1> QED
  BY <1>1, <1>2, LinksInductive, PTL DEF Spec

-----------------------------------------------------------------------------
(* The order of the tables.                                                *)

\* The end of build, with all that is known of it.
AtDone ==
    /\ phase = "done" /\ IInv /\ LinkInv /\ ResolveInv

\* What is known when build has returned.
LEMMA EndIs ==
    ASSUME AtDone
    PROVE  /\ builder \in DatabaseSchemaBuilder /\ rows \in Seq(Rows)
           /\ Len(rows) \in Nat /\ Len(builder.tables) \in Nat
           /\ Len(builder.interner) \in Nat
           /\ RowsLinked(rows) /\ ColumnsLinked(rows, builder)
           /\ ChecksLinked(rows, builder) /\ KeysLinked(rows, builder)
           /\ TablesLinked(rows, builder, builder.tables)
           /\ ResolvedLinked(rows, builder, resolved)
           /\ GraphLinked(rows, builder, graph)
           /\ Done(builder) = Len(builder.foreign_key_pool)
           /\ schema = Built /\ Built \in DatabaseSchema
           /\ builder.interner \in Seq(STRING) /\ NoRepeats(builder.interner)
           /\ schema.interner = builder.interner
           /\ sorted \in Seq(Tables(builder))
           /\ Len(schema.tables) = Len(sorted) /\ Len(sorted) \in Nat
<1>1. phase = "done" /\ IInv /\ LinkInv /\ ResolveInv
  BY DEF AtDone
<1>2. /\ builder \in DatabaseSchemaBuilder /\ rows \in Seq(Rows)
      /\ sorted \in Seq(Tables(builder)) /\ schema = Built
  BY <1>1 DEF IInv, TypeOK, DoneInv
<1>3. Linked(rows, builder, builder.tables) /\ builder.unresolved = <<>>
  BY <1>1 DEF LinkInv
<1>4. Built \in DatabaseSchema /\ Len(Built.tables) = Len(sorted)
  BY <1>1, BuiltIs
<1>5. Built.interner = builder.interner
  BY DEF Built
<1>6. Done(builder) = Len(builder.foreign_key_pool)
  <2>1. Len(builder.foreign_key_pool) \in Nat
    BY <1>2, BuilderTypes
  <2>2. Done(builder) = Len(builder.foreign_key_pool) - 0
    BY <1>3 DEF Done
  <2> QED
    BY <2>1, <2>2
<1>7. /\ Len(rows) \in Nat /\ Len(sorted) \in Nat
  BY <1>2
<1>8. /\ Len(builder.tables) \in Nat /\ Len(builder.interner) \in Nat
      /\ builder.interner \in Seq(STRING)
  BY <1>2, BuilderTypes
<1>9. /\ RowsLinked(rows) /\ ColumnsLinked(rows, builder)
      /\ ChecksLinked(rows, builder) /\ KeysLinked(rows, builder)
      /\ TablesLinked(rows, builder, builder.tables)
      /\ NoRepeats(builder.interner)
  BY <1>3 DEF Linked, ColumnsLinked
<1>10. ResolvedLinked(rows, builder, resolved) /\ GraphLinked(rows, builder, graph)
  BY <1>1 DEF ResolveInv
<1> QED
  BY <1>2, <1>4, <1>5, <1>6, <1>7, <1>8, <1>9, <1>10

\* The tables of the builder have the names of the rows' tables.
LEMMA NamesAre ==
    ASSUME AtDone
    PROVE  /\ \A t \in Tables(builder) : NameIn(builder, t) \in Names
           /\ \A name \in Names : \E t \in Tables(builder) :
                 NameIn(builder, t) = name
           /\ \A t, u \in Tables(builder) :
                 NameIn(builder, t) = NameIn(builder, u) => t = u
           /\ \A t \in Tables(builder) :
                 /\ TableName(builder, t) \in 1..Len(builder.interner)
                 /\ NameIn(builder, t)
                       = builder.interner[TableName(builder, t)]
<1>1. /\ Len(rows) \in Nat /\ Len(builder.tables) \in Nat
      /\ DOMAIN rows = 1..Len(rows)
      /\ TablesLinked(rows, builder, builder.tables)
  BY EndIs
<1>2. ASSUME NEW t \in Tables(builder) PROVE NameIn(builder, t) \in Names
  <2> DEFINE m == At(builder.tables, t)
             r == m.columns_start + 1
  <2>1. /\ m.columns_start \in Nat /\ m.columns_len \in Nat
        /\ m.columns_len >= 1 /\ m.columns_start + m.columns_len <= Len(rows)
        /\ \A s \in 1..Len(rows) :
              rows[s].table = NameIn(builder, t) <=> InTable(m, s)
    BY <1>1, TableAtIs
  <2> HIDE DEF m
  <2>2. /\ m.columns_start \in Nat /\ m.columns_len \in Nat
        /\ m.columns_len >= 1 /\ m.columns_start + m.columns_len <= Len(rows)
    BY <2>1
  <2>3. r \in 1..Len(rows) /\ m.columns_start < r
        /\ r <= m.columns_start + m.columns_len
    BY <1>1, <2>2
  <2>4. InTable(m, r)
    BY <2>3 DEF InTable
  <2> HIDE DEF r
  <2>5. rows[r].table = NameIn(builder, t)
    BY <2>1, <2>3, <2>4
  <2> QED
    BY <1>1, <2>3, <2>5 DEF Names
<1>3. ASSUME NEW name \in Names
      PROVE  \E t \in Tables(builder) : NameIn(builder, t) = name
  <2>1. PICK r \in 1..Len(rows) : rows[r].table = name
    BY <1>1 DEF Names
  <2> QED
    BY <1>1, <2>1, RowsTable
<1>4. ASSUME NEW t \in Tables(builder), NEW u \in Tables(builder),
             NameIn(builder, t) = NameIn(builder, u)
      PROVE  t = u
  BY <1>1, <1>4, NamesDiffer
<1>5. ASSUME NEW t \in Tables(builder)
      PROVE  /\ TableName(builder, t) \in 1..Len(builder.interner)
             /\ NameIn(builder, t) = builder.interner[TableName(builder, t)]
  BY <1>1, TableAtIs DEF NameIn
<1> QED
  BY <1>2, <1>3, <1>4, <1>5

\* A table of the result is found under its name, at its place in the order.
LEMMA FoundIs ==
    ASSUME AtDone, NEW t \in Tables(builder)
    PROVE  LET f == Found(NameIn(builder, t))
           IN  /\ f \in Tables(schema) /\ f \in Nat
               /\ f + 1 \in 1..Len(sorted) /\ sorted[f + 1] = t
               /\ SymbolOf(schema.interner, NameIn(builder, t))
                     = TableName(builder, t)
               /\ TableName(schema, f) = TableName(builder, t)
               /\ TableBySymbol(schema, TableName(builder, t)) = f
<1> DEFINE name == NameIn(builder, t)
           symbol == SymbolOf(schema.interner, name)
           f == Found(name)
<1>1. /\ builder \in DatabaseSchemaBuilder
      /\ builder.interner \in Seq(STRING) /\ NoRepeats(builder.interner)
      /\ schema.interner = builder.interner
      /\ schema = Built /\ Built \in DatabaseSchema
      /\ sorted \in Seq(Tables(builder)) /\ Len(schema.tables) = Len(sorted)
      /\ Len(sorted) \in Nat
  BY EndIs
<1>2. /\ TableName(builder, t) \in 1..Len(builder.interner)
      /\ name = builder.interner[TableName(builder, t)]
  BY NamesAre
<1>3. symbol = TableName(builder, t) /\ symbol \in Symbol
  <2>1. Has(builder.interner, name)
    BY <1>2 DEF Has
  <2>2. /\ SymbolOf(builder.interner, name) \in 1..Len(builder.interner)
        /\ builder.interner[SymbolOf(builder.interner, name)] = name
        /\ SymbolOf(builder.interner, name) \in Symbol
    BY <1>1, <2>1, SymbolOfIs
  <2> QED
    BY <1>1, <1>2, <2>2 DEF NoRepeats
<1>4. /\ schema.by_name = SortedByName(schema.tables)
      /\ \A i \in DOMAIN sorted :
            schema.tables[i].name = TableName(builder, sorted[i])
  BY <1>1, BuiltIs DEF AtDone
<1>5. DOMAIN sorted = 1..Len(sorted)
  BY <1>1
<1>6. \A u \in Tables(schema) :
         /\ u + 1 \in 1..Len(sorted) /\ u \in Nat
         /\ TableName(schema, u) = TableName(builder, sorted[u + 1])
  <2>1. \A u \in Tables(schema) : u + 1 \in 1..Len(sorted) /\ u \in Nat
    BY <1>1 DEF Tables, Indices
  <2> QED
    BY <1>4, <1>5, <2>1 DEF TableName, At
<1>7. \A i \in 1..Len(sorted) : sorted[i] \in Tables(builder)
  BY <1>1
<1>8. \A u \in Tables(schema) : TableName(schema, u) \in Int
  <2>1. \A w \in Tables(builder) : TableName(builder, w) \in Symbol
    BY <1>1, TablesAre
  <2> QED
    BY <1>6, <1>7, <2>1 DEF Symbol
<1>9. PICK i \in 1..Len(sorted) : sorted[i] = t
  <2>1. Times(sorted, t) = 1
    BY DEF AtDone, IInv, OrderInv
  <2>2. Contains(sorted, t)
    BY <1>1, <2>1, TimesIs
  <2> QED
    BY <1>1, <1>5, <2>2, ContainsAt
<1>10. i - 1 \in Tables(schema) /\ TableName(schema, i - 1) = symbol
  <2>1. i - 1 \in Tables(schema) /\ (i - 1) + 1 = i
    BY <1>1 DEF Tables, Indices
  <2> QED
    BY <1>3, <1>6, <1>9, <2>1
<1>11. Len(schema.tables) \in Nat /\ None \notin Nat /\ symbol \in Int
  BY <1>1, <1>3, NoneAssumption DEF Symbol
<1>12. f = TableBySymbol(schema, symbol)
  BY DEF Found
<1> HIDE DEF name, symbol, f
<1>13. f \in Tables(schema) /\ TableName(schema, f) = symbol
  BY <1>4, <1>8, <1>10, <1>11, <1>12, LookupFinds
<1>14. /\ f + 1 \in 1..Len(sorted) /\ f \in Nat
       /\ TableName(builder, sorted[f + 1]) = TableName(builder, t)
  BY <1>3, <1>6, <1>13
<1>15. sorted[f + 1] \in Tables(builder)
  BY <1>7, <1>14
<1>16. NameIn(builder, sorted[f + 1]) = NameIn(builder, t)
  BY <1>14 DEF NameIn
<1>17. sorted[f + 1] = t
  BY <1>15, <1>16, NamesAre
<1> QED
  BY <1>3, <1>12, <1>13, <1>14, <1>17 DEF name, symbol, f

\* A list of what is chosen has just that.
LEMMA ChosenHas ==
    ASSUME NEW s, NEW S \in SUBSET Nat, IsFiniteSet(S)
    PROVE  /\ \A j \in DOMAIN Chosen(s, S) :
                 \E i \in S : Chosen(s, S)[j] = s[i]
           /\ \A i \in S : \E j \in DOMAIN Chosen(s, S) :
                 Chosen(s, S)[j] = s[i]
<1> DEFINE place == InOrder(S)
<1>1. /\ place \in Seq(S) /\ \A x \in S : Has(place, x)
  BY InOrderSorts
<1>2. Chosen(s, S) = [i \in DOMAIN place |-> s[place[i]]]
  BY DEF Chosen
<1> HIDE DEF place
<1>3. DOMAIN place = 1..Len(place) /\ \A i \in 1..Len(place) : place[i] \in S
  BY <1>1
<1>4. /\ DOMAIN Chosen(s, S) = 1..Len(place)
      /\ \A i \in 1..Len(place) : Chosen(s, S)[i] = s[place[i]]
  BY <1>2, <1>3
<1>5. ASSUME NEW j \in DOMAIN Chosen(s, S)
      PROVE  \E i \in S : Chosen(s, S)[j] = s[i]
  BY <1>3, <1>4
<1>6. ASSUME NEW i \in S
      PROVE  \E j \in DOMAIN Chosen(s, S) : Chosen(s, S)[j] = s[i]
  <2>1. PICK j \in 1..Len(place) : place[j] = i
    BY <1>1 DEF Has
  <2> QED
    BY <1>4, <2>1
<1> QED
  BY <1>5, <1>6

\* The foreign keys of a row that lead somewhere.
LEMMA GoodFksAre ==
    ASSUME rows \in Seq(Rows), NEW r \in 1..Len(rows), NEW name
    PROVE  (\E j \in DOMAIN GoodFks(rows[r]) :
               GoodFks(rows[r])[j].table = name) <=>
           \E j \in 1..Len(rows[r].foreign_keys) :
               /\ LeadsIn(rows, rows[r].foreign_keys[j])
               /\ rows[r].foreign_keys[j].table = name
<1> DEFINE fks == rows[r].foreign_keys
           S == {i \in DOMAIN fks : Leads(fks[i])}
<1>1. fks \in Seq(RawForeignKey) /\ Len(fks) \in Nat
  BY RowTypes
<1>2. DOMAIN fks = 1..Len(fks) /\ DOMAIN rows = 1..Len(rows)
  BY <1>1
<1>3. \A fk : Leads(fk) <=> LeadsIn(rows, fk)
  BY <1>2 DEF Leads, LeadsIn
<1>4. GoodFks(rows[r]) = Chosen(fks, S)
  BY DEF GoodFks
<1>5. IsFiniteSet(S) /\ S \in SUBSET Nat
  <2>1. IsFiniteSet(1..Len(fks)) /\ S \subseteq 1..Len(fks)
    BY <1>1, <1>2, FS_Interval
  <2> QED
    BY <2>1, FS_Subset
<1>6. \A j : j \in S <=> j \in 1..Len(fks) /\ LeadsIn(rows, fks[j])
  BY <1>2, <1>3
<1> HIDE DEF fks, S
<1>7. /\ \A j \in DOMAIN Chosen(fks, S) :
            \E i \in S : Chosen(fks, S)[j] = fks[i]
      /\ \A i \in S : \E j \in DOMAIN Chosen(fks, S) :
            Chosen(fks, S)[j] = fks[i]
  BY <1>5, ChosenHas
<1>8. (\E j \in DOMAIN Chosen(fks, S) : Chosen(fks, S)[j].table = name) <=>
      \E i \in S : fks[i].table = name
  BY <1>7
<1> QED
  BY <1>4, <1>6, <1>8 DEF fks

\* The graph is that of the references between the rows' tables.
LEMMA GraphIs ==
    ASSUME AtDone, NEW v \in Tables(builder), NEW w \in Tables(builder)
    PROVE  Contains(graph[w], v) <=>
              RefersTo(NameIn(builder, v), NameIn(builder, w))
<1> DEFINE b == builder
           x == Len(b.foreign_key_pool)
<1>1. /\ rows \in Seq(Rows) /\ DOMAIN rows = 1..Len(rows) /\ Len(rows) \in Nat
      /\ b \in DatabaseSchemaBuilder /\ ColumnsLinked(rows, b)
      /\ KeysLinked(rows, b) /\ Done(b) = x
      /\ GraphLinked(rows, b, graph)
  BY EndIs
<1>2. Contains(graph[w], v) <=> w # v /\ Refers(rows, b, x, v, w)
  BY <1>1 DEF GraphLinked
<1>3. w # v <=> NameIn(b, v) # NameIn(b, w)
  BY NamesAre
<1>4. Refers(rows, b, x, v, w) <=>
         \E r \in 1..Len(rows) : /\ rows[r].table = NameIn(b, v)
             /\ \E j \in 1..Len(rows[r].foreign_keys) :
                   /\ LeadsIn(rows, rows[r].foreign_keys[j])
                   /\ rows[r].foreign_keys[j].table = NameIn(b, w)
  <2>1. ASSUME Refers(rows, b, x, v, w)
        PROVE  \E r \in 1..Len(rows) : /\ rows[r].table = NameIn(b, v)
                   /\ \E j \in 1..Len(rows[r].foreign_keys) :
                         /\ LeadsIn(rows, rows[r].foreign_keys[j])
                         /\ rows[r].foreign_keys[j].table = NameIn(b, w)
    <3>1. PICK p \in Nat : LinkAt(rows, b, p, v, w)
      BY <2>1 DEF Refers
    <3>2. PICK r \in Nat, j \in Nat :
             /\ IsAt(rows, b, p, r, j)
             /\ rows[r].table = NameIn(b, v)
             /\ rows[r].foreign_keys[j].table = NameIn(b, w)
             /\ LeadsIn(rows, rows[r].foreign_keys[j])
      BY <3>1 DEF LinkAt
    <3>3. r \in 1..Len(rows) /\ j \in 1..Len(rows[r].foreign_keys)
      BY <3>2 DEF IsAt
    <3> QED
      BY <3>2, <3>3
  <2>2. ASSUME NEW r \in 1..Len(rows), rows[r].table = NameIn(b, v),
               NEW j \in 1..Len(rows[r].foreign_keys),
               LeadsIn(rows, rows[r].foreign_keys[j]),
               rows[r].foreign_keys[j].table = NameIn(b, w)
        PROVE  Refers(rows, b, x, v, w)
    <3> DEFINE from == KeysFrom(b, r)
               len == Len(rows[r].foreign_keys)
               p == from + j - 1
    <3>1. \A s \in 1..Len(rows) : /\ Len(rows[s].foreign_keys) \in Nat
                                   /\ KeysFrom(b, s) \in Nat
      BY <1>1, KeyTypes
    <3>2. UpperKeys(rows, b)
      BY <1>1, <3>1, SizesAre, KeysAreBelow
    <3>3. from \in Nat /\ len \in Nat /\ j \in 1..len /\ from + len <= x
      BY <3>1, <3>2 DEF UpperKeys, KeysTo
    <3>4. x \in Nat
      BY <1>1, BuilderTypes
    <3> HIDE DEF x, from, len
    <3>5. p \in Nat /\ p < x /\ j \in Nat
      BY <3>3, <3>4
    <3>6. IsAt(rows, b, p, r, j)
      BY DEF IsAt, from
    <3> HIDE DEF p
    <3>7. LinkAt(rows, b, p, v, w)
      BY <1>1, <2>2, <3>5, <3>6 DEF LinkAt
    <3> QED
      BY <3>5, <3>7 DEF Refers
  <2> QED
    BY <2>1, <2>2
<1>5. \A r \in 1..Len(rows) :
         (\E j \in DOMAIN GoodFks(rows[r]) :
             GoodFks(rows[r])[j].table = NameIn(b, w)) <=>
         \E j \in 1..Len(rows[r].foreign_keys) :
             /\ LeadsIn(rows, rows[r].foreign_keys[j])
             /\ rows[r].foreign_keys[j].table = NameIn(b, w)
  BY <1>1, GoodFksAre
<1> QED
  BY <1>1, <1>2, <1>3, <1>4, <1>5 DEF RefersTo

\* The tables on cycles are those of the graph.
LEMMA TangledAre ==
    ASSUME AtDone, NEW v \in Tables(builder)
    PROVE  NameIn(builder, v) \in Tangled <=>
              v \in TangledIn(Tables(builder), graph)
<1> DEFINE T == Tables(builder)
           Name(t) == NameIn(builder, t)
<1>1. ASSUME Name(v) \in Tangled
      PROVE  v \in TangledIn(T, graph)
  <2>1. PICK S \in SUBSET Names :
           /\ Name(v) \in S
           /\ \A t \in S : \E u \in S : RefersTo(t, u)
    BY <1>1 DEF Tangled
  <2> DEFINE S2 == {t \in T : Name(t) \in S}
  <2>2. ASSUME NEW t \in S2 PROVE \E u \in S2 : Contains(graph[u], t)
    <3>1. PICK name \in S : RefersTo(Name(t), name)
      BY <2>1
    <3>2. PICK u \in T : Name(u) = name
      BY <2>1, <3>1, NamesAre
    <3>3. u \in S2 /\ Contains(graph[u], t)
      BY <3>1, <3>2, GraphIs
    <3> QED
      BY <3>3
  <2>3. v \in S2 /\ S2 \in SUBSET T
    BY <2>1
  <2> HIDE DEF S2, T
  <2> QED
    BY <2>2, <2>3 DEF TangledIn
<1>2. ASSUME v \in TangledIn(T, graph)
      PROVE  Name(v) \in Tangled
  <2>1. PICK S \in SUBSET T :
           v \in S /\ \A t \in S : \E u \in S : Contains(graph[u], t)
    BY <1>2 DEF TangledIn
  <2> DEFINE S2 == {Name(t) : t \in S}
  <2>2. ASSUME NEW name \in S2 PROVE \E u \in S2 : RefersTo(name, u)
    <3>1. PICK t \in S : name = Name(t)
      OBVIOUS
    <3>2. PICK u \in S : Contains(graph[u], t)
      BY <2>1
    <3>3. RefersTo(Name(t), Name(u))
      BY <2>1, <3>2, GraphIs
    <3> QED
      BY <3>1, <3>3
  <2>3. Name(v) \in S2 /\ S2 \in SUBSET Names
    BY <2>1, NamesAre
  <2> HIDE DEF S2
  <2> QED
    BY <2>2, <2>3 DEF Tangled
<1> QED
  BY <1>1, <1>2

\* In the result of build, for any rows, a table comes after every table it
\* refers to, unless its references lead into a cycle, and those come last.
THEOREM OrderFollowsReferences == Spec => []OrderIsTopological
<1>1. IInv /\ LinkInv /\ ResolveInv /\ BeforeInv /\ TangleInv => OrderIsTopological
  <2> SUFFICES ASSUME IInv, LinkInv, ResolveInv, BeforeInv, TangleInv,
                      phase = "done", NEW t \in Names, NEW u \in Names
               PROVE  /\ RefersTo(t, u) /\ t \notin Tangled => Found(u) < Found(t)
                      /\ t \notin Tangled /\ u \in Tangled => Found(t) < Found(u)
    BY DEF OrderIsTopological
  <2>1. AtDone
    BY DEF AtDone
  <2>2. PICK v \in Tables(builder) : NameIn(builder, v) = t
    BY <2>1, NamesAre
  <2>3. PICK w \in Tables(builder) : NameIn(builder, w) = u
    BY <2>1, NamesAre
  <2> DEFINE i == Found(t) + 1
             j == Found(u) + 1
  <2>4. /\ i \in 1..Len(sorted) /\ sorted[i] = v /\ Found(t) \in Nat
        /\ j \in 1..Len(sorted) /\ sorted[j] = w /\ Found(u) \in Nat
    BY <2>1, <2>2, <2>3, FoundIs
  <2>5. DOMAIN sorted = 1..Len(sorted)
    BY <2>1, EndIs
  <2>6. TangledIn(Tables(builder), graph)
           = {z \in Tables(builder) : in_degree[z] # 0}
    BY TangledWait
  <2>7. /\ t \in Tangled <=> in_degree[v] # 0
        /\ u \in Tangled <=> in_degree[w] # 0
    BY <2>1, <2>2, <2>3, <2>6, TangledAre
  <2>8. RefersTo(t, u) <=> Contains(graph[w], v)
    BY <2>1, <2>2, <2>3, GraphIs
  <2> HIDE DEF i, j
  <2>9. /\ RefersTo(t, u) /\ t \notin Tangled => j < i
        /\ t \notin Tangled /\ u \in Tangled => i < j
    BY <2>4, <2>5, <2>7, <2>8 DEF BeforeInv, TangleInv
  <2>10. i = Found(t) + 1 /\ j = Found(u) + 1
    BY DEF i, j
  <2> QED
    BY <2>4, <2>9, <2>10
<1> QED
  BY <1>1, ResolveInductive, OrderInductive, PTL

-----------------------------------------------------------------------------
(* What the lookups find.                                                  *)

\* The table t of the result is the builder's table v.
IsTable(t, v) ==
    /\ t \in Nat /\ t \in Tables(schema) /\ v \in Tables(builder)
    /\ At(builder.tables, v) \in TableMeta
    /\ At(schema.tables, t) = NewTable(resolved, At(builder.tables, v))

\* A symbol is that of a table exactly when some row has its string.
LEMMA LookupIs ==
    ASSUME AtDone, NEW i \in 1..Len(builder.interner)
    PROVE  LET t == TableBySymbol(schema, i)
           IN  /\ t = None <=> builder.interner[i] \notin Names
               /\ t # None => /\ TableName(schema, t) = i
                              /\ \E v \in Tables(builder) :
                                    IsTable(t, v) /\ TableName(builder, v) = i
<1> DEFINE t == TableBySymbol(schema, i)
<1>1. /\ builder \in DatabaseSchemaBuilder
      /\ builder.interner \in Seq(STRING) /\ NoRepeats(builder.interner)
      /\ schema = Built /\ Built \in DatabaseSchema
      /\ sorted \in Seq(Tables(builder)) /\ Len(schema.tables) = Len(sorted)
      /\ Len(sorted) \in Nat /\ Len(builder.interner) \in Nat
  BY EndIs
<1>2. /\ schema.by_name = SortedByName(schema.tables)
      /\ \A k \in DOMAIN sorted :
            schema.tables[k].name = TableName(builder, sorted[k])
  BY <1>1, BuiltIs DEF AtDone
<1>3. \A u \in Tables(schema) :
         /\ u \in Nat /\ u + 1 \in 1..Len(sorted)
         /\ sorted[u + 1] \in Tables(builder)
         /\ TableName(schema, u) = TableName(builder, sorted[u + 1])
  <2>1. \A u \in Tables(schema) : u + 1 \in 1..Len(sorted) /\ u \in Nat
    BY <1>1 DEF Tables, Indices
  <2>2. DOMAIN sorted = 1..Len(sorted)
        /\ \A k \in 1..Len(sorted) : sorted[k] \in Tables(builder)
    BY <1>1
  <2> QED
    BY <1>2, <2>1, <2>2 DEF TableName, At
<1>4. \A u \in Tables(schema) : TableName(schema, u) \in Int
  <2>1. \A w \in Tables(builder) : TableName(builder, w) \in Symbol
    BY <1>1, TablesAre
  <2> QED
    BY <1>3, <2>1 DEF Symbol
<1>5. Len(schema.tables) \in Nat /\ None \notin Nat /\ i \in Int
  BY <1>1, NoneAssumption
<1>6. t # None => t \in Tables(schema) /\ TableName(schema, t) = i
  BY <1>2, <1>4, <1>5, LookupFinds
<1>7. ASSUME NEW u \in Tables(schema) PROVE IsTable(u, sorted[u + 1])
  <2>1. u + 1 \in 1..Len(Built.tables)
    BY <1>1, <1>3
  <2>2. /\ At(builder.tables, sorted[u + 1]) \in TableMeta
        /\ Built.tables[u + 1]
              = NewTable(resolved, At(builder.tables, sorted[u + 1]))
    BY <2>1, BuiltTables DEF AtDone
  <2>3. At(schema.tables, u) = Built.tables[u + 1]
    BY <1>1 DEF At
  <2> QED
    BY <1>3, <1>7, <2>2, <2>3 DEF IsTable
<1>8. ASSUME builder.interner[i] \in Names PROVE t # None
  <2>1. PICK v \in Tables(builder) : NameIn(builder, v) = builder.interner[i]
    BY <1>8, NamesAre
  <2>2. /\ TableName(builder, v) \in 1..Len(builder.interner)
        /\ NameIn(builder, v) = builder.interner[TableName(builder, v)]
    BY NamesAre
  <2>3. TableName(builder, v) = i
    BY <1>1, <2>1, <2>2 DEF NoRepeats
  <2>4. t \in Nat
    BY <2>3, FoundIs
  <2> QED
    BY <1>5, <2>4
<1>9. ASSUME t # None
      PROVE  /\ builder.interner[i] \in Names
             /\ \E v \in Tables(builder) :
                   IsTable(t, v) /\ TableName(builder, v) = i
  <2> DEFINE v == sorted[t + 1]
  <2>1. t \in Tables(schema) /\ TableName(schema, t) = i
    BY <1>6, <1>9
  <2>2. v \in Tables(builder) /\ TableName(builder, v) = i
    BY <1>3, <2>1
  <2>3. NameIn(builder, v) \in Names /\ NameIn(builder, v) = builder.interner[i]
    BY <2>2, NamesAre
  <2>4. IsTable(t, v)
    BY <1>7, <2>1
  <2> QED
    BY <2>2, <2>3, <2>4
<1> QED
  BY <1>6, <1>8, <1>9

\* The columns of the result are the builder's, but for their foreign keys.
LEMMA ResultColumns ==
    ASSUME AtDone
    PROVE  /\ schema.columns \in Seq(Column)
           /\ Len(schema.columns) = Len(rows)
           /\ schema.column_names = builder.column_names
           /\ builder.column_names \in Seq(Symbol)
           /\ Len(builder.column_names) = Len(rows)
           /\ schema.constraint_pool = builder.constraint_pool
           /\ builder.constraint_pool \in Seq(Symbol)
           /\ \A r \in 1..Len(rows) :
                 LET c == builder.columns[r]
                 IN  /\ c \in Column
                     /\ schema.columns[r] \in Column
                     /\ schema.columns[r].flags = c.flags
                     /\ schema.columns[r].constraints = c.constraints
                     /\ schema.columns[r].foreign_keys =
                           Compacted(resolved, c.foreign_keys.start,
                                     c.foreign_keys.len)
                     /\ IsRange(builder.constraint_pool, c.constraints)
<1>1. /\ builder \in DatabaseSchemaBuilder /\ rows \in Seq(Rows)
      /\ schema = Built /\ Built \in DatabaseSchema
      /\ ColumnsLinked(rows, builder) /\ Len(rows) \in Nat
  BY EndIs
<1>2. /\ builder.columns \in Seq(Column)
      /\ builder.column_names \in Seq(Symbol)
      /\ builder.constraint_pool \in Seq(Symbol)
  BY <1>1, BuilderTypes
<1>3. /\ Len(builder.columns) = Len(rows)
      /\ Len(builder.column_names) = Len(rows)
  BY <1>1 DEF ColumnsLinked
<1>4. /\ schema.columns = [i \in DOMAIN builder.columns |->
                              NewColumn(resolved, builder.columns[i])]
      /\ schema.column_names = builder.column_names
      /\ schema.constraint_pool = builder.constraint_pool
  BY <1>1 DEF Built
<1>5. schema.columns \in Seq(Column)
  BY <1>1 DEF DatabaseSchema
<1>6. DOMAIN builder.columns = 1..Len(rows)
      /\ \A r \in 1..Len(rows) : builder.columns[r] \in Column
  BY <1>2, <1>3
<1>7. Len(schema.columns) = Len(rows)
      /\ \A r \in 1..Len(rows) :
            schema.columns[r] = NewColumn(resolved, builder.columns[r])
  <2>1. DOMAIN schema.columns = 1..Len(rows)
    BY <1>4, <1>6
  <2> QED
    BY <1>1, <1>4, <1>5, <1>6, <2>1
<1>8. \A r \in 1..Len(rows) : schema.columns[r] \in Column
  BY <1>5, <1>7
<1>9. \A r \in 1..Len(rows) :
         IsRange(builder.constraint_pool, builder.columns[r].constraints)
  BY <1>6 DEF AtDone, IInv, TypeOK
<1>10. ASSUME NEW c \in Column
       PROVE  /\ NewColumn(resolved, c).flags = c.flags
              /\ NewColumn(resolved, c).constraints = c.constraints
              /\ NewColumn(resolved, c).foreign_keys =
                    Compacted(resolved, c.foreign_keys.start,
                              c.foreign_keys.len)
  BY DEF NewColumn, Column
<1>11. \A r \in 1..Len(rows) :
          /\ schema.columns[r].flags = builder.columns[r].flags
          /\ schema.columns[r].constraints = builder.columns[r].constraints
          /\ schema.columns[r].foreign_keys =
                Compacted(resolved, builder.columns[r].foreign_keys.start,
                          builder.columns[r].foreign_keys.len)
  BY <1>6, <1>7, <1>10
<1> QED
  BY <1>2, <1>3, <1>4, <1>5, <1>6, <1>7, <1>8, <1>9, <1>11

\* The rows of a table, and the places of its columns.
LEMMA RowsOfAre ==
    ASSUME AtDone, NEW v \in Tables(builder)
    PROVE  LET m == At(builder.tables, v)
           IN  RowsOf(NameIn(builder, v))
                  = [k \in 1..m.columns_len |-> rows[m.columns_start + k]]
<1> DEFINE m == At(builder.tables, v)
           start == m.columns_start
           len == m.columns_len
           S == {r \in DOMAIN rows : rows[r].table = NameIn(builder, v)}
<1>1. /\ rows \in Seq(Rows) /\ Len(rows) \in Nat
      /\ Len(builder.tables) \in Nat
      /\ TablesLinked(rows, builder, builder.tables)
  BY EndIs
<1>2. /\ start \in Nat /\ len \in Nat /\ len >= 1 /\ start + len <= Len(rows)
      /\ \A r \in 1..Len(rows) :
            rows[r].table = NameIn(builder, v) <=> InTable(m, r)
  BY <1>1, TableAtIs
<1>3. DOMAIN rows = 1..Len(rows)
  BY <1>1
<1>4. S = (start + 1)..(start + len)
  <2>1. \A r \in 1..Len(rows) : InTable(m, r) <=> r \in (start + 1)..(start + len)
    BY <1>2 DEF InTable
  <2>2. \A r \in (start + 1)..(start + len) : r \in 1..Len(rows)
    BY <1>1, <1>2
  <2> QED
    BY <1>2, <1>3, <2>1, <2>2
<1>5. RowsOf(NameIn(builder, v)) = Chosen(rows, S)
  BY DEF RowsOf
<1> HIDE DEF S, m
<1>6. InOrder(S) = [k \in 1..len |-> start + k]
  <2>1. start + 1 \in Nat /\ start + len \in Int
        /\ start + 1 <= (start + len) + 1
        /\ ((start + len) + 1) - (start + 1) = len
        /\ \A k \in 1..len : ((start + 1) + k) - 1 = start + k
    BY <1>2
  <2> DEFINE a == start + 1
             b == start + len
  <2>2. InOrder(a..b) = [k \in 1..(b + 1 - a) |-> a + k - 1]
    <3>1. a \in Nat /\ b \in Int /\ a <= b + 1
      BY <2>1
    <3> HIDE DEF a, b
    <3> QED
      BY <3>1, IntervalInOrder
  <2>3. b + 1 - a = len /\ \A k \in 1..len : a + k - 1 = start + k
    BY <1>2
  <2> QED
    BY <1>4, <2>2, <2>3
<1>7. Chosen(rows, S) = [k \in 1..len |-> rows[start + k]]
  BY <1>6 DEF Chosen
<1> QED
  BY <1>5, <1>7 DEF m

\* The last of those that have a primary key.
LEMMA LastKeyIs ==
    ASSUME NEW s, Len(s) \in Nat
    PROVE  LET key == SelectLastInSeq(s, LAMBDA r : r.primary)
           IN  /\ (\A k \in 1..Len(s) : ~ s[k].primary) => key = 0
               /\ \A k \in 1..Len(s) :
                     /\ s[k].primary
                     /\ \A j \in 1..Len(s) : s[j].primary => j <= k
                     => key = k
<1> DEFINE I == {i \in 1..Len(s) : s[i].primary}
<1>1. SelectLastInSeq(s, LAMBDA r : r.primary) = IF I # {} THEN Max(I) ELSE 0
  BY DEF SelectLastInSeq
<1>2. (\A k \in 1..Len(s) : ~ s[k].primary) => I = {}
  OBVIOUS
<1>3. ASSUME NEW k \in 1..Len(s), s[k].primary,
             \A j \in 1..Len(s) : s[j].primary => j <= k
      PROVE  I # {} /\ Max(I) = k
  <2>1. k \in I /\ \A j \in I : k >= j
    BY <1>3
  <2>2. I \subseteq Nat
    BY <1>3
  <2> HIDE DEF I
  <2>3. \A x \in I : (\A j \in I : x >= j) => x = k
    BY <2>1, <2>2
  <2> QED
    BY <2>1, <2>3 DEF Max
<1> QED
  BY <1>1, <1>2, <1>3

\* The three bits of the flags.
LEMMA FlagsTell ==
    ASSUME NEW x \in BOOLEAN, NEW y \in BOOLEAN, NEW z \in BOOLEAN,
           NEW c, c.flags = Flags(x, y, z)
    PROVE  /\ IsNullable(c) = x
           /\ IsPrimaryKey(c) = y
           /\ IsUnique(c) = z
<1> DEFINE f == c.flags
<1>1. /\ IsNullable(c) = (f % 2 = 1)
      /\ IsPrimaryKey(c) = ((f \div 2) % 2 = 1)
      /\ IsUnique(c) = ((f \div 4) % 2 = 1)
  BY DEF IsNullable, IsPrimaryKey, IsUnique
<1>2. f = (IF x THEN 1 ELSE 0) + (IF y THEN 2 ELSE 0) + (IF z THEN 4 ELSE 0)
  BY DEF Flags, Bit
<1> HIDE DEF f
<1>3. CASE x /\ y /\ z
  <2>1. f = 7
    BY <1>2, <1>3
  <2>2. f % 2 = 1 /\ (f \div 2) % 2 = 1 /\ (f \div 4) % 2 = 1
    BY <2>1
  <2> QED
    BY <1>1, <1>3, <2>2, Zenon
<1>4. CASE x /\ y /\ ~ z
  <2>1. f = 3
    BY <1>2, <1>4
  <2>2. f % 2 = 1 /\ (f \div 2) % 2 = 1 /\ ~ (f \div 4) % 2 = 1
    BY <2>1
  <2> QED
    BY <1>1, <1>4, <2>2, Zenon
<1>5. CASE x /\ ~ y /\ z
  <2>1. f = 5
    BY <1>2, <1>5
  <2>2. f % 2 = 1 /\ ~ (f \div 2) % 2 = 1 /\ (f \div 4) % 2 = 1
    BY <2>1
  <2> QED
    BY <1>1, <1>5, <2>2, Zenon
<1>6. CASE x /\ ~ y /\ ~ z
  <2>1. f = 1
    BY <1>2, <1>6
  <2>2. f % 2 = 1 /\ ~ (f \div 2) % 2 = 1 /\ ~ (f \div 4) % 2 = 1
    BY <2>1
  <2> QED
    BY <1>1, <1>6, <2>2, Zenon
<1>7. CASE ~ x /\ y /\ z
  <2>1. f = 6
    BY <1>2, <1>7
  <2>2. ~ f % 2 = 1 /\ (f \div 2) % 2 = 1 /\ (f \div 4) % 2 = 1
    BY <2>1
  <2> QED
    BY <1>1, <1>7, <2>2, Zenon
<1>8. CASE ~ x /\ y /\ ~ z
  <2>1. f = 2
    BY <1>2, <1>8
  <2>2. ~ f % 2 = 1 /\ (f \div 2) % 2 = 1 /\ ~ (f \div 4) % 2 = 1
    BY <2>1
  <2> QED
    BY <1>1, <1>8, <2>2, Zenon
<1>9. CASE ~ x /\ ~ y /\ z
  <2>1. f = 4
    BY <1>2, <1>9
  <2>2. ~ f % 2 = 1 /\ ~ (f \div 2) % 2 = 1 /\ (f \div 4) % 2 = 1
    BY <2>1
  <2> QED
    BY <1>1, <1>9, <2>2, Zenon
<1>10. CASE ~ x /\ ~ y /\ ~ z
  <2>1. f = 0
    BY <1>2, <1>10
  <2>2. ~ f % 2 = 1 /\ ~ (f \div 2) % 2 = 1 /\ ~ (f \div 4) % 2 = 1
    BY <2>1
  <2> QED
    BY <1>1, <1>10, <2>2, Zenon
<1> QED
  BY <1>3, <1>4, <1>5, <1>6, <1>7, <1>8, <1>9, <1>10

\* The columns of a table of the result, and their names.
LEMMA ColumnsAre ==
    ASSUME AtDone, NEW t, NEW v, IsTable(t, v)
    PROVE  LET m == At(builder.tables, v)
           IN  /\ At(schema.tables, t).columns_start = m.columns_start
               /\ At(schema.tables, t).primary_key = m.primary_key
               /\ m.columns_start \in Nat /\ m.columns_len \in Nat
               /\ \A k \in 1..m.columns_len :
                     m.columns_start + k \in 1..Len(rows)
               /\ Len(ColumnNames(schema, t)) = m.columns_len
               /\ DOMAIN ColumnNames(schema, t) = 1..m.columns_len
               /\ \A k \in 1..m.columns_len :
                     /\ ColumnNames(schema, t)[k]
                           = builder.column_names[m.columns_start + k]
                     /\ Columns(schema, t)[k]
                           = schema.columns[m.columns_start + k]
<1> DEFINE m == At(builder.tables, v)
           start == m.columns_start
           len == m.columns_len
           M == At(schema.tables, t)
<1>1. /\ Len(rows) \in Nat /\ Len(builder.tables) \in Nat
      /\ TablesLinked(rows, builder, builder.tables)
  BY EndIs
<1>2. v \in Tables(builder) /\ m \in TableMeta /\ M = NewTable(resolved, m)
  BY DEF IsTable
<1>3. /\ M.columns_start = start /\ M.columns_len = len
      /\ M.primary_key = m.primary_key
  BY <1>2, NewTableKeeps
<1>4. start \in Nat /\ len \in Nat /\ start + len <= Len(rows)
  BY <1>1, <1>2, TableAtIs
<1>5. \A k \in 1..len : start + k \in 1..Len(rows)
  BY <1>1, <1>4
<1>6. /\ builder.column_names \in Seq(Symbol)
      /\ Len(builder.column_names) = Len(rows)
      /\ schema.column_names = builder.column_names
      /\ schema.columns \in Seq(Column) /\ Len(schema.columns) = Len(rows)
  BY ResultColumns
<1>7. /\ ColumnNames(schema, t) = Slice(builder.column_names, start, len)
      /\ Columns(schema, t) = Slice(schema.columns, start, len)
  BY <1>3, <1>6 DEF ColumnNames, Columns
<1> HIDE DEF start, len
<1>8. LET s == Slice(builder.column_names, start, len)
      IN  /\ Len(s) = len /\ DOMAIN s = 1..len
          /\ \A k \in 1..len : s[k] = builder.column_names[start + k]
  <2> DEFINE all == builder.column_names
  <2>1. all \in Seq(Symbol) /\ start + len <= Len(all)
    BY <1>4, <1>6
  <2> HIDE DEF all
  <2>2. Len(Slice(all, start, len)) = len
    BY <1>4, <2>1, SliceAt
  <2>3. DOMAIN Slice(all, start, len) = 1..len
    BY <1>4, <2>1, SliceAt
  <2>4. \A k \in 1..len : Slice(all, start, len)[k] = all[start + k]
    BY <1>4, <2>1, SliceAt
  <2> QED
    BY <2>2, <2>3, <2>4 DEF all
<1>9. \A k \in 1..len :
         Slice(schema.columns, start, len)[k] = schema.columns[start + k]
  <2> DEFINE all == schema.columns
  <2>1. all \in Seq(Column) /\ start + len <= Len(all)
    BY <1>4, <1>6
  <2> HIDE DEF all
  <2>2. \A k \in 1..len : Slice(all, start, len)[k] = all[start + k]
    BY <1>4, <2>1, SliceAt
  <2> QED
    BY <2>2 DEF all
<1> QED
  BY <1>3, <1>4, <1>5, <1>7, <1>8, <1>9 DEF start, len

\* A column of a table is found by its name, and is that of its row.
LEMMA ColumnIsFound ==
    ASSUME AtDone, NEW t, NEW v, IsTable(t, v),
           NEW j \in 1..At(builder.tables, v).columns_len,
           NEW r, r = At(builder.tables, v).columns_start + j
    PROVE  LET column == ColumnBySymbol(schema, t,
                            SymbolOf(schema.interner, rows[r].column))
           IN  /\ column = schema.columns[r]
               /\ IsPrimaryKey(column) = rows[r].primary
               /\ IsNullable(column) = rows[r].nullable
               /\ IsUnique(column) = rows[r].unique
               /\ Len(rows[r].checks) < U16 =>
                     StringsOf(Constraints(schema, column)) = rows[r].checks
<1> DEFINE m == At(builder.tables, v)
           start == m.columns_start
           len == m.columns_len
           names == ColumnNames(schema, t)
           symbol == SymbolOf(schema.interner, rows[r].column)
           p == Position(names, symbol)
           c == schema.columns[r]
<1>1. /\ rows \in Seq(Rows) /\ Len(rows) \in Nat /\ RowsLinked(rows)
      /\ ColumnsLinked(rows, builder) /\ ChecksLinked(rows, builder)
      /\ Len(builder.tables) \in Nat
      /\ TablesLinked(rows, builder, builder.tables)
      /\ builder.interner \in Seq(STRING) /\ NoRepeats(builder.interner)
      /\ schema.interner = builder.interner
  BY EndIs
<1>2. v \in Tables(builder)
  BY DEF IsTable
<1>3. /\ At(schema.tables, t).columns_start = start
      /\ start \in Nat /\ len \in Nat
      /\ \A k \in 1..len : start + k \in 1..Len(rows)
      /\ Len(names) = len
      /\ \A k \in 1..len : names[k] = builder.column_names[start + k]
  BY ColumnsAre
<1>4. \A k \in 1..len : rows[start + k].table = NameIn(builder, v)
  <2>1. \A s \in 1..Len(rows) :
           rows[s].table = NameIn(builder, v) <=> InTable(m, s)
    BY <1>1, <1>2, TableAtIs
  <2>2. \A k \in 1..len : InTable(m, start + k)
    BY <1>3 DEF InTable
  <2> QED
    BY <1>3, <2>1, <2>2
<1>5. r \in 1..Len(rows) /\ j \in 1..len /\ r = start + j
  BY <1>3
<1>6. \A k \in 1..Len(rows) :
         /\ builder.column_names[k] \in 1..Len(builder.interner)
         /\ builder.interner[builder.column_names[k]] = rows[k].column
  BY <1>1 DEF ColumnsLinked, ColumnLinked
<1>7. symbol = builder.column_names[r]
  <2>1. Has(builder.interner, rows[r].column)
    BY <1>5, <1>6 DEF Has
  <2>2. /\ symbol \in 1..Len(builder.interner)
        /\ builder.interner[symbol] = rows[r].column
    BY <1>1, <2>1, SymbolOfIs
  <2> QED
    BY <1>1, <1>5, <1>6, <2>2 DEF NoRepeats
<1>8. p = j - 1
  <2> HIDE DEF names, symbol, start, len
  <2>1. Len(names) \in Nat /\ \E k \in 1..Len(names) : names[k] = symbol
    BY <1>3, <1>5, <1>7
  <2>2. None \notin Nat
    BY NoneAssumption
  <2>3. p \in Indices(names) /\ At(names, p) = symbol
    BY <2>1, <2>2, PositionFinds
  <2>4. p + 1 \in 1..len /\ names[p + 1] = symbol /\ p \in Int
    BY <1>3, <2>3 DEF Indices, At
  <2>5. builder.column_names[start + (p + 1)] = builder.column_names[start + j]
    BY <1>3, <1>5, <1>7, <2>4
  <2>6. /\ start + (p + 1) \in 1..Len(rows) /\ start + j \in 1..Len(rows)
        /\ rows[start + (p + 1)].column = rows[start + j].column
        /\ rows[start + (p + 1)].table = rows[start + j].table
    BY <1>3, <1>4, <1>5, <1>6, <2>4, <2>5
  <2>7. start + (p + 1) = start + j
    BY <1>1, <2>6 DEF RowsLinked
  <2>8. start \in Int /\ j \in Int
    BY <1>3, <1>5
  <2> HIDE DEF p
  <2> QED
    BY <2>4, <2>7, <2>8
<1>9. ColumnBySymbol(schema, t, symbol) = c
  <2>1. p # None /\ (start + p) + 1 = r
    BY <1>3, <1>5, <1>8, NoneAssumption
  <2> QED
    BY <1>3, <2>1 DEF ColumnBySymbol, At
<1>10. /\ c.flags = builder.columns[r].flags
       /\ c.constraints = builder.columns[r].constraints
       /\ builder.columns[r] \in Column
       /\ IsRange(builder.constraint_pool, builder.columns[r].constraints)
       /\ schema.constraint_pool = builder.constraint_pool
       /\ builder.constraint_pool \in Seq(Symbol)
  BY <1>5, ResultColumns
<1>11. /\ builder.columns[r].flags
             = Flags(rows[r].nullable, rows[r].primary, rows[r].unique)
       /\ builder.columns[r].constraints.len = AsU16(Len(rows[r].checks))
  BY <1>1, <1>5 DEF ColumnsLinked, ColumnLinked
<1>12. /\ rows[r].nullable \in BOOLEAN /\ rows[r].primary \in BOOLEAN
       /\ rows[r].unique \in BOOLEAN
       /\ Len(rows[r].checks) \in Nat /\ rows[r].checks \in Seq(STRING)
  <2>1. rows[r] \in Row /\ Len(rows[r].checks) \in Nat
    BY <1>1, <1>5, RowTypes
  <2> QED
    BY <2>1 DEF Row
<1> HIDE DEF c, symbol
<1>13. /\ IsPrimaryKey(c) = rows[r].primary
       /\ IsNullable(c) = rows[r].nullable
       /\ IsUnique(c) = rows[r].unique
  <2>1. c.flags = Flags(rows[r].nullable, rows[r].primary, rows[r].unique)
    BY <1>10, <1>11
  <2> QED
    BY <1>12, <2>1, FlagsTell
<1>14. ASSUME Len(rows[r].checks) < U16
       PROVE  StringsOf(Constraints(schema, c)) = rows[r].checks
  <2> DEFINE pool == builder.constraint_pool
             from == c.constraints.start
             n == c.constraints.len
             checks == rows[r].checks
             slice == Slice(pool, from, n)
  <2>1. from \in Nat /\ n \in Nat /\ from + n <= Len(pool)
    BY <1>10 DEF IsRange, Column, PoolRanges
  <2>2. Constraints(schema, c) = slice
    BY <1>10 DEF Constraints, Within
  <2>3. n = Len(checks)
    BY <1>10, <1>11, <1>12, <1>14, AsU16Is
  <2>4. ASSUME NEW k \in 1..n
        PROVE  /\ pool[from + k] \in 1..Len(builder.interner)
               /\ builder.interner[pool[from + k]] = checks[k]
    BY <1>1, <1>5, <1>10, <2>3, <2>4 DEF ChecksLinked
  <2>5. checks \in Seq(STRING) /\ pool \in Seq(Symbol)
    BY <1>10, <1>12
  <2> HIDE DEF pool, from, n, checks
  <2>6. /\ DOMAIN slice = 1..n
        /\ \A k \in 1..n : slice[k] = pool[from + k]
    BY <2>1, <2>5, SliceAt
  <2> HIDE DEF slice
  <2>7. ASSUME NEW k \in 1..n
        PROVE  At(schema.interner, slice[k] - 1) = checks[k]
    <3> DEFINE x == pool[from + k]
    <3>1. /\ x \in 1..Len(builder.interner) /\ builder.interner[x] = checks[k]
          /\ slice[k] = x
      BY <2>4, <2>6
    <3>2. x \in Int
      BY <1>1, <3>1
    <3> HIDE DEF x
    <3>3. (x - 1) + 1 = x
      BY <3>2
    <3> QED
      BY <1>1, <3>1, <3>3 DEF At
  <2>8. DOMAIN checks = 1..n /\ checks = [k \in 1..n |-> checks[k]]
    BY <2>3, <2>5
  <2>9. StringsOf(slice) = [k \in 1..n |-> checks[k]]
    BY <2>6, <2>7 DEF StringsOf
  <2> QED
    BY <2>2, <2>8, <2>9 DEF checks
<1> QED
  BY <1>9, <1>13, <1>14 DEF c, symbol

\* The number of a column's checks fits 16 bits: add_row takes it as u16.
ChecksFit == \A r \in DOMAIN rows : Len(rows[r].checks) < U16

\* Whatever rows the catalogue gives, every table of the result of build is
\* found by the symbol of its name and no other symbol finds one; it has the
\* columns of its rows in their order, each with its own flags and with the
\* very checks of its row, string by string, and the primary key is the last
\* column that claims to be.  Counts of checks must not wrap.
THEOREM TablesComeBack == Spec => [](ChecksFit => TablesAreFound)
<1>1. ASSUME AtDone, ChecksFit, NEW i \in DOMAIN schema.interner
      PROVE  LET t == TableBySymbol(schema, i)
                 mates == RowsOf(schema.interner[i])
                 key == SelectLastInSeq(mates, LAMBDA r : r.primary)
             IN  /\ t = None <=> schema.interner[i] \notin Names
                 /\ t # None =>
                     /\ TableName(schema, t) = i
                     /\ StringsOf(ColumnNames(schema, t))
                        = [j \in DOMAIN mates |-> mates[j].column]
                     /\ PrimaryKey(schema, t) =
                           IF key = 0 THEN None ELSE Columns(schema, t)[key]
                     /\ \A j \in DOMAIN mates :
                           LET column == ColumnBySymbol(schema, t,
                                   SymbolOf(schema.interner, mates[j].column))
                           IN  /\ column = Columns(schema, t)[j]
                               /\ IsPrimaryKey(column) = mates[j].primary
                               /\ IsNullable(column) = mates[j].nullable
                               /\ IsUnique(column) = mates[j].unique
                               /\ StringsOf(Constraints(schema, column))
                                     = mates[j].checks
  <2> DEFINE t == TableBySymbol(schema, i)
             mates == RowsOf(schema.interner[i])
             key == SelectLastInSeq(mates, LAMBDA r : r.primary)
  <2>1. /\ rows \in Seq(Rows) /\ Len(rows) \in Nat
        /\ ColumnsLinked(rows, builder) /\ Len(builder.tables) \in Nat
        /\ TablesLinked(rows, builder, builder.tables)
        /\ builder.interner \in Seq(STRING)
        /\ schema.interner = builder.interner
    BY <1>1, EndIs
  <2>2. i \in 1..Len(builder.interner) /\ DOMAIN rows = 1..Len(rows)
    BY <1>1, <2>1
  <2>3. /\ t = None <=> schema.interner[i] \notin Names
        /\ t # None => /\ TableName(schema, t) = i
                       /\ \E v \in Tables(builder) :
                             IsTable(t, v) /\ TableName(builder, v) = i
    BY <1>1, <2>1, <2>2, LookupIs
  <2> SUFFICES ASSUME t # None
               PROVE  /\ StringsOf(ColumnNames(schema, t))
                         = [j \in DOMAIN mates |-> mates[j].column]
                      /\ PrimaryKey(schema, t) =
                            IF key = 0 THEN None ELSE Columns(schema, t)[key]
                      /\ \A j \in DOMAIN mates :
                           LET column == ColumnBySymbol(schema, t,
                                   SymbolOf(schema.interner, mates[j].column))
                           IN  /\ column = Columns(schema, t)[j]
                               /\ IsPrimaryKey(column) = mates[j].primary
                               /\ IsNullable(column) = mates[j].nullable
                               /\ IsUnique(column) = mates[j].unique
                               /\ StringsOf(Constraints(schema, column))
                                     = mates[j].checks
    BY <2>3
  <2>4. PICK v \in Tables(builder) : IsTable(t, v) /\ TableName(builder, v) = i
    BY <2>3
  <2> DEFINE m == At(builder.tables, v)
             start == m.columns_start
             len == m.columns_len
  <2>5. NameIn(builder, v) = schema.interner[i]
    BY <2>1, <2>4 DEF NameIn
  <2>6. mates = [k \in 1..len |-> rows[start + k]]
    BY <1>1, <2>5, RowsOfAre
  <2>7. /\ At(schema.tables, t).columns_start = start
        /\ At(schema.tables, t).primary_key = m.primary_key
        /\ start \in Nat /\ len \in Nat
        /\ \A k \in 1..len : start + k \in 1..Len(rows)
        /\ DOMAIN ColumnNames(schema, t) = 1..len
        /\ \A k \in 1..len :
              /\ ColumnNames(schema, t)[k] = builder.column_names[start + k]
              /\ Columns(schema, t)[k] = schema.columns[start + k]
    BY <1>1, <2>4, ColumnsAre
  <2>8. TableLinked(rows, builder, m)
    BY <2>1, TableAtIs
  <2>9. KeyLinked(rows, m)
    BY <2>8 DEF TableLinked
  <2>10. \A r \in 1..Len(rows) :
            /\ builder.column_names[r] \in 1..Len(builder.interner)
            /\ builder.interner[builder.column_names[r]] = rows[r].column
    BY <2>1 DEF ColumnsLinked, ColumnLinked
  <2>11. m.primary_key \in {None} \cup Nat
    BY <2>4 DEF IsTable, TableMeta
  <2>12. \A k \in 1..len : InTable(m, start + k)
    BY <2>7 DEF InTable
  <2>13. ASSUME NEW j \in 1..len
         PROVE  LET column == ColumnBySymbol(schema, t,
                                 SymbolOf(schema.interner, mates[j].column))
                IN  /\ column = Columns(schema, t)[j]
                    /\ IsPrimaryKey(column) = mates[j].primary
                    /\ IsNullable(column) = mates[j].nullable
                    /\ IsUnique(column) = mates[j].unique
                    /\ StringsOf(Constraints(schema, column)) = mates[j].checks
    <3> DEFINE r == start + j
               column == ColumnBySymbol(schema, t,
                            SymbolOf(schema.interner, rows[r].column))
    <3>1. /\ column = schema.columns[r]
          /\ IsPrimaryKey(column) = rows[r].primary
          /\ IsNullable(column) = rows[r].nullable
          /\ IsUnique(column) = rows[r].unique
          /\ Len(rows[r].checks) < U16 =>
                StringsOf(Constraints(schema, column)) = rows[r].checks
      BY <1>1, <2>4, ColumnIsFound
    <3>2. Len(rows[r].checks) < U16
      BY <1>1, <2>2, <2>7 DEF ChecksFit
    <3>3. mates[j] = rows[r]
      BY <2>6
    <3>4. Columns(schema, t)[j] = schema.columns[r]
      BY <2>7
    <3> HIDE DEF r, mates
    <3> QED
      BY <3>1, <3>2, <3>3, <3>4, Zenon
  <2> HIDE DEF mates, start, len, t
  <2>14. DOMAIN mates = 1..len /\ Len(mates) = len
         /\ \A k \in 1..len : mates[k] = rows[start + k]
    BY <2>6, <2>7
  <2>15. StringsOf(ColumnNames(schema, t))
         = [j \in DOMAIN mates |-> mates[j].column]
    <3>1. ASSUME NEW j \in 1..len
          PROVE  At(schema.interner, ColumnNames(schema, t)[j] - 1)
                    = mates[j].column
      <4> DEFINE x == builder.column_names[start + j]
      <4>1. start + j \in 1..Len(rows) /\ mates[j] = rows[start + j]
        BY <2>7, <2>14
      <4>2. /\ x \in 1..Len(builder.interner)
            /\ builder.interner[x] = rows[start + j].column
        BY <2>10, <4>1
      <4>3. x \in Int /\ builder.interner[x] = mates[j].column
        BY <2>1, <4>1, <4>2
      <4> HIDE DEF x
      <4>4. (x - 1) + 1 = x
        BY <4>3
      <4> QED
        BY <2>1, <2>7, <4>3, <4>4 DEF At, x
    <3> QED
      BY <2>7, <2>14, <3>1 DEF StringsOf
  <2>16. PrimaryKey(schema, t) =
            IF key = 0 THEN None ELSE Columns(schema, t)[key]
    <3>1. CASE m.primary_key = None
      <4>1. \A k \in 1..Len(mates) : ~ mates[k].primary
        BY <2>7, <2>9, <2>12, <2>14, <3>1 DEF KeyLinked
      <4>2. key = 0
        BY <2>7, <2>14, <4>1, LastKeyIs
      <4> QED
        BY <2>7, <3>1, <4>2 DEF PrimaryKey
    <3>2. CASE m.primary_key # None
      <4> DEFINE k == m.primary_key + 1
                 last == start + m.primary_key + 1
      <4>1. m.primary_key \in Nat /\ k \in 1..len /\ last = start + k
        BY <2>7, <2>9, <2>11, <3>2 DEF KeyLinked, len
      <4>2. /\ rows[last].primary
            /\ \A r \in 1..Len(rows) : InTable(m, r) /\ rows[r].primary
                                          => r <= last
        BY <2>9, <3>2 DEF KeyLinked, start
      <4>3. mates[k].primary
        BY <2>14, <4>1, <4>2
      <4>4. ASSUME NEW j \in 1..Len(mates), mates[j].primary PROVE j <= k
        <5>1. j \in 1..len /\ rows[start + j].primary
          BY <2>14, <4>4
        <5>2. start + j <= last
          BY <2>7, <2>12, <4>2, <5>1
        <5>3. start \in Nat /\ j \in Int /\ k \in Int /\ last = start + k
          BY <2>7, <4>1, <5>1
        <5> HIDE DEF k, last
        <5> QED
          BY <5>2, <5>3
      <4>5. key = k
        <5>1. Len(mates) \in Nat /\ k \in 1..Len(mates)
          BY <2>7, <2>14, <4>1
        <5> HIDE DEF k
        <5> QED
          BY <4>3, <4>4, <5>1, LastKeyIs
      <4>6. PrimaryKey(schema, t) = schema.columns[last]
        <5>1. (start + m.primary_key) + 1 = last
          BY <2>7, <4>1
        <5> QED
          BY <2>7, <3>2, <5>1 DEF PrimaryKey, At
      <4>7. Columns(schema, t)[k] = schema.columns[last]
        BY <2>7, <4>1
      <4>8. k # 0
        BY <4>1
      <4> HIDE DEF key, k
      <4> QED
        BY <4>5, <4>6, <4>7, <4>8
    <3> QED
      BY <3>1, <3>2
  <2> QED
    BY <2>13, <2>14, <2>15, <2>16, Zenon
<1>2. IInv /\ LinkInv /\ ResolveInv => (ChecksFit => TablesAreFound)
  BY <1>1 DEF TablesAreFound, AtDone
<1> QED
  BY <1>2, ResolveInductive, PTL

-----------------------------------------------------------------------------
(* Compaction.  What is resolved is in the order of the pool, so a range   *)
(* of the old pool becomes the piece of the new one between two cuts.      *)

Ascends(fks) ==
    /\ Len(fks) \in Nat
    /\ \A k \in 1..Len(fks) : fks[k].pool_index \in Nat
    /\ \A k, l \in 1..Len(fks) :
          k < l => fks[k].pool_index < fks[l].pool_index

\* How many are from below p.
IsCut(fks, p, c) ==
    c \in 0..Len(fks) /\ \A k \in 1..Len(fks) : fks[k].pool_index < p <=> k <= c

Cut(fks, p) == CHOOSE c \in 0..Len(fks) : IsCut(fks, p, c)

LEMMA CutIs ==
    ASSUME NEW fks, Ascends(fks), NEW p \in Nat
    PROVE  /\ Cut(fks, p) \in Nat /\ Cut(fks, p) <= Len(fks)
           /\ \A k \in 1..Len(fks) :
                 fks[k].pool_index < p <=> k <= Cut(fks, p)
<1> DEFINE n == Len(fks)
           C == {c \in 0..n : \A k \in 1..n : k > c => fks[k].pool_index >= p}
<1>1. /\ n \in Nat /\ \A k \in 1..n : fks[k].pool_index \in Nat
      /\ \A k, l \in 1..n : k < l => fks[k].pool_index < fks[l].pool_index
  BY DEF Ascends
<1>2. PICK c \in C : \A d \in C : c <= d
  <2>1. C \in SUBSET Nat /\ n \in C
    BY <1>1
  <2> HIDE DEF C
  <2> QED
    BY <2>1, Least
<1>3. c \in 0..n /\ \A k \in 1..n : k > c => fks[k].pool_index >= p
  OBVIOUS
<1>4. c # 0 => fks[c].pool_index < p
  <2> SUFFICES ASSUME c # 0, ~ fks[c].pool_index < p PROVE FALSE
    OBVIOUS
  <2>1. c \in 1..n /\ c - 1 \in 0..n /\ c - 1 < c
    BY <1>1, <1>3
  <2>2. fks[c].pool_index >= p
    BY <1>1, <2>1
  <2>3. \A k \in 1..n : k > c - 1 => k = c \/ k > c
    BY <1>1, <2>1
  <2>4. c - 1 \in C
    BY <1>3, <2>1, <2>2, <2>3
  <2> HIDE DEF C
  <2>5. c <= c - 1
    BY <1>2, <2>4
  <2> QED
    BY <2>1, <2>5
<1>5. ASSUME NEW k \in 1..n PROVE fks[k].pool_index < p <=> k <= c
  <2>1. CASE k > c
    BY <1>1, <1>3, <2>1
  <2>2. CASE k = c
    BY <1>1, <1>4, <2>2
  <2>3. CASE k < c
    <3>1. c \in 1..n /\ c # 0
      BY <1>1, <1>3, <2>3
    <3>2. fks[k].pool_index < fks[c].pool_index /\ fks[c].pool_index < p
      BY <1>1, <1>4, <2>3, <3>1
    <3>3. fks[k].pool_index \in Nat /\ fks[c].pool_index \in Nat
      BY <1>1, <3>1
    <3>4. fks[k].pool_index < p
      BY <3>2, <3>3
    <3> QED
      BY <1>1, <1>3, <2>3, <3>4
  <2> QED
    BY <1>1, <1>3, <2>1, <2>2, <2>3
<1>6. \E d \in 0..n : IsCut(fks, p, d)
  BY <1>3, <1>5 DEF IsCut
<1>7. IsCut(fks, p, Cut(fks, p))
  BY <1>6 DEF Cut
<1> QED
  BY <1>1, <1>7 DEF IsCut

LEMMA CutsAscend ==
    ASSUME NEW fks, Ascends(fks), NEW p \in Nat, NEW q \in Nat, p <= q
    PROVE  Cut(fks, p) <= Cut(fks, q)
<1> DEFINE n == Len(fks)
           a == Cut(fks, p)
           z == Cut(fks, q)
<1>1. /\ a \in Nat /\ a <= n /\ z \in Nat /\ z <= n /\ n \in Nat
      /\ \A k \in 1..n : fks[k].pool_index \in Nat
      /\ \A k \in 1..n : fks[k].pool_index < p <=> k <= a
      /\ \A k \in 1..n : fks[k].pool_index < q <=> k <= z
  BY CutIs DEF Ascends
<1> HIDE DEF n, a, z
<1>2. a = 0 => a <= z
  BY <1>1
<1>3. ASSUME a # 0 PROVE a <= z
  <2>1. a \in 1..n
    BY <1>1, <1>3
  <2>2. fks[a].pool_index < p /\ fks[a].pool_index \in Nat
    BY <1>1, <2>1
  <2>3. fks[a].pool_index < q
    BY <2>2
  <2> QED
    BY <1>1, <2>1, <2>3
<1> QED
  BY <1>2, <1>3 DEF a, z

\* A foreign key that is resolved has its place among those.
LEMMA NewFkFinds ==
    ASSUME NEW fks, Ascends(fks)
    PROVE  /\ \A k \in 1..Len(fks) : NewFk(fks, fks[k].pool_index) = k - 1
           /\ \A i : NewFk(fks, i) # None =>
                 \E k \in 1..Len(fks) : fks[k].pool_index = i
<1> DEFINE n == Len(fks)
<1>1. /\ n \in Nat /\ \A k \in 1..n : fks[k].pool_index \in Nat
      /\ \A k, l \in 1..n : k < l => fks[k].pool_index < fks[l].pool_index
  BY DEF Ascends
<1>2. \A k, l \in 1..n : fks[k].pool_index = fks[l].pool_index => k = l
  <2> SUFFICES ASSUME NEW k \in 1..n, NEW l \in 1..n, k # l
               PROVE  fks[k].pool_index # fks[l].pool_index
    OBVIOUS
  <2>1. CASE k < l
    BY <1>1, <2>1
  <2>2. CASE l < k
    BY <1>1, <2>2
  <2> QED
    BY <1>1, <2>1, <2>2
<1>3. ASSUME NEW k \in 1..n PROVE NewFk(fks, fks[k].pool_index) = k - 1
  <2> DEFINE i == fks[k].pool_index
             p == SelectInSeq(fks, LAMBDA r : r.pool_index = i)
             I == {j \in 1..n : fks[j].pool_index = i}
  <2>1. p = IF I # {} THEN Min(I) ELSE 0
    BY DEF SelectInSeq
  <2>2. I = {k}
    BY <1>2
  <2>3. Min({k}) = k
    BY DEF Min
  <2>4. p = k
    <3> HIDE DEF p, I
    <3> QED
      BY <2>1, <2>2, <2>3
  <2>5. NewFk(fks, i) = IF p = 0 THEN None ELSE p - 1
    BY DEF NewFk
  <2> HIDE DEF p
  <2> QED
    BY <2>4, <2>5
<1>4. ASSUME NEW i, ~ \E k \in 1..n : fks[k].pool_index = i
      PROVE  NewFk(fks, i) = None
  <2> DEFINE p == SelectInSeq(fks, LAMBDA r : r.pool_index = i)
             I == {j \in 1..n : fks[j].pool_index = i}
  <2>1. p = IF I # {} THEN Min(I) ELSE 0
    BY DEF SelectInSeq
  <2>2. I = {}
    BY <1>4
  <2>3. p = 0
    <3> HIDE DEF p, I
    <3> QED
      BY <2>1, <2>2
  <2>4. NewFk(fks, i) = IF p = 0 THEN None ELSE p - 1
    BY DEF NewFk
  <2> HIDE DEF p
  <2> QED
    BY <2>3, <2>4
<1> QED
  BY <1>3, <1>4

\* What is left of a range of the old pool.
LEMMA CompactedCuts ==
    ASSUME NEW fks, Ascends(fks), NEW start \in Nat, NEW len \in Nat,
           len < U16
    PROVE  LET a == Cut(fks, start)
               z == Cut(fks, start + len)
               range == Compacted(fks, start, len)
           IN  /\ range.len = z - a
               /\ range.start = IF z = a THEN 0 ELSE a
<1> DEFINE n == Len(fks)
           stop == start + len
           a == Cut(fks, start)
           z == Cut(fks, stop)
           kept == {i \in start..(start + len - 1) : NewFk(fks, i) # None}
           K == (a + 1)..z
           f == [k \in K |-> fks[k].pool_index]
           first == CHOOSE i \in kept : \A j \in kept : i <= j
<1>1. /\ n \in Nat /\ \A k \in 1..n : fks[k].pool_index \in Nat
      /\ \A k, l \in 1..n : k < l => fks[k].pool_index < fks[l].pool_index
  BY DEF Ascends
<1>2. stop \in Nat /\ start <= stop
      /\ \A i : i \in start..(start + len - 1)
                <=> i \in Nat /\ start <= i /\ i < stop
  OBVIOUS
<1>3. /\ a \in Nat /\ a <= n /\ z \in Nat /\ z <= n
      /\ \A k \in 1..n : fks[k].pool_index < start <=> k <= a
      /\ \A k \in 1..n : fks[k].pool_index < stop <=> k <= z
  <2> HIDE DEF stop
  <2> QED
    BY <1>2, CutIs
<1>4. a <= z
  <2> HIDE DEF stop
  <2> QED
    BY <1>2, CutsAscend
<1>5. \A i : i \in kept <=> /\ i \in Nat /\ start <= i /\ i < stop
                            /\ NewFk(fks, i) # None
  BY <1>2
<1>6. \A k \in K : k \in 1..n /\ k > a /\ k <= z
  <2> HIDE DEF a, z
  <2> QED
    BY <1>1, <1>3
<1>7. Compacted(fks, start, len) =
         PoolRange(IF kept = {} THEN 0 ELSE NewFk(fks, first),
                   AsU16(Cardinality(kept)))
  BY DEF Compacted
<1>8. kept \subseteq start..(start + len - 1)
  OBVIOUS
<1>9. \A k : k \in 1..n /\ k > a /\ k <= z => k \in K
  BY <1>1, <1>3
<1> HIDE DEF kept, stop, a, z, n, K
<1>10. ASSUME NEW k \in K PROVE f[k] \in kept /\ f[k] = fks[k].pool_index
  <2>1. k \in 1..n /\ k > a /\ k <= z
    BY <1>6
  <2>2. fks[k].pool_index \in Nat /\ ~ fks[k].pool_index < start
        /\ fks[k].pool_index < stop
    BY <1>1, <1>3, <2>1
  <2>3. NewFk(fks, fks[k].pool_index) = k - 1
    BY <2>1, NewFkFinds DEF n
  <2>4. NewFk(fks, fks[k].pool_index) # None
    BY <1>1, <2>1, <2>3, NoneAssumption
  <2>5. start <= fks[k].pool_index
    BY <2>2
  <2> QED
    BY <1>5, <2>2, <2>4, <2>5
<1>11. ASSUME NEW i \in kept PROVE \E k \in K : f[k] = i
  <2>1. i \in Nat /\ start <= i /\ i < stop /\ NewFk(fks, i) # None
    BY <1>5
  <2>2. PICK k \in 1..n : fks[k].pool_index = i
    BY <2>1, NewFkFinds DEF n
  <2>3. ~ k <= a /\ k <= z
    BY <1>3, <2>1, <2>2
  <2>4. k \in K
    BY <1>1, <1>3, <1>9, <2>3
  <2> QED
    BY <2>2, <2>4
<1>12. ASSUME NEW k \in K, NEW l \in K, f[k] = f[l] PROVE k = l
  <2>1. k \in 1..n /\ l \in 1..n
    BY <1>6
  <2>2. fks[k].pool_index = fks[l].pool_index
    BY <1>12
  <2>3. NewFk(fks, fks[k].pool_index) = k - 1
        /\ NewFk(fks, fks[l].pool_index) = l - 1
    BY <2>1, NewFkFinds DEF n
  <2>4. k - 1 = l - 1
    BY <2>2, <2>3
  <2> QED
    BY <1>1, <2>1, <2>4
<1>13. IsFiniteSet(K) /\ Cardinality(K) = z - a
  <2>1. a + 1 \in Int /\ z \in Int
    BY <1>3
  <2>2. /\ IsFiniteSet((a + 1)..z)
        /\ Cardinality((a + 1)..z) = IF a + 1 > z THEN 0 ELSE z - (a + 1) + 1
    BY <2>1, FS_Interval
  <2> QED
    BY <1>3, <1>4, <2>2 DEF K
<1>14. f \in [K -> kept]
  BY <1>10
<1> HIDE DEF f
<1>15. IsFiniteSet(kept) /\ Cardinality(kept) = z - a
  BY <1>11, <1>12, <1>13, <1>14, SameSize
<1>16. Cardinality(kept) <= len
  <2>1. start \in Int /\ start + len - 1 \in Int
    OBVIOUS
  <2>2. /\ IsFiniteSet(start..(start + len - 1))
        /\ Cardinality(start..(start + len - 1)) =
              IF start > start + len - 1 THEN 0
              ELSE (start + len - 1) - start + 1
    BY <2>1, FS_Interval
  <2>3. Cardinality(start..(start + len - 1)) = len
    BY <2>2
  <2>4. Cardinality(kept) <= Cardinality(start..(start + len - 1))
    BY <1>8, <2>2, FS_Subset
  <2> QED
    BY <2>3, <2>4
<1>17. AsU16(Cardinality(kept)) = z - a
  <2>1. z - a \in Nat /\ z - a < U16
    BY <1>3, <1>4, <1>15, <1>16, U16Assumption
  <2> QED
    BY <1>15, <2>1, AsU16Is
<1>18. kept = {} <=> z = a
  <2>1. z = a => K = {}
    BY <1>3 DEF K
  <2>2. z # a => a + 1 \in K
    BY <1>3, <1>4 DEF K
  <2> QED
    BY <1>10, <1>11, <2>1, <2>2
<1>19. z # a => NewFk(fks, first) = a
  <2> SUFFICES ASSUME z # a PROVE NewFk(fks, first) = a
    OBVIOUS
  <2> DEFINE k == a + 1
  <2>1. k \in K /\ k \in 1..n
    BY <1>3, <1>4, <1>6 DEF K
  <2>2. f[k] \in kept /\ f[k] = fks[k].pool_index
    BY <1>10, <2>1
  <2>3. ASSUME NEW i \in kept PROVE f[k] <= i
    <3>1. PICK l \in K : f[l] = i
      BY <1>11
    <3>2. l \in 1..n /\ l >= k /\ i = fks[l].pool_index
      BY <1>3, <1>6, <1>10, <3>1
    <3>3. CASE l = k
      BY <1>1, <2>1, <2>2, <3>2, <3>3
    <3>4. CASE l > k
      <4>1. fks[k].pool_index < fks[l].pool_index
            /\ fks[k].pool_index \in Nat /\ fks[l].pool_index \in Nat
        BY <1>1, <2>1, <3>2, <3>4
      <4> QED
        BY <2>2, <3>2, <4>1
    <3> QED
      BY <1>1, <1>3, <3>2, <3>3, <3>4
  <2>4. \A i \in kept : i \in Nat
    BY <1>5
  <2>5. \A i \in kept : (\A j \in kept : i <= j) => i = f[k]
    BY <2>2, <2>3, <2>4
  <2>6. first = f[k]
    BY <2>2, <2>3, <2>5
  <2>7. NewFk(fks, fks[k].pool_index) = k - 1 /\ k - 1 = a
    BY <1>3, <2>1, NewFkFinds DEF n
  <2> QED
    BY <2>2, <2>6, <2>7
<1> HIDE DEF first
<1>20. /\ Compacted(fks, start, len).len = z - a
       /\ Compacted(fks, start, len).start = IF z = a THEN 0 ELSE a
  BY <1>7, <1>17, <1>18, <1>19 DEF PoolRange
<1> QED
  BY <1>20 DEF a, z, stop

\* The foreign keys of the rows are in the pool one row after the other.
LEMMA KeysAscend ==
    ASSUME NEW rs, Len(rs) \in Nat, NEW b, KeysLinked(rs, b),
           \A r \in 1..Len(rs) : /\ Len(rs[r].foreign_keys) \in Nat
                                 /\ KeysFrom(b, r) \in Nat,
           NEW r \in 1..Len(rs), NEW s \in 1..Len(rs), r < s
    PROVE  KeysTo(rs, b, r) <= KeysFrom(b, s)
<1> DEFINE n == Len(rs)
           P == {i \in Nat : (r + 1) + i <= n =>
                                KeysTo(rs, b, r) <= KeysFrom(b, (r + 1) + i)}
<1>1. /\ n \in Nat /\ r \in Nat /\ r >= 1
      /\ \A q \in 1..n : q # n => KeysTo(rs, b, q) = KeysFrom(b, q + 1)
  <2>1. n \in Nat /\ r \in Nat /\ r >= 1
    OBVIOUS
  <2>2. \A q \in 1..n : KeysTo(rs, b, q) = IF q = n
           THEN Len(b.foreign_key_pool) ELSE KeysFrom(b, q + 1)
    BY DEF KeysLinked
  <2> QED
    BY <2>1, <2>2
<1>2. \A q \in 1..n : /\ KeysTo(rs, b, q) \in Nat /\ KeysFrom(b, q) \in Nat
                      /\ KeysFrom(b, q) <= KeysTo(rs, b, q)
  <2> SUFFICES ASSUME NEW q \in 1..n
               PROVE  /\ KeysTo(rs, b, q) \in Nat /\ KeysFrom(b, q) \in Nat
                      /\ KeysFrom(b, q) <= KeysTo(rs, b, q)
    OBVIOUS
  <2> DEFINE from == KeysFrom(b, q)
             m == Len(rs[q].foreign_keys)
  <2>1. from \in Nat /\ m \in Nat
    OBVIOUS
  <2>2. KeysTo(rs, b, q) = from + m
    BY DEF KeysTo
  <2> HIDE DEF from, m
  <2>3. KeysTo(rs, b, q) \in Nat /\ from <= KeysTo(rs, b, q)
    BY <2>1, <2>2
  <2> QED
    BY <2>1, <2>3 DEF from
<1> HIDE DEF n
<1>3. 0 \in P
  <2>1. (r + 1) + 0 = r + 1
    BY <1>1
  <2>2. r # n
    BY <1>1 DEF n
  <2>3. KeysTo(rs, b, r) = KeysFrom(b, r + 1) /\ KeysTo(rs, b, r) \in Nat
    BY <1>1, <1>2, <2>2 DEF n
  <2> QED
    BY <2>1, <2>3
<1>4. ASSUME NEW i \in Nat, i < n, i \in P PROVE i + 1 \in P
  <2> SUFFICES ASSUME (r + 1) + (i + 1) <= n
               PROVE  KeysTo(rs, b, r) <= KeysFrom(b, (r + 1) + (i + 1))
    OBVIOUS
  <2> DEFINE q == (r + 1) + i
  <2>1. q \in 1..n /\ q # n /\ q + 1 = (r + 1) + (i + 1) /\ q + 1 \in 1..n
        /\ (r + 1) + i <= n
    BY <1>1
  <2>2. KeysTo(rs, b, r) <= KeysFrom(b, q)
    BY <1>4, <2>1
  <2> HIDE DEF q
  <2>3. KeysTo(rs, b, q) = KeysFrom(b, q + 1)
    BY <1>1, <2>1
  <2>4. KeysFrom(b, q) <= KeysTo(rs, b, q)
        /\ KeysFrom(b, q) \in Nat /\ KeysTo(rs, b, q) \in Nat
    BY <1>2, <2>1
  <2>5. KeysTo(rs, b, r) \in Nat
    BY <1>2 DEF n
  <2>6. KeysTo(rs, b, r) <= KeysFrom(b, q + 1)
    BY <2>2, <2>3, <2>4, <2>5
  <2> QED
    BY <2>1, <2>6
<1>5. \A i \in 0..n : i \in P
  <2> HIDE DEF P
  <2> QED
    BY <1>1, <1>3, <1>4, UpTo
<1>6. s - (r + 1) \in 0..n /\ (r + 1) + (s - (r + 1)) = s /\ s <= n
  BY <1>1 DEF n
<1> QED
  BY <1>5, <1>6

\* A place of the pool belongs to one foreign key of one row.
LEMMA IsAtOnce ==
    ASSUME NEW rs, Len(rs) \in Nat, NEW b, KeysLinked(rs, b),
           \A r \in 1..Len(rs) : /\ Len(rs[r].foreign_keys) \in Nat
                                 /\ KeysFrom(b, r) \in Nat,
           NEW p, NEW r, NEW j, NEW s, NEW l,
           IsAt(rs, b, p, r, j), IsAt(rs, b, p, s, l)
    PROVE  r = s /\ j = l
<1>1. /\ r \in 1..Len(rs) /\ j \in 1..Len(rs[r].foreign_keys)
      /\ p = KeysFrom(b, r) + j - 1
      /\ s \in 1..Len(rs) /\ l \in 1..Len(rs[s].foreign_keys)
      /\ p = KeysFrom(b, s) + l - 1
  BY DEF IsAt
<1>2. /\ KeysFrom(b, r) \in Nat /\ KeysFrom(b, s) \in Nat
      /\ Len(rs[r].foreign_keys) \in Nat /\ Len(rs[s].foreign_keys) \in Nat
  BY <1>1
<1>3. /\ KeysFrom(b, r) <= p /\ p < KeysTo(rs, b, r) /\ p \in Int
      /\ KeysFrom(b, s) <= p /\ p < KeysTo(rs, b, s)
      /\ KeysTo(rs, b, r) \in Int /\ KeysTo(rs, b, s) \in Int
  <2>1. /\ KeysFrom(b, r) <= p /\ p < KeysTo(rs, b, r) /\ p \in Int
        /\ KeysTo(rs, b, r) \in Int
    <3>1. KeysTo(rs, b, r) = KeysFrom(b, r) + Len(rs[r].foreign_keys)
      BY DEF KeysTo
    <3>2. j \in Int /\ 1 <= j /\ j <= Len(rs[r].foreign_keys)
          /\ p = KeysFrom(b, r) + j - 1
      BY <1>1, <1>2
    <3> DEFINE from == KeysFrom(b, r)
               m == Len(rs[r].foreign_keys)
    <3>3. from \in Nat /\ m \in Nat
      BY <1>1
    <3>4. KeysTo(rs, b, r) = from + m /\ p = from + j - 1 /\ j <= m
      BY <3>1, <3>2
    <3> HIDE DEF from, m
    <3>5. from <= p /\ p < from + m /\ p \in Int /\ from + m \in Int
      BY <3>2, <3>3, <3>4
    <3> QED
      BY <3>4, <3>5 DEF from
  <2>2. /\ KeysFrom(b, s) <= p /\ p < KeysTo(rs, b, s)
        /\ KeysTo(rs, b, s) \in Int
    <3>1. KeysTo(rs, b, s) = KeysFrom(b, s) + Len(rs[s].foreign_keys)
      BY DEF KeysTo
    <3>2. l \in Int /\ 1 <= l /\ l <= Len(rs[s].foreign_keys)
          /\ p = KeysFrom(b, s) + l - 1
      BY <1>1, <1>2
    <3> DEFINE from == KeysFrom(b, s)
               m == Len(rs[s].foreign_keys)
    <3>3. from \in Nat /\ m \in Nat
      BY <1>1
    <3>4. KeysTo(rs, b, s) = from + m /\ p = from + l - 1 /\ l <= m
      BY <3>1, <3>2
    <3> HIDE DEF from, m
    <3>5. from <= p /\ p < from + m /\ p \in Int /\ from + m \in Int
      BY <3>2, <3>3, <3>4
    <3> QED
      BY <3>4, <3>5 DEF from
  <2> QED
    BY <2>1, <2>2
<1>4. ~ r < s
  <2> SUFFICES ASSUME r < s PROVE FALSE
    OBVIOUS
  <2>1. KeysTo(rs, b, r) <= KeysFrom(b, s)
    BY <1>1, KeysAscend
  <2> QED
    BY <1>2, <1>3, <2>1
<1>5. ~ s < r
  <2> SUFFICES ASSUME s < r PROVE FALSE
    OBVIOUS
  <2>1. KeysTo(rs, b, s) <= KeysFrom(b, r)
    BY <1>1, KeysAscend
  <2> QED
    BY <1>2, <1>3, <2>1
<1>6. r = s
  BY <1>1, <1>4, <1>5
<1>7. j = l
  <2>1. KeysFrom(b, r) + j - 1 = KeysFrom(b, r) + l - 1
        /\ j \in Int /\ l \in Int
    BY <1>1, <1>2, <1>6
  <2> QED
    BY <1>2, <2>1
<1> QED
  BY <1>6, <1>7

\* The foreign keys of the result are those resolved.
LEMMA ResultKeys ==
    ASSUME AtDone
    PROVE  /\ Ascends(resolved)
           /\ schema.foreign_key_pool \in Seq(ForeignKey)
           /\ Len(schema.foreign_key_pool) = Len(resolved)
           /\ \A k \in 1..Len(resolved) :
                 /\ resolved[k].table \in Tables(builder)
                 /\ resolved[k].pool_index \in Nat
                 /\ schema.foreign_key_pool[k].table
                       = Position(sorted, resolved[k].table)
                 /\ schema.foreign_key_pool[k].column = resolved[k].column
<1> DEFINE pool == builder.foreign_key_pool
           R == [pool_index : Indices(pool), table : Tables(builder),
                 column : Nat]
<1>1. /\ builder \in DatabaseSchemaBuilder
      /\ schema = Built /\ Built \in DatabaseSchema
      /\ ResolvedLinked(rows, builder, resolved)
  BY EndIs
<1>2. resolved \in Seq(R)
  BY DEF AtDone, IInv, TypeOK
<1>3. pool \in Seq(ForeignKey) /\ Len(pool) \in Nat
  BY <1>1, BuilderTypes
<1>4. /\ schema.foreign_key_pool = [i \in DOMAIN resolved |->
                                      NewForeignKey(resolved[i])]
      /\ schema.foreign_key_pool \in Seq(ForeignKey)
  BY <1>1 DEF Built, DatabaseSchema
<1>5. \A x \in R : /\ x.pool_index \in Indices(pool)
                   /\ x.table \in Tables(builder)
  OBVIOUS
<1> HIDE DEF R
<1>6. /\ Len(resolved) \in Nat /\ DOMAIN resolved = 1..Len(resolved)
      /\ \A k \in 1..Len(resolved) : resolved[k] \in R
  BY <1>2
<1>7. \A k \in 1..Len(resolved) : /\ resolved[k].pool_index \in Indices(pool)
                                  /\ resolved[k].table \in Tables(builder)
  BY <1>5, <1>6
<1>8. \A i \in Indices(pool) : i \in Nat /\ At(pool, i) \in ForeignKey
  BY <1>3 DEF Indices, At
<1>9. Ascends(resolved)
  BY <1>1, <1>6, <1>7, <1>8 DEF Ascends, ResolvedLinked
<1>10. Len(schema.foreign_key_pool) = Len(resolved)
       /\ \A k \in 1..Len(resolved) :
             schema.foreign_key_pool[k] = NewForeignKey(resolved[k])
  <2>1. DOMAIN schema.foreign_key_pool = 1..Len(resolved)
    BY <1>4, <1>6
  <2> QED
    BY <1>4, <1>6, <2>1
<1>11. ASSUME NEW k \in 1..Len(resolved)
       PROVE  /\ NewForeignKey(resolved[k]).table
                    = Position(sorted, resolved[k].table)
              /\ NewForeignKey(resolved[k]).column = resolved[k].column
  <2>1. At(pool, resolved[k].pool_index) \in ForeignKey
    BY <1>7, <1>8
  <2>2. NewForeignKey(resolved[k]) =
           [At(pool, resolved[k].pool_index) EXCEPT
              !.table = Position(sorted, resolved[k].table),
              !.column = resolved[k].column]
    BY DEF NewForeignKey
  <2> QED
    BY <2>1, <2>2 DEF ForeignKey
<1> QED
  BY <1>4, <1>7, <1>8, <1>9, <1>10, <1>11

\* The builder's table v has a number of its own in the result.
LEMMA ResultTable ==
    ASSUME AtDone, NEW v \in Tables(builder)
    PROVE  /\ Position(sorted, v) = Found(NameIn(builder, v))
           /\ IsTable(Position(sorted, v), v)
<1> DEFINE f == Found(NameIn(builder, v))
           g == Position(sorted, v)
<1>1. /\ schema = Built /\ sorted \in Seq(Tables(builder))
      /\ Len(schema.tables) = Len(sorted) /\ Len(sorted) \in Nat
  BY EndIs
<1>2. /\ f \in Tables(schema) /\ f \in Nat
      /\ f + 1 \in 1..Len(sorted) /\ sorted[f + 1] = v
  BY FoundIs
<1> HIDE DEF f, g
<1>3. g \in Indices(sorted) /\ At(sorted, g) = v
  <2>1. None \notin Nat /\ \E i \in 1..Len(sorted) : sorted[i] = v
    BY <1>2, NoneAssumption
  <2> QED
    BY <1>1, <2>1, PositionFinds DEF g
<1>4. g + 1 \in 1..Len(sorted) /\ sorted[g + 1] = v /\ g \in Nat
  BY <1>1, <1>3 DEF Indices, At
<1>5. f = g
  <2>1. /\ Times(sorted, v) = 1
        /\ Times(sorted, v) = Cardinality(Places1(sorted, v))
        /\ IsFiniteSet(Places1(sorted, v))
    BY <1>1, TimesIs DEF AtDone, IInv, OrderInv
  <2>2. PICK x : Places1(sorted, v) = {x}
    BY <2>1, FS_Singleton
  <2>3. f + 1 \in Places1(sorted, v) /\ g + 1 \in Places1(sorted, v)
    BY <1>1, <1>2, <1>4 DEF Places1
  <2>4. f + 1 = g + 1
    BY <2>2, <2>3
  <2> QED
    BY <1>2, <1>4, <2>4
<1>6. IsTable(f, v)
  <2>1. f + 1 \in 1..Len(Built.tables)
    BY <1>1, <1>2
  <2>2. /\ At(builder.tables, sorted[f + 1]) \in TableMeta
        /\ Built.tables[f + 1]
              = NewTable(resolved, At(builder.tables, sorted[f + 1]))
    BY <2>1, BuiltTables DEF AtDone
  <2>3. At(schema.tables, f) = Built.tables[f + 1]
    BY <1>1 DEF At
  <2> QED
    BY <1>2, <2>2, <2>3 DEF IsTable
<1> QED
  BY <1>5, <1>6 DEF f, g

-----------------------------------------------------------------------------
(* Where the foreign keys that are left lead.                              *)

\* Where a foreign key of the result leads, by name: an element of Ends.
EndAt(k) ==
    LET fk == schema.foreign_key_pool[k]
    IN  <<At(schema.interner, TableName(schema, fk.table) - 1),
          At(schema.interner, At(ColumnNames(schema, fk.table),
                                 fk.column) - 1)>>

\* It leads where its row says.
LEMMA EndIsTarget ==
    ASSUME AtDone, NEW k \in 1..Len(resolved), NEW r, NEW j,
           IsAt(rows, builder, resolved[k].pool_index, r, j)
    PROVE  LET fk == rows[r].foreign_keys[j]
           IN  /\ LeadsIn(rows, fk)
               /\ NameIn(builder, resolved[k].table) = fk.table
               /\ EndAt(k) = <<fk.table, fk.column>>
<1> DEFINE fk == rows[r].foreign_keys[j]
           p == resolved[k].pool_index
           v == resolved[k].table
           i == resolved[k].column
           m == At(builder.tables, v)
           f == Position(sorted, v)
           start == m.columns_start
           len == m.columns_len
<1>1. /\ rows \in Seq(Rows) /\ Len(rows) \in Nat
      /\ builder \in DatabaseSchemaBuilder
      /\ ColumnsLinked(rows, builder) /\ KeysLinked(rows, builder)
      /\ TablesLinked(rows, builder, builder.tables)
      /\ Len(builder.tables) \in Nat
      /\ ResolvedLinked(rows, builder, resolved)
      /\ schema.interner = builder.interner
      /\ Len(builder.interner) \in Nat
  BY EndIs
<1>2. \A q \in 1..Len(rows) : /\ Len(rows[q].foreign_keys) \in Nat
                              /\ KeysFrom(builder, q) \in Nat
  BY <1>1, KeyTypes
<1>3. TargetLinked(builder, fk, v, i)
  <2>1. ResolvedTo(rows, builder, p, v, i)
    BY <1>1 DEF ResolvedLinked
  <2>2. PICK s, l \in Nat :
           /\ IsAt(rows, builder, p, s, l)
           /\ TargetLinked(builder, rows[s].foreign_keys[l], v, i)
    BY <2>1 DEF ResolvedTo
  <2>3. r = s /\ j = l
    BY <1>1, <1>2, <2>2, IsAtOnce
  <2> QED
    BY <2>2, <2>3
<1>4. /\ v \in Tables(builder) /\ builder.interner[m.name] = fk.table
      /\ i \in 0..(len - 1)
      /\ builder.interner[builder.column_names[start + i + 1]] = fk.column
  BY <1>3 DEF TargetLinked
<1>5. LeadsIn(rows, fk)
  BY <1>1, <1>3, TargetRow
<1>6. IsTable(f, v)
  BY <1>4, ResultTable
<1>7. /\ schema.foreign_key_pool[k].table = f
      /\ schema.foreign_key_pool[k].column = i
  BY ResultKeys
<1>8. /\ start \in Nat /\ len \in Nat
      /\ \A x \in 1..len : start + x \in 1..Len(rows)
      /\ \A x \in 1..len : ColumnNames(schema, f)[x]
                              = builder.column_names[start + x]
  <2> DEFINE w == At(builder.tables, v)
  <2>1. w.columns_start \in Nat /\ w.columns_len \in Nat
    BY <1>6, ColumnsAre
  <2>2. \A x \in 1..w.columns_len : w.columns_start + x \in 1..Len(rows)
    BY <1>6, ColumnsAre
  <2>3. \A x \in 1..w.columns_len :
           ColumnNames(schema, f)[x]
              = builder.column_names[w.columns_start + x]
    BY <1>6, ColumnsAre
  <2> QED
    BY <2>1, <2>2, <2>3
<1>9. m.name \in 1..Len(builder.interner) /\ NameIn(builder, v) = fk.table
  <2>1. /\ v \in Tables(builder) /\ Len(rows) \in Nat
        /\ Len(builder.tables) \in Nat
        /\ TablesLinked(rows, builder, builder.tables)
    BY <1>1, <1>4
  <2> HIDE DEF v, m
  <2>2. At(builder.tables, v).name \in 1..Len(builder.interner)
    BY <2>1, TableAtIs
  <2>3. NameIn(builder, v) = builder.interner[At(builder.tables, v).name]
    BY <2>1, TableAtIs
  <2> QED
    BY <1>4, <2>2, <2>3 DEF m
<1>10. At(schema.interner, TableName(schema, f) - 1) = fk.table
  <2>1. TableName(schema, f) = m.name
    BY <1>6, NewTableKeeps DEF IsTable, TableName
  <2>2. (m.name - 1) + 1 = m.name
    BY <1>1, <1>9
  <2> QED
    BY <1>1, <1>4, <2>1, <2>2 DEF At
<1>11. At(schema.interner, At(ColumnNames(schema, f), i) - 1) = fk.column
  <2> DEFINE c == builder.column_names[start + (i + 1)]
  <2>1. /\ i + 1 \in 1..len /\ start + (i + 1) = start + i + 1
        /\ start + (i + 1) \in 1..Len(rows)
    <3>1. start \in Nat /\ len \in Nat /\ i \in 0..(len - 1)
      BY <1>4, <1>8
    <3> HIDE DEF start, len, i
    <3>2. i + 1 \in 1..len /\ start + (i + 1) = start + i + 1
      BY <3>1
    <3> QED
      BY <1>8, <3>2
  <2>2. At(ColumnNames(schema, f), i) = c
    BY <1>8, <2>1 DEF At
  <2>3. c \in 1..Len(builder.interner)
    BY <1>1, <2>1 DEF ColumnsLinked, ColumnLinked
  <2>4. builder.interner[c] = fk.column
    BY <1>4, <2>1
  <2> HIDE DEF c
  <2>5. (c - 1) + 1 = c
    BY <1>1, <2>3
  <2> QED
    BY <1>1, <2>2, <2>4, <2>5 DEF At
<1> QED
  BY <1>5, <1>7, <1>9, <1>10, <1>11 DEF EndAt

\* The piece of a pool between two places.
LEMMA PieceIs ==
    ASSUME NEW S, NEW s \in Seq(S), NEW a \in Nat, NEW z \in Nat, a <= z,
           z <= Len(s), NEW range, range.len = z - a,
           range.start = IF z = a THEN 0 ELSE a
    PROVE  /\ DOMAIN Within(s, range) = 1..(z - a)
           /\ \A x \in 1..(z - a) : Within(s, range)[x] = s[a + x]
<1> DEFINE start == range.start
           len == range.len
<1>1. Within(s, range) = Slice(s, start, len)
  BY DEF Within
<1>2. start \in Nat /\ len \in Nat /\ start + len <= Len(s) /\ len = z - a
      /\ (len # 0 => start = a)
  <2>1. CASE z = a
    BY <2>1
  <2>2. CASE z # a
    BY <2>2
  <2> QED
    BY <2>1, <2>2
<1> HIDE DEF start, len
<1>3. DOMAIN Slice(s, start, len) = 1..len
  BY <1>2, SliceAt
<1>4. \A x \in 1..len : Slice(s, start, len)[x] = s[start + x]
  BY <1>2, SliceAt
<1>5. \A x \in 1..len : start = a
  BY <1>2
<1> QED
  BY <1>1, <1>2, <1>3, <1>4, <1>5

\* What is left of a range of the pool.
LEMMA KeptAre ==
    ASSUME AtDone, NEW start \in Nat, NEW len \in Nat, len < U16,
           NEW range, range.len = Compacted(resolved, start, len).len,
           range.start = Compacted(resolved, start, len).start
    PROVE  LET kept == Within(schema.foreign_key_pool, range)
               a == Cut(resolved, start)
               z == Cut(resolved, start + len)
           IN  /\ a \in Nat /\ z \in Nat /\ a <= z /\ z <= Len(resolved)
               /\ DOMAIN kept = 1..(z - a)
               /\ \A x \in 1..(z - a) :
                     kept[x] = schema.foreign_key_pool[a + x]
<1> DEFINE stop == start + len
           a == Cut(resolved, start)
           z == Cut(resolved, stop)
           pool == schema.foreign_key_pool
<1>1. /\ Ascends(resolved) /\ pool \in Seq(ForeignKey)
      /\ Len(pool) = Len(resolved)
  BY ResultKeys
<1>2. stop \in Nat /\ start <= stop
  OBVIOUS
<1>3. range.len = z - a /\ range.start = IF z = a THEN 0 ELSE a
  BY <1>1, CompactedCuts
<1> HIDE DEF stop, pool
<1>4. a \in Nat /\ z \in Nat /\ a <= z /\ z <= Len(resolved)
  BY <1>1, <1>2, CutIs, CutsAscend
<1> HIDE DEF a, z
<1>5. z <= Len(pool)
  BY <1>1, <1>4
<1>6. DOMAIN Within(pool, range) = 1..(z - a)
      /\ \A x \in 1..(z - a) : Within(pool, range)[x] = pool[a + x]
  BY <1>1, <1>3, <1>4, <1>5, PieceIs
<1> QED
  BY <1>4, <1>6 DEF a, z, pool, stop

\* The foreign keys of a row that lead somewhere are what is resolved of the
\* row's piece of the pool, in the same order.
LEMMA RowEnds ==
    ASSUME AtDone, NEW r \in 1..Len(rows)
    PROVE  LET a == Cut(resolved, KeysFrom(builder, r))
               z == Cut(resolved, KeysTo(rows, builder, r))
           IN  /\ a \in Nat /\ z \in Nat /\ a <= z /\ z <= Len(resolved)
               /\ RawEnds(GoodFks(rows[r])) = [x \in 1..(z - a) |-> EndAt(a + x)]
<1> DEFINE fks == rows[r].foreign_keys
           n == Len(fks)
           from == KeysFrom(builder, r)
           to == KeysTo(rows, builder, r)
           a == Cut(resolved, from)
           z == Cut(resolved, to)
           S == {j \in DOMAIN fks : Leads(fks[j])}
           s == [x \in 1..(z - a) |-> (resolved[a + x].pool_index - from) + 1]
<1>1. /\ rows \in Seq(Rows) /\ Len(rows) \in Nat
      /\ builder \in DatabaseSchemaBuilder
      /\ ColumnsLinked(rows, builder) /\ KeysLinked(rows, builder)
      /\ ResolvedLinked(rows, builder, resolved)
      /\ Done(builder) = Len(builder.foreign_key_pool)
  BY EndIs
<1>2. \A q \in 1..Len(rows) : /\ Len(rows[q].foreign_keys) \in Nat
                              /\ KeysFrom(builder, q) \in Nat
  BY <1>1, KeyTypes
<1>3. from \in Nat /\ n \in Nat /\ to = from + n /\ to \in Nat /\ from <= to
  BY <1>2 DEF KeysTo
<1>4. DOMAIN fks = 1..n /\ DOMAIN rows = 1..Len(rows)
  <2>1. fks \in Seq(RawForeignKey)
    BY <1>1, RowTypes
  <2> QED
    BY <1>1, <2>1
<1>5. \A j : j \in S <=> j \in 1..n /\ LeadsIn(rows, fks[j])
  BY <1>4 DEF Leads, LeadsIn
<1>6. Ascends(resolved)
  BY ResultKeys
<1>7. /\ Len(resolved) \in Nat
      /\ \A k \in 1..Len(resolved) : resolved[k].pool_index \in Nat
      /\ \A k, l \in 1..Len(resolved) :
            k < l => resolved[k].pool_index < resolved[l].pool_index
  BY <1>6 DEF Ascends
<1>8. GoodFks(rows[r]) = Chosen(fks, S)
  BY DEF GoodFks
<1>9. IsFiniteSet(S) /\ S \in SUBSET Nat
  <2>1. S \subseteq 1..n
    BY <1>4
  <2>2. n \in Int /\ 1 \in Int
    BY <1>3
  <2> HIDE DEF n, S
  <2>3. IsFiniteSet(1..n)
    BY <2>2, FS_Interval
  <2>4. S \in SUBSET (1..n) /\ S \in SUBSET Nat
    BY <2>1
  <2>5. IsFiniteSet(S)
    BY <2>3, <2>4, FS_Subset
  <2> QED
    BY <2>4, <2>5
<1>10. \A j \in 1..n : IsAt(rows, builder, from + j - 1, r, j)
  BY DEF IsAt
<1> HIDE DEF S, fks, n, from, to
<1>11. /\ a \in Nat /\ z \in Nat /\ a <= z /\ z <= Len(resolved)
       /\ \A k \in 1..Len(resolved) : resolved[k].pool_index < from <=> k <= a
       /\ \A k \in 1..Len(resolved) : resolved[k].pool_index < to <=> k <= z
  BY <1>3, <1>6, CutIs, CutsAscend
<1> HIDE DEF a, z
<1>12. ASSUME NEW x \in 1..(z - a)
       PROVE  /\ a + x \in 1..Len(resolved)
              /\ s[x] \in S
              /\ s[x] = (resolved[a + x].pool_index - from) + 1
              /\ EndAt(a + x) = <<fks[s[x]].table, fks[s[x]].column>>
  <2> DEFINE k == a + x
             p == resolved[k].pool_index
             j == (p - from) + 1
  <2>1. k \in 1..Len(resolved) /\ ~ k <= a /\ k <= z
    BY <1>7, <1>11
  <2>2. p \in Nat /\ ~ p < from /\ p < to
    BY <1>7, <1>11, <2>1
  <2> HIDE DEF k, p
  <2>3. j \in 1..n /\ from + j - 1 = p
    BY <1>3, <2>2
  <2>4. IsAt(rows, builder, p, r, j)
    BY <1>10, <2>3
  <2> HIDE DEF j
  <2>5. /\ LeadsIn(rows, fks[j]) /\ EndAt(k) = <<fks[j].table, fks[j].column>>
    BY <2>1, <2>4, EndIsTarget DEF fks, p
  <2>6. j \in S
    BY <1>5, <2>3, <2>5
  <2>7. s[x] = j
    BY DEF j, p, k
  <2> QED
    BY <2>1, <2>5, <2>6, <2>7 DEF k, p, j
<1>13. s \in Seq(S) /\ Len(s) = z - a /\ DOMAIN s = 1..(z - a)
  <2>1. z - a \in Nat
    BY <1>11
  <2>2. \A x \in 1..(z - a) : (resolved[a + x].pool_index - from) + 1 \in S
    BY <1>12
  <2> QED
    BY <2>1, <2>2
<1> HIDE DEF s
<1>14. Increasing(s)
  <2> SUFFICES ASSUME NEW x \in 1..(z - a), NEW y \in 1..(z - a), x < y
               PROVE  s[x] < s[y]
    BY <1>13 DEF Increasing
  <2>1. a + x \in 1..Len(resolved) /\ a + y \in 1..Len(resolved)
        /\ a + x < a + y
    BY <1>11, <1>12
  <2>2. /\ resolved[a + x].pool_index < resolved[a + y].pool_index
        /\ resolved[a + x].pool_index \in Nat
        /\ resolved[a + y].pool_index \in Nat
    BY <1>7, <2>1
  <2>3. /\ s[x] = (resolved[a + x].pool_index - from) + 1
        /\ s[y] = (resolved[a + y].pool_index - from) + 1
    BY <1>12
  <2> QED
    BY <1>3, <2>2, <2>3
<1>15. ASSUME NEW j \in S PROVE Has(s, j)
  <2> DEFINE p == from + j - 1
  <2>1. j \in 1..n /\ LeadsIn(rows, fks[j]) /\ j \in Nat /\ r \in Nat
    BY <1>1, <1>3, <1>5
  <2>2. p \in Nat /\ ~ p < from /\ p < to /\ IsAt(rows, builder, p, r, j)
        /\ (p - from) + 1 = j
    BY <1>3, <1>10, <2>1
  <2>3. p < Done(builder)
    <3>1. UpperKeys(rows, builder)
      BY <1>1, <1>2, SizesAre, KeysAreBelow
    <3>2. to <= Len(builder.foreign_key_pool)
      BY <3>1 DEF UpperKeys, to
    <3>3. Len(builder.foreign_key_pool) \in Nat
      BY <1>1, BuilderTypes
    <3> HIDE DEF p
    <3> QED
      BY <1>1, <1>3, <2>2, <3>2, <3>3
  <2> HIDE DEF p
  <2>4. PICK k \in 1..Len(resolved) : resolved[k].pool_index = p
    BY <1>1, <2>1, <2>2, <2>3 DEF ResolvedLinked, fks
  <2>5. ~ k <= a /\ k <= z
    BY <1>11, <2>2, <2>4
  <2>6. k - a \in 1..(z - a) /\ a + (k - a) = k
    BY <1>7, <1>11, <2>5
  <2>7. s[k - a] = j
    BY <1>12, <2>2, <2>4, <2>6
  <2> QED
    BY <1>13, <2>6, <2>7 DEF Has
<1>16. InOrder(S) = s
  BY <1>9, <1>13, <1>14, <1>15, InOrderIsThat
<1>17. Chosen(fks, S) = [x \in 1..(z - a) |-> fks[s[x]]]
  BY <1>13, <1>16 DEF Chosen
<1>18. RawEnds(GoodFks(rows[r])) =
          [x \in 1..(z - a) |-> <<fks[s[x]].table, fks[s[x]].column>>]
  BY <1>8, <1>17 DEF RawEnds
<1>19. RawEnds(GoodFks(rows[r])) = [x \in 1..(z - a) |-> EndAt(a + x)]
  BY <1>12, <1>18
<1> QED
  BY <1>11, <1>19 DEF a, z, from, to

\* Ends of what is left of a range of the pool.
LEMMA EndsAre ==
    ASSUME AtDone, NEW start \in Nat, NEW len \in Nat, len < U16,
           NEW range, range.len = Compacted(resolved, start, len).len,
           range.start = Compacted(resolved, start, len).start
    PROVE  LET a == Cut(resolved, start)
               z == Cut(resolved, start + len)
           IN  Ends(Within(schema.foreign_key_pool, range))
                  = [x \in 1..(z - a) |-> EndAt(a + x)]
<1> DEFINE kept == Within(schema.foreign_key_pool, range)
           a == Cut(resolved, start)
           z == Cut(resolved, start + len)
<1>1. /\ DOMAIN kept = 1..(z - a)
      /\ \A x \in 1..(z - a) : kept[x] = schema.foreign_key_pool[a + x]
  <2>1. LET all == Within(schema.foreign_key_pool, range)
            b == Cut(resolved, start)
            c == Cut(resolved, start + len)
        IN  /\ b \in Nat /\ c \in Nat /\ b <= c /\ c <= Len(resolved)
            /\ DOMAIN all = 1..(c - b)
            /\ \A x \in 1..(c - b) :
                  all[x] = schema.foreign_key_pool[b + x]
    BY KeptAre
  <2> QED
    BY <2>1
<1> HIDE DEF kept, a, z
<1>2. Ends(kept) = [x \in 1..(z - a) |->
         <<At(schema.interner, TableName(schema, kept[x].table) - 1),
           At(schema.interner, At(ColumnNames(schema, kept[x].table),
                                  kept[x].column) - 1)>>]
  BY <1>1 DEF Ends
<1>3. ASSUME NEW x \in 1..(z - a)
      PROVE  <<At(schema.interner, TableName(schema, kept[x].table) - 1),
               At(schema.interner, At(ColumnNames(schema, kept[x].table),
                                      kept[x].column) - 1)>> = EndAt(a + x)
  BY <1>1 DEF EndAt
<1> QED
  BY <1>2, <1>3 DEF kept, a, z

\* What grows as the cuts do ends where the list is cut.
GrowsAs(off, cut, n) ==
    /\ off[0] = 0
    /\ \A i \in 0..n : off[i] \in Nat /\ cut[i] \in Nat
    /\ \A i \in 1..n : off[i] = off[i - 1] + (cut[i] - cut[i - 1])

LEMMA CutsAddUp ==
    ASSUME NEW n \in Nat, NEW off, NEW cut, GrowsAs(off, cut, n)
    PROVE  \A i \in 0..n : off[i] = cut[i] - cut[0]
<1> USE DEF GrowsAs
<1> DEFINE P == {i \in Nat : i <= n => off[i] = cut[i] - cut[0]}
<1>1. 0 \in P
  <2>1. 0 \in 0..n
    OBVIOUS
  <2>2. cut[0] \in Nat
    BY <2>1
  <2> QED
    BY <2>1, <2>2
<1>2. ASSUME NEW i \in Nat, i < n, i \in P PROVE i + 1 \in P
  <2>1. i + 1 \in 1..n /\ (i + 1) - 1 = i /\ i \in 0..n /\ i + 1 \in 0..n
        /\ 0 \in 0..n
    BY <1>2
  <2>2. off[i + 1] = off[i] + (cut[i + 1] - cut[i])
    BY <2>1
  <2>3. off[i] = cut[i] - cut[0]
    BY <1>2
  <2>4. cut[i] \in Nat /\ cut[i + 1] \in Nat /\ cut[0] \in Nat
    BY <2>1
  <2>5. off[i + 1] = cut[i + 1] - cut[0]
    BY <2>2, <2>3, <2>4
  <2> QED
    BY <2>5
<1>3. \A i \in 0..n : i \in P
  <2> HIDE DEF P
  <2> QED
    BY <1>1, <1>2, UpTo
<1> QED
  BY <1>3

\* The cuts are where one part ends and the next one starts.
CutUp(seqs, cut) ==
    /\ \A i \in 0..Len(seqs) : cut[i] \in Nat
    /\ \A i \in 1..Len(seqs) : Len(seqs[i]) = cut[i] - cut[i - 1]

PiecedAt(flat, seqs, cut, off) ==
    LET n == Len(seqs)
    IN  /\ n \in Nat /\ Len(flat) = cut[n] - cut[0]
        /\ \A i \in 0..n : off[i] \in Nat /\ cut[i] \in Nat
        /\ \A i \in 0..n : off[i] = cut[i] - cut[0]
        /\ \A i \in 1..n : off[i] = off[i - 1] + Len(seqs[i])
        /\ \A i \in 1..n : \A x \in 1..Len(seqs[i]) :
              flat[off[i - 1] + x] = seqs[i][x]

LEMMA FlattenCuts ==
    ASSUME NEW S, NEW seqs \in Seq(Seq(S)), NEW cut, CutUp(seqs, cut)
    PROVE  /\ FlattenSeq(seqs) \in Seq(S)
           /\ \E off : PiecedAt(FlattenSeq(seqs), seqs, cut, off)
<1> DEFINE n == Len(seqs)
           flat == FlattenSeq(seqs)
<1>1. flat \in Seq(S) /\ \E off : /\ IsLayout(off, seqs)
                                  /\ IsFlattened(flat, off, seqs)
  BY FlattenSeqIs
<1>2. PICK off : IsLayout(off, seqs) /\ IsFlattened(flat, off, seqs)
  BY <1>1
<1>3. n \in Nat /\ DOMAIN seqs = 1..n
  OBVIOUS
<1>4. \A i \in 0..n : cut[i] \in Nat
  BY DEF CutUp
<1>5. \A i \in 1..n : Len(seqs[i]) = cut[i] - cut[i - 1]
  BY DEF CutUp
<1>6. off[0] = 0
  BY <1>2 DEF IsLayout
<1>7. \A i \in 0..n : off[i] \in Nat
  BY <1>2 DEF IsLayout
<1>8. \A i \in 1..n : off[i] = off[i - 1] + Len(seqs[i])
  BY <1>2, <1>3 DEF IsLayout
<1>9. Len(flat) = off[n]
  BY <1>2 DEF IsFlattened
<1>10. \A i \in 1..n : \A x \in 1..Len(seqs[i]) :
          flat[off[i - 1] + x] = seqs[i][x]
  BY <1>2, <1>3 DEF IsFlattened
<1> HIDE DEF n, flat
<1>11. \A i \in 0..n : off[i] = cut[i] - cut[0]
  <2>1. \A i \in 1..n : off[i] = off[i - 1] + (cut[i] - cut[i - 1])
    BY <1>5, <1>8
  <2>2. GrowsAs(off, cut, n)
    BY <1>4, <1>6, <1>7, <2>1 DEF GrowsAs
  <2> QED
    BY <1>3, <2>2, CutsAddUp
<1>12. n \in 0..n
  BY <1>3
<1>13. Len(flat) = cut[n] - cut[0]
  BY <1>9, <1>11, <1>12
<1>14. PiecedAt(flat, seqs, cut, off)
  BY <1>3, <1>4, <1>7, <1>8, <1>10, <1>11, <1>13 DEF PiecedAt, n
<1> QED
  BY <1>1, <1>14 DEF flat

\* The parts are pieces of E.
CutFrom(seqs, cut, E) ==
    \A i \in 1..Len(seqs) : \A x \in 1..Len(seqs[i]) :
        seqs[i][x] = E[cut[i - 1] + x]

\* Pieces of a list, one after the other, are a piece of it.
LEMMA FlattenPieces ==
    ASSUME NEW S, NEW seqs \in Seq(Seq(S)), NEW cut, CutUp(seqs, cut),
           NEW E, CutFrom(seqs, cut, E)
    PROVE  FlattenSeq(seqs) =
              [x \in 1..(cut[Len(seqs)] - cut[0]) |-> E[cut[0] + x]]
<1> DEFINE n == Len(seqs)
           flat == FlattenSeq(seqs)
<1>1. flat \in Seq(S) /\ \E off : PiecedAt(flat, seqs, cut, off)
  BY FlattenCuts
<1>2. PICK off : PiecedAt(flat, seqs, cut, off)
  BY <1>1
<1>3. /\ n \in Nat /\ Len(flat) = cut[n] - cut[0]
      /\ \A i \in 0..n : off[i] \in Nat /\ cut[i] \in Nat
      /\ \A i \in 0..n : off[i] = cut[i] - cut[0]
      /\ \A i \in 1..n : off[i] = off[i - 1] + Len(seqs[i])
      /\ \A i \in 1..n : Len(seqs[i]) \in Nat
      /\ \A i \in 1..n : \A x \in 1..Len(seqs[i]) :
            flat[off[i - 1] + x] = seqs[i][x]
  <2>1. \A i \in 1..n : Len(seqs[i]) \in Nat
    OBVIOUS
  <2> QED
    BY <1>2, <2>1 DEF PiecedAt
<1>4. \A i \in 1..n : \A x \in 1..Len(seqs[i]) : seqs[i][x] = E[cut[i - 1] + x]
  BY DEF CutFrom
<1> HIDE DEF n, flat
<1>5. off[0] = 0
  <2>1. 0 \in 0..n
    BY <1>3
  <2>2. off[0] = cut[0] - cut[0] /\ cut[0] \in Nat
    BY <1>3, <2>1
  <2> QED
    BY <2>2
<1> DEFINE P == {i \in Nat : i <= n =>
                    \A y \in 1..off[i] : flat[y] = E[cut[0] + y]}
<1>6. 0 \in P
  BY <1>3, <1>5
<1>7. ASSUME NEW i \in Nat, i < n, i \in P PROVE i + 1 \in P
  <2> SUFFICES ASSUME NEW y \in 1..off[i + 1]
               PROVE  flat[y] = E[cut[0] + y]
    OBVIOUS
  <2>1. i + 1 \in 1..n /\ (i + 1) - 1 = i /\ i \in 0..n /\ i + 1 \in 0..n
        /\ 0 \in 0..n
    BY <1>3, <1>7
  <2>2. /\ off[i + 1] = off[i] + Len(seqs[i + 1])
        /\ Len(seqs[i + 1]) \in Nat /\ off[i] \in Nat
        /\ cut[i] \in Nat /\ cut[0] \in Nat /\ off[i] = cut[i] - cut[0]
    BY <1>3, <2>1
  <2>3. CASE y <= off[i]
    <3>1. y \in 1..off[i]
      BY <2>2, <2>3
    <3>2. i <= n
      BY <1>3, <1>7
    <3>3. \A w \in 1..off[i] : flat[w] = E[cut[0] + w]
      BY <1>7, <3>2
    <3> QED
      BY <3>1, <3>3
  <2>4. CASE ~ y <= off[i]
    <3> DEFINE x == y - off[i]
    <3>1. x \in 1..Len(seqs[i + 1]) /\ off[i] + x = y
          /\ cut[i] + x = cut[0] + y
      <4>1. y \in Int /\ 1 <= y /\ y <= off[i + 1]
        BY <2>2
      <4>2. y <= off[i] + Len(seqs[i + 1])
        BY <2>2, <4>1
      <4> DEFINE l == Len(seqs[i + 1])
                 o == off[i]
                 c == cut[i]
                 d == cut[0]
      <4>3. l \in Nat /\ o \in Nat /\ c \in Nat /\ d \in Nat /\ o = c - d
            /\ y \in Int /\ y <= o + l /\ ~ y <= o
        BY <2>2, <2>4, <4>1, <4>2
      <4> HIDE DEF l, o, c, d
      <4>4. y - o \in 1..l /\ o + (y - o) = y /\ c + (y - o) = d + y
        BY <4>3
      <4> QED
        BY <4>4 DEF l, o, c, d
    <3> HIDE DEF x
    <3>2. flat[off[i] + x] = seqs[i + 1][x]
      BY <1>3, <2>1, <3>1
    <3>3. seqs[i + 1][x] = E[cut[i] + x]
      BY <1>4, <2>1, <3>1
    <3> QED
      BY <3>1, <3>2, <3>3
  <2> QED
    BY <2>3, <2>4
<1>8. \A i \in 0..n : i \in P
  <2> HIDE DEF P
  <2> QED
    BY <1>3, <1>6, <1>7, UpTo
<1>9. n \in 0..n /\ n <= n
  BY <1>3
<1>10. \A y \in 1..off[n] : flat[y] = E[cut[0] + y]
  BY <1>8, <1>9
<1>11. DOMAIN flat = 1..off[n] /\ off[n] = cut[n] - cut[0]
  <2>1. DOMAIN flat = 1..Len(flat)
    BY <1>1
  <2> QED
    BY <1>3, <1>9, <2>1
<1>12. flat = [y \in DOMAIN flat |-> flat[y]]
  BY <1>1
<1> QED
  BY <1>10, <1>11, <1>12 DEF n, flat

\* Where the foreign keys of the first i rows of the table v end in the pool.
Bound(v, i) ==
    LET start == At(builder.tables, v).columns_start
    IN  IF i = 0 THEN KeysFrom(builder, start + 1)
        ELSE KeysTo(rows, builder, start + i)

LEMMA BoundsAre ==
    ASSUME AtDone, NEW v \in Tables(builder)
    PROVE  LET m == At(builder.tables, v)
               start == m.columns_start
               len == m.columns_len
           IN  /\ start \in Nat /\ len \in Nat /\ len >= 1
               /\ \A i \in 1..len : start + i \in 1..Len(rows)
               /\ \A i \in 0..len : Bound(v, i) \in Nat
               /\ \A i \in 1..len :
                     /\ Bound(v, i - 1) = KeysFrom(builder, start + i)
                     /\ Bound(v, i) = KeysTo(rows, builder, start + i)
                     /\ Bound(v, i - 1) <= Bound(v, i)
                     /\ Len(rows[start + i].foreign_keys)
                           = Bound(v, i) - Bound(v, i - 1)
                     /\ Bound(v, 0) <= Bound(v, i - 1)
                     /\ Bound(v, i) <= Bound(v, len)
               /\ m.fk_start = Bound(v, 0)
               /\ m.fk_len = AsU16(Bound(v, len) - Bound(v, 0))
<1> DEFINE m == At(builder.tables, v)
           start == m.columns_start
           len == m.columns_len
<1>1. /\ rows \in Seq(Rows) /\ Len(rows) \in Nat
      /\ builder \in DatabaseSchemaBuilder
      /\ ColumnsLinked(rows, builder) /\ KeysLinked(rows, builder)
      /\ TablesLinked(rows, builder, builder.tables)
      /\ Len(builder.tables) \in Nat
  BY EndIs
<1>2. \A q \in 1..Len(rows) : /\ Len(rows[q].foreign_keys) \in Nat
                              /\ KeysFrom(builder, q) \in Nat
  BY <1>1, KeyTypes
<1>3. \A q \in 1..Len(rows) :
         /\ KeysTo(rows, builder, q) \in Nat
         /\ KeysFrom(builder, q) <= KeysTo(rows, builder, q)
         /\ Len(rows[q].foreign_keys)
               = KeysTo(rows, builder, q) - KeysFrom(builder, q)
         /\ q # Len(rows) =>
               KeysTo(rows, builder, q) = KeysFrom(builder, q + 1)
  BY <1>1, <1>2 DEF KeysTo, KeysLinked
<1>4. \A q, s \in 1..Len(rows) : q < s =>
         KeysTo(rows, builder, q) <= KeysFrom(builder, s)
  BY <1>1, <1>2, KeysAscend
<1>5. /\ start \in Nat /\ len \in Nat /\ len >= 1
      /\ start + len <= Len(rows) /\ TableLinked(rows, builder, m)
  BY <1>1, TableAtIs
<1>6. /\ m.fk_start = KeysFrom(builder, start + 1)
      /\ m.fk_len = AsU16(KeysTo(rows, builder, start + len) - m.fk_start)
  BY <1>5 DEF TableLinked
<1>7. /\ Bound(v, 0) = KeysFrom(builder, start + 1)
      /\ \A i \in 1..len : Bound(v, i) = KeysTo(rows, builder, start + i)
  BY DEF Bound
<1> HIDE DEF start, len
<1>8. \A i \in 1..len : start + i \in 1..Len(rows)
  BY <1>1, <1>5
<1>9. \A i \in 1..len : Bound(v, i - 1) = KeysFrom(builder, start + i)
  <2> SUFFICES ASSUME NEW i \in 1..len
               PROVE  Bound(v, i - 1) = KeysFrom(builder, start + i)
    OBVIOUS
  <2>1. CASE i = 1
    BY <1>7, <2>1
  <2>2. CASE i # 1
    <3>1. i - 1 \in 1..len /\ (start + (i - 1)) + 1 = start + i
          /\ start + (i - 1) # Len(rows)
      BY <1>1, <1>5, <2>2
    <3>2. start + (i - 1) \in 1..Len(rows)
      BY <1>8, <3>1
    <3>3. KeysTo(rows, builder, start + (i - 1))
             = KeysFrom(builder, (start + (i - 1)) + 1)
      BY <1>3, <3>1, <3>2
    <3> QED
      BY <1>7, <3>1, <3>3
  <2> QED
    BY <2>1, <2>2
<1>10. ASSUME NEW i \in 1..len
       PROVE  /\ Bound(v, i) \in Nat /\ Bound(v, i - 1) \in Nat
              /\ Bound(v, i - 1) <= Bound(v, i)
              /\ Len(rows[start + i].foreign_keys)
                    = Bound(v, i) - Bound(v, i - 1)
  BY <1>2, <1>3, <1>7, <1>8, <1>9
<1>11. \A i \in 0..len : Bound(v, i) \in Nat
  <2>1. 1 \in 1..len /\ 1 - 1 = 0
    BY <1>5
  <2>2. Bound(v, 0) \in Nat
    BY <1>10, <2>1
  <2>3. \A i \in 0..len : i = 0 \/ i \in 1..len
    BY <1>5
  <2> QED
    BY <1>10, <2>2, <2>3
<1>12. ASSUME NEW i \in 1..len PROVE Bound(v, 0) <= Bound(v, i - 1)
  <2>1. 1 \in 1..len /\ 1 - 1 = 0
    BY <1>5
  <2>2. CASE i = 1
    BY <1>10, <2>1, <2>2
  <2>3. CASE i # 1
    <3>1. /\ start + 1 \in 1..Len(rows) /\ start + i \in 1..Len(rows)
          /\ start + 1 < start + i
      BY <1>5, <1>8, <2>1, <2>3
    <3>2. KeysTo(rows, builder, start + 1) <= KeysFrom(builder, start + i)
      BY <1>4, <3>1
    <3>3. /\ Bound(v, 1) <= Bound(v, i - 1) /\ Bound(v, 0) <= Bound(v, 1)
      BY <1>7, <1>9, <1>10, <2>1, <3>2
    <3>4. Bound(v, 0) \in Nat /\ Bound(v, 1) \in Nat /\ Bound(v, i - 1) \in Nat
      BY <1>10, <2>1
    <3> QED
      BY <3>3, <3>4
  <2> QED
    BY <2>2, <2>3
<1>13. ASSUME NEW i \in 1..len PROVE Bound(v, i) <= Bound(v, len)
  <2>1. len \in 1..len
    BY <1>5
  <2>2. CASE i = len
    BY <1>10, <2>1, <2>2
  <2>3. CASE i # len
    <3>1. /\ start + i \in 1..Len(rows) /\ start + len \in 1..Len(rows)
          /\ start + i < start + len
      BY <1>5, <1>8, <2>1, <2>3
    <3>2. KeysTo(rows, builder, start + i) <= KeysFrom(builder, start + len)
      BY <1>4, <3>1
    <3>3. /\ Bound(v, i) <= Bound(v, len - 1)
          /\ Bound(v, len - 1) <= Bound(v, len)
      BY <1>7, <1>9, <1>10, <2>1, <3>2
    <3>4. /\ Bound(v, i) \in Nat /\ Bound(v, len - 1) \in Nat
          /\ Bound(v, len) \in Nat
      BY <1>10, <2>1
    <3> QED
      BY <3>3, <3>4
  <2> QED
    BY <2>2, <2>3
<1>14. m.fk_start = Bound(v, 0) /\ m.fk_len = AsU16(Bound(v, len) - Bound(v, 0))
  <2>1. len \in 1..len
    BY <1>5
  <2> QED
    BY <1>6, <1>7, <2>1
<1> QED
  BY <1>5, <1>7, <1>8, <1>9, <1>10, <1>11, <1>12, <1>13, <1>14 DEF start, len

\* A table's foreign keys, in all its columns, are fewer than 2^16: add_row
\* and finish_table count them as u16.
KeysOf(name) ==
    FlattenSeq([i \in DOMAIN RowsOf(name) |-> RowsOf(name)[i].foreign_keys])

KeyCountsFit == \A name \in Names : Len(KeysOf(name)) < U16

\* So no count of keys wraps.
LEMMA KeysAre ==
    ASSUME AtDone, KeyCountsFit, NEW v \in Tables(builder)
    PROVE  LET m == At(builder.tables, v)
               start == m.columns_start
               len == m.columns_len
           IN  /\ Bound(v, len) - Bound(v, 0) \in Nat
               /\ Bound(v, len) - Bound(v, 0) < U16
               /\ m.fk_len = Bound(v, len) - Bound(v, 0)
               /\ \A i \in 1..len :
                     /\ Len(rows[start + i].foreign_keys) \in Nat
                     /\ Len(rows[start + i].foreign_keys) < U16
<1> DEFINE m == At(builder.tables, v)
           start == m.columns_start
           len == m.columns_len
           seqs == [i \in 1..len |-> rows[start + i].foreign_keys]
           cut == [i \in 0..len |-> Bound(v, i)]
<1>1. /\ start \in Nat /\ len \in Nat /\ len >= 1
      /\ \A i \in 1..len : start + i \in 1..Len(rows)
      /\ \A i \in 0..len : Bound(v, i) \in Nat
      /\ \A i \in 1..len :
            /\ Bound(v, i - 1) = KeysFrom(builder, start + i)
            /\ Bound(v, i) = KeysTo(rows, builder, start + i)
            /\ Bound(v, i - 1) <= Bound(v, i)
            /\ Len(rows[start + i].foreign_keys) = Bound(v, i) - Bound(v, i - 1)
            /\ Bound(v, 0) <= Bound(v, i - 1)
            /\ Bound(v, i) <= Bound(v, len)
      /\ m.fk_start = Bound(v, 0)
      /\ m.fk_len = AsU16(Bound(v, len) - Bound(v, 0))
  BY BoundsAre
<1>2. RowsOf(NameIn(builder, v)) = [k \in 1..len |-> rows[start + k]]
  BY RowsOfAre
<1>3. rows \in Seq(Rows) /\ NameIn(builder, v) \in Names
  BY EndIs, NamesAre
<1> HIDE DEF start, len
<1>4. KeysOf(NameIn(builder, v)) = FlattenSeq(seqs)
  <2>1. [i \in DOMAIN RowsOf(NameIn(builder, v)) |->
            RowsOf(NameIn(builder, v))[i].foreign_keys] = seqs
    BY <1>2
  <2> QED
    BY <2>1 DEF KeysOf
<1>5. Len(FlattenSeq(seqs)) < U16
  BY <1>3, <1>4 DEF KeyCountsFit
<1>6. seqs \in Seq(Seq(RawForeignKey)) /\ Len(seqs) = len
  <2>1. \A i \in 1..len : rows[start + i].foreign_keys \in Seq(RawForeignKey)
    BY <1>1, <1>3, RowTypes
  <2> QED
    BY <1>1, <2>1
<1>7. CutUp(seqs, cut)
  <2>1. \A i \in 1..len : i \in 0..len /\ i - 1 \in 0..len
    BY <1>1
  <2>2. \A i \in 1..len : Len(seqs[i]) = cut[i] - cut[i - 1]
    BY <1>1, <2>1
  <2> QED
    BY <1>1, <1>6, <2>2 DEF CutUp
<1> HIDE DEF seqs, cut
<1>8. Len(FlattenSeq(seqs)) = cut[len] - cut[0]
  <2>1. \E off : PiecedAt(FlattenSeq(seqs), seqs, cut, off)
    BY <1>6, <1>7, FlattenCuts
  <2> QED
    BY <1>6, <2>1 DEF PiecedAt
<1>9. cut[len] = Bound(v, len) /\ cut[0] = Bound(v, 0)
  <2>1. len \in 0..len /\ 0 \in 0..len
    BY <1>1
  <2> QED
    BY <2>1 DEF cut
<1> DEFINE all == Bound(v, len) - Bound(v, 0)
<1>10. all \in Nat /\ all < U16
  <2>1. len \in 1..len /\ 0 \in 0..len /\ len \in 0..len
    BY <1>1
  <2>2. /\ Bound(v, 0) \in Nat /\ Bound(v, len) \in Nat
        /\ Bound(v, len - 1) \in Nat
        /\ Bound(v, 0) <= Bound(v, len - 1)
        /\ Bound(v, len - 1) <= Bound(v, len)
    <3>1. len - 1 \in 0..len
      BY <1>1
    <3> QED
      BY <1>1, <2>1, <3>1
  <2> QED
    BY <1>5, <1>8, <1>9, <2>2
<1>11. m.fk_len = all
  <2> HIDE DEF all
  <2>1. AsU16(all) = all
    BY <1>10, AsU16Is
  <2> QED
    BY <1>1, <2>1 DEF all
<1>12. ASSUME NEW i \in 1..len
       PROVE  /\ Len(rows[start + i].foreign_keys) \in Nat
              /\ Len(rows[start + i].foreign_keys) < U16
  <2>1. 0 \in 0..len /\ i \in 0..len /\ i - 1 \in 0..len /\ len \in 0..len
    BY <1>1
  <2>2. /\ Bound(v, 0) \in Nat /\ Bound(v, len) \in Nat
        /\ Bound(v, i) \in Nat /\ Bound(v, i - 1) \in Nat
        /\ Bound(v, 0) <= Bound(v, i - 1) /\ Bound(v, i - 1) <= Bound(v, i)
        /\ Bound(v, i) <= Bound(v, len)
        /\ Len(rows[start + i].foreign_keys) = Bound(v, i) - Bound(v, i - 1)
    BY <1>1, <2>1
  <2>3. U16 \in Int
    BY U16Assumption
  <2> QED
    BY <1>10, <2>2, <2>3
<1> QED
  BY <1>10, <1>11, <1>12 DEF start, len

\* The range of a table is what is left of its rows' piece of the pool.
RangeOf(t) == PoolRange(At(schema.tables, t).fk_start, At(schema.tables, t).fk_len)

LEMMA RangeOfIs ==
    ASSUME AtDone, KeyCountsFit, NEW t, NEW v, IsTable(t, v)
    PROVE  LET len == At(builder.tables, v).columns_len
               all == Bound(v, len) - Bound(v, 0)
           IN  /\ Bound(v, 0) \in Nat /\ Bound(v, len) \in Nat
               /\ all \in Nat /\ all < U16 /\ Bound(v, 0) + all = Bound(v, len)
               /\ RangeOf(t).start = Compacted(resolved, Bound(v, 0), all).start
               /\ RangeOf(t).len = Compacted(resolved, Bound(v, 0), all).len
               /\ ForeignKeys(schema, t)
                     = Within(schema.foreign_key_pool, RangeOf(t))
<1> DEFINE m == At(builder.tables, v)
           len == m.columns_len
           all == Bound(v, len) - Bound(v, 0)
           n == At(schema.tables, t)
<1>1. /\ v \in Tables(builder) /\ m \in TableMeta
      /\ n = NewTable(resolved, m)
  BY DEF IsTable
<1>2. /\ Bound(v, 0) \in Nat /\ Bound(v, len) \in Nat /\ m.fk_start = Bound(v, 0)
  <2>1. /\ len \in Nat /\ \A i \in 0..len : Bound(v, i) \in Nat
        /\ m.fk_start = Bound(v, 0)
    BY <1>1, BoundsAre
  <2>2. 0 \in 0..len /\ len \in 0..len
    BY <2>1
  <2> QED
    BY <2>1, <2>2
<1>3. all \in Nat /\ all < U16 /\ m.fk_len = all
  BY <1>1, KeysAre
<1>4. /\ n.fk_start = Compacted(resolved, m.fk_start, m.fk_len).start
      /\ n.fk_len = Compacted(resolved, m.fk_start, m.fk_len).len
  BY <1>1, NewTableKeeps
<1>5. RangeOf(t).start = n.fk_start /\ RangeOf(t).len = n.fk_len
  BY DEF RangeOf, PoolRange
<1>6. ForeignKeys(schema, t) = Within(schema.foreign_key_pool, RangeOf(t))
  BY <1>5 DEF ForeignKeys, Within
<1>7. Bound(v, 0) + all = Bound(v, len)
  BY <1>2
<1> HIDE DEF all
<1>8. /\ RangeOf(t).start = Compacted(resolved, Bound(v, 0), all).start
      /\ RangeOf(t).len = Compacted(resolved, Bound(v, 0), all).len
  BY <1>2, <1>3, <1>4, <1>5
<1> QED
  BY <1>2, <1>3, <1>6, <1>7, <1>8 DEF all

\* Where the foreign keys of a table lead.
LEMMA EndsOfTable ==
    ASSUME AtDone, KeyCountsFit, NEW t, NEW v, IsTable(t, v)
    PROVE  LET len == At(builder.tables, v).columns_len
               a == Cut(resolved, Bound(v, 0))
               z == Cut(resolved, Bound(v, len))
           IN  Ends(ForeignKeys(schema, t)) = [x \in 1..(z - a) |-> EndAt(a + x)]
<1> DEFINE len == At(builder.tables, v).columns_len
           all == Bound(v, len) - Bound(v, 0)
<1>1. /\ Bound(v, 0) \in Nat /\ all \in Nat /\ all < U16
      /\ Bound(v, 0) + all = Bound(v, len)
      /\ RangeOf(t).start = Compacted(resolved, Bound(v, 0), all).start
      /\ RangeOf(t).len = Compacted(resolved, Bound(v, 0), all).len
      /\ ForeignKeys(schema, t) = Within(schema.foreign_key_pool, RangeOf(t))
  BY RangeOfIs
<1> HIDE DEF all
<1>2. LET a == Cut(resolved, Bound(v, 0))
          z == Cut(resolved, Bound(v, 0) + all)
      IN  Ends(Within(schema.foreign_key_pool, RangeOf(t)))
             = [x \in 1..(z - a) |-> EndAt(a + x)]
  BY <1>1, EndsAre
<1> QED
  BY <1>1, <1>2

\* Where the foreign keys of a column lead.
LEMMA EndsOfColumn ==
    ASSUME AtDone, NEW r \in 1..Len(rows), Len(rows[r].foreign_keys) < U16
    PROVE  Ends(ColumnForeignKeys(schema, schema.columns[r]))
              = RawEnds(GoodFks(rows[r]))
<1> DEFINE c == builder.columns[r]
           start == KeysFrom(builder, r)
           len == Len(rows[r].foreign_keys)
           range == schema.columns[r].foreign_keys
<1>1. /\ rows \in Seq(Rows) /\ builder \in DatabaseSchemaBuilder
      /\ ColumnsLinked(rows, builder)
  BY EndIs
<1>2. start \in Nat /\ len \in Nat /\ len < U16
  BY <1>1, KeyTypes
<1>3. c.foreign_keys.start = start
  BY DEF KeysFrom
<1>4. c.foreign_keys.len = len
  <2>1. c.foreign_keys.len = AsU16(len)
    BY <1>1 DEF ColumnsLinked, ColumnLinked
  <2> HIDE DEF len
  <2> QED
    BY <1>2, <2>1, AsU16Is
<1>5. range = Compacted(resolved, c.foreign_keys.start, c.foreign_keys.len)
  BY ResultColumns
<1>6. range = Compacted(resolved, start, len)
  BY <1>3, <1>4, <1>5
<1>7. KeysTo(rows, builder, r) = start + len
  BY DEF KeysTo
<1> HIDE DEF start, len, range
<1>8. LET a == Cut(resolved, start)
          z == Cut(resolved, start + len)
      IN  Ends(Within(schema.foreign_key_pool, range))
             = [x \in 1..(z - a) |-> EndAt(a + x)]
  BY <1>2, <1>6, EndsAre
<1>9. LET a == Cut(resolved, KeysFrom(builder, r))
          z == Cut(resolved, KeysTo(rows, builder, r))
      IN  /\ a \in Nat /\ z \in Nat /\ a <= z /\ z <= Len(resolved)
          /\ RawEnds(GoodFks(rows[r])) = [x \in 1..(z - a) |-> EndAt(a + x)]
  BY RowEnds
<1>10. Ends(Within(schema.foreign_key_pool, range)) = RawEnds(GoodFks(rows[r]))
  BY <1>7, <1>8, <1>9 DEF start
<1> QED
  BY <1>10 DEF ColumnForeignKeys, range

LEMMA FunctionIsList ==
    ASSUME NEW S, NEW n \in Nat, NEW f \in [1..n -> S]
    PROVE  f \in Seq(S) /\ Len(f) = n
OBVIOUS

\* Whatever rows the catalogue gives, the foreign keys of every column and of
\* every table in the result of build lead, in their order, to the tables and
\* columns that the rows name, and those that name nothing reported are gone:
\* the tables' new numbers and the pool without its gaps agree. With 2^16 keys
\* in one table its count would wrap, and keys would be lost.
THEOREM ForeignKeysComeHome == Spec => [](KeyCountsFit => ForeignKeysLeadHome)
<1>1. ASSUME AtDone, KeyCountsFit, NEW name \in Names
      PROVE  LET t == Found(name)
                 mates == RowsOf(name)
             IN  /\ \A i \in DOMAIN mates :
                       Ends(ColumnForeignKeys(schema, Columns(schema, t)[i]))
                          = RawEnds(GoodFks(mates[i]))
                 /\ Ends(ForeignKeys(schema, t)) = FlattenSeq(
                       [i \in DOMAIN mates |-> RawEnds(GoodFks(mates[i]))])
  <2> DEFINE t == Found(name)
             mates == RowsOf(name)
  <2>1. PICK v \in Tables(builder) : NameIn(builder, v) = name
    BY <1>1, NamesAre
  <2> DEFINE m == At(builder.tables, v)
             start == m.columns_start
             len == m.columns_len
             seqs == [i \in 1..len |-> RawEnds(GoodFks(rows[start + i]))]
             cut == [i \in 0..len |-> Cut(resolved, Bound(v, i))]
             E == [k \in 1..Len(resolved) |-> EndAt(k)]
             S == {EndAt(k) : k \in 1..Len(resolved)}
  <2>2. IsTable(t, v)
    BY <1>1, <2>1, ResultTable
  <2>3. mates = [k \in 1..len |-> rows[start + k]]
    BY <1>1, <2>1, RowsOfAre
  <2>4. /\ start \in Nat /\ len \in Nat /\ len >= 1
        /\ \A i \in 1..len : start + i \in 1..Len(rows)
        /\ \A i \in 0..len : Bound(v, i) \in Nat
        /\ \A i \in 1..len :
              /\ Bound(v, i - 1) = KeysFrom(builder, start + i)
              /\ Bound(v, i) = KeysTo(rows, builder, start + i)
    BY <1>1, BoundsAre
  <2>5. \A k \in 1..len : Columns(schema, t)[k] = schema.columns[start + k]
    BY <1>1, <2>2, ColumnsAre
  <2>6. \A i \in 1..len : Len(rows[start + i].foreign_keys) < U16
    BY <1>1, KeysAre
  <2>7. Ends(ForeignKeys(schema, t)) =
           [x \in 1..(Cut(resolved, Bound(v, len)) - Cut(resolved, Bound(v, 0)))
               |-> EndAt(Cut(resolved, Bound(v, 0)) + x)]
    BY <1>1, <2>2, EndsOfTable
  <2> HIDE DEF t, mates, start, len
  <2>8. ASSUME NEW i \in DOMAIN mates
        PROVE  Ends(ColumnForeignKeys(schema, Columns(schema, t)[i]))
                  = RawEnds(GoodFks(mates[i]))
    <3>1. i \in 1..len /\ mates[i] = rows[start + i]
      BY <2>3
    <3>2. start + i \in 1..Len(rows) /\ Len(rows[start + i].foreign_keys) < U16
      BY <2>4, <2>6, <3>1
    <3>3. Ends(ColumnForeignKeys(schema, schema.columns[start + i]))
             = RawEnds(GoodFks(rows[start + i]))
      BY <1>1, <3>2, EndsOfColumn
    <3> QED
      BY <2>5, <3>1, <3>3
  <2>9. [i \in DOMAIN mates |-> RawEnds(GoodFks(mates[i]))] = seqs
    BY <2>3
  <2>10. ASSUME NEW i \in 1..len
         PROVE  /\ cut[i - 1] \in Nat /\ cut[i] \in Nat /\ cut[i - 1] <= cut[i]
                /\ cut[i] <= Len(resolved)
                /\ seqs[i] = [x \in 1..(cut[i] - cut[i - 1]) |->
                                 EndAt(cut[i - 1] + x)]
    <3> DEFINE r == start + i
    <3>1. i \in 0..len /\ i - 1 \in 0..len
      BY <2>4
    <3>2. /\ cut[i - 1] = Cut(resolved, KeysFrom(builder, r))
          /\ cut[i] = Cut(resolved, KeysTo(rows, builder, r))
          /\ seqs[i] = RawEnds(GoodFks(rows[r]))
      BY <2>4, <3>1
    <3>3. r \in 1..Len(rows)
      BY <2>4
    <3> HIDE DEF r, seqs, cut
    <3>4. LET a == Cut(resolved, KeysFrom(builder, r))
              z == Cut(resolved, KeysTo(rows, builder, r))
          IN  /\ a \in Nat /\ z \in Nat /\ a <= z /\ z <= Len(resolved)
              /\ RawEnds(GoodFks(rows[r]))
                    = [x \in 1..(z - a) |-> EndAt(a + x)]
      BY <1>1, <3>3, RowEnds
    <3> QED
      BY <3>2, <3>4
  <2>11. Len(seqs) = len /\ DOMAIN seqs = 1..len
    BY <2>4
  <2> HIDE DEF seqs, cut
  <2>12. Len(resolved) \in Nat
    <3>1. Ascends(resolved)
      BY <1>1, ResultKeys
    <3> QED
      BY <3>1 DEF Ascends
  <2>13. ASSUME NEW i \in 1..len
         PROVE  /\ seqs[i] \in Seq(S)
                /\ Len(seqs[i]) = cut[i] - cut[i - 1]
                /\ \A x \in 1..Len(seqs[i]) : seqs[i][x] = E[cut[i - 1] + x]
    <3> DEFINE a == cut[i - 1]
               z == cut[i]
    <3>1. /\ a \in Nat /\ z \in Nat /\ a <= z /\ z <= Len(resolved)
          /\ seqs[i] = [x \in 1..(z - a) |-> EndAt(a + x)]
      BY <2>10
    <3> HIDE DEF a, z
    <3>2. z - a \in Nat
      BY <3>1
    <3>3. \A x \in 1..(z - a) : a + x \in 1..Len(resolved)
      BY <2>12, <3>1
    <3>4. \A x \in 1..(z - a) : EndAt(a + x) \in S /\ E[a + x] = EndAt(a + x)
      BY <3>3
    <3> HIDE DEF S, E
    <3>5. seqs[i] \in Seq(S) /\ Len(seqs[i]) = z - a
      <4>1. seqs[i] \in [1..(z - a) -> S]
        BY <3>1, <3>4
      <4> QED
        BY <3>2, <4>1, FunctionIsList
    <3>6. \A x \in 1..Len(seqs[i]) : seqs[i][x] = E[a + x]
      BY <3>1, <3>4, <3>5
    <3> QED
      BY <3>5, <3>6 DEF a, z
  <2> HIDE DEF S, E
  <2>14. seqs \in Seq(Seq(S))
    <3>1. seqs = [i \in 1..len |-> seqs[i]]
      BY DEF seqs
    <3>2. \A i \in 1..len : seqs[i] \in Seq(S)
      BY <2>13
    <3>3. seqs \in [1..len -> Seq(S)]
      BY <3>1, <3>2
    <3> QED
      BY <2>4, <3>3, FunctionIsList
  <2>15. CutUp(seqs, cut)
    <3>1. \A i \in 0..len : i = 0 \/ i \in 1..len
      BY <2>4
    <3>2. 1 \in 1..len /\ 1 - 1 = 0
      BY <2>4
    <3>3. \A i \in 0..len : cut[i] \in Nat
      BY <2>10, <3>1, <3>2
    <3> QED
      BY <2>11, <2>13, <3>3 DEF CutUp
  <2>16. CutFrom(seqs, cut, E)
    BY <2>11, <2>13 DEF CutFrom
  <2>17. FlattenSeq(seqs) =
            [x \in 1..(cut[Len(seqs)] - cut[0]) |-> E[cut[0] + x]]
    BY <2>14, <2>15, <2>16, FlattenPieces
  <2>18. /\ cut[Len(seqs)] = Cut(resolved, Bound(v, len))
         /\ cut[0] = Cut(resolved, Bound(v, 0))
         /\ cut[0] \in Nat /\ cut[Len(seqs)] \in Nat
         /\ cut[Len(seqs)] <= Len(resolved)
    <3>1. 0 \in 0..len /\ len \in 0..len /\ len \in 1..len
          /\ 1 \in 1..len /\ 1 - 1 = 0
      BY <2>4
    <3>2. /\ cut[len] = Cut(resolved, Bound(v, len))
          /\ cut[0] = Cut(resolved, Bound(v, 0))
      BY <3>1 DEF cut
    <3> QED
      BY <2>10, <2>11, <3>1, <3>2
  <2>19. Ends(ForeignKeys(schema, t)) = FlattenSeq(seqs)
    <3> DEFINE a == cut[0]
               z == cut[Len(seqs)]
    <3>1. a \in Nat /\ z \in Nat /\ z <= Len(resolved)
      BY <2>18
    <3>2. Ends(ForeignKeys(schema, t)) = [x \in 1..(z - a) |-> EndAt(a + x)]
      BY <2>7, <2>18
    <3>3. FlattenSeq(seqs) = [x \in 1..(z - a) |-> E[a + x]]
      BY <2>17
    <3> HIDE DEF a, z
    <3>4. \A x \in 1..(z - a) : a + x \in 1..Len(resolved)
      BY <2>12, <3>1
    <3>5. \A x \in 1..(z - a) : E[a + x] = EndAt(a + x)
      BY <3>4 DEF E
    <3> QED
      BY <3>2, <3>3, <3>5
  <2> QED
    BY <2>8, <2>9, <2>19 DEF t, mates
<1>2. IInv /\ LinkInv /\ ResolveInv => (KeyCountsFit => ForeignKeysLeadHome)
  BY <1>1 DEF ForeignKeysLeadHome, AtDone
<1> QED
  BY <1>2, ResolveInductive, PTL

-----------------------------------------------------------------------------
(* Who refers to whom.                                                     *)

\* The foreign keys of a table are what is resolved of its rows' piece of the
\* pool.
LEMMA TableKeysAre ==
    ASSUME AtDone, KeyCountsFit, NEW t, NEW v, IsTable(t, v)
    PROVE  LET len == At(builder.tables, v).columns_len
               a == Cut(resolved, Bound(v, 0))
               z == Cut(resolved, Bound(v, len))
           IN  /\ DOMAIN ForeignKeys(schema, t) = 1..(z - a)
               /\ \A x \in 1..(z - a) :
                     ForeignKeys(schema, t)[x] = schema.foreign_key_pool[a + x]
<1> DEFINE len == At(builder.tables, v).columns_len
           all == Bound(v, len) - Bound(v, 0)
<1>1. /\ Bound(v, 0) \in Nat /\ all \in Nat /\ all < U16
      /\ Bound(v, 0) + all = Bound(v, len)
      /\ RangeOf(t).start = Compacted(resolved, Bound(v, 0), all).start
      /\ RangeOf(t).len = Compacted(resolved, Bound(v, 0), all).len
      /\ ForeignKeys(schema, t) = Within(schema.foreign_key_pool, RangeOf(t))
  BY RangeOfIs
<1> HIDE DEF all
<1>2. LET kept == Within(schema.foreign_key_pool, RangeOf(t))
          a == Cut(resolved, Bound(v, 0))
          z == Cut(resolved, Bound(v, 0) + all)
      IN  /\ a \in Nat /\ z \in Nat /\ a <= z /\ z <= Len(resolved)
          /\ DOMAIN kept = 1..(z - a)
          /\ \A x \in 1..(z - a) : kept[x] = schema.foreign_key_pool[a + x]
  BY <1>1, KeptAre
<1> QED
  BY <1>1, <1>2

\* The places of a table's piece of the pool are those of its rows' keys.
LEMMA PieceOfTable ==
    ASSUME AtDone, NEW v \in Tables(builder),
           NEW p, NEW r, NEW j, IsAt(rows, builder, p, r, j)
    PROVE  LET len == At(builder.tables, v).columns_len
           IN  /\ p \in Nat
               /\ rows[r].table = NameIn(builder, v) <=>
                     ~ p < Bound(v, 0) /\ p < Bound(v, len)
<1> DEFINE m == At(builder.tables, v)
           start == m.columns_start
           len == m.columns_len
<1>1. /\ rows \in Seq(Rows) /\ Len(rows) \in Nat
      /\ builder \in DatabaseSchemaBuilder
      /\ ColumnsLinked(rows, builder) /\ KeysLinked(rows, builder)
      /\ TablesLinked(rows, builder, builder.tables)
      /\ Len(builder.tables) \in Nat
  BY EndIs
<1>2. \A q \in 1..Len(rows) : /\ Len(rows[q].foreign_keys) \in Nat
                              /\ KeysFrom(builder, q) \in Nat
  BY <1>1, KeyTypes
<1>3. \A q, s \in 1..Len(rows) : q < s =>
         KeysTo(rows, builder, q) <= KeysFrom(builder, s)
  BY <1>1, <1>2, KeysAscend
<1>4. /\ start \in Nat /\ len \in Nat /\ len >= 1
      /\ \A i \in 1..len : start + i \in 1..Len(rows)
      /\ \A i \in 0..len : Bound(v, i) \in Nat
      /\ \A i \in 1..len :
            /\ Bound(v, i - 1) = KeysFrom(builder, start + i)
            /\ Bound(v, i) = KeysTo(rows, builder, start + i)
            /\ Bound(v, 0) <= Bound(v, i - 1)
            /\ Bound(v, i) <= Bound(v, len)
  BY BoundsAre
<1>5. \A q \in 1..Len(rows) :
         rows[q].table = NameIn(builder, v) <=> InTable(m, q)
  BY <1>1, TableAtIs
<1>6. r \in 1..Len(rows) /\ j \in 1..Len(rows[r].foreign_keys)
      /\ p = KeysFrom(builder, r) + j - 1
  BY DEF IsAt
<1>7. p \in Nat /\ KeysFrom(builder, r) <= p /\ p < KeysTo(rows, builder, r)
  <2> DEFINE from == KeysFrom(builder, r)
             n == Len(rows[r].foreign_keys)
  <2>1. from \in Nat /\ n \in Nat /\ j \in 1..n /\ p = from + j - 1
    BY <1>2, <1>6
  <2>2. KeysTo(rows, builder, r) = from + n
    BY DEF KeysTo
  <2> HIDE DEF from, n
  <2>3. p \in Nat /\ from <= p /\ p < KeysTo(rows, builder, r)
    BY <2>1, <2>2
  <2> QED
    BY <2>3 DEF from
<1>8. \A q \in 1..Len(rows) : KeysTo(rows, builder, q) \in Nat
  BY <1>2 DEF KeysTo
<1> HIDE DEF start, len
<1>9. /\ 1 \in 1..len /\ len \in 1..len /\ 0 \in 0..len /\ len \in 0..len
      /\ 1 - 1 = 0
      /\ start + 1 \in 1..Len(rows) /\ start + len \in 1..Len(rows)
  BY <1>4
<1>10. /\ Bound(v, 0) = KeysFrom(builder, start + 1)
       /\ Bound(v, len) = KeysTo(rows, builder, start + len)
       /\ Bound(v, 0) \in Nat /\ Bound(v, len) \in Nat
  BY <1>4, <1>9
<1>11. InTable(m, r) <=> start < r /\ r <= start + len
  BY DEF InTable, start, len
<1>12. ASSUME start < r, r <= start + len
       PROVE  ~ p < Bound(v, 0) /\ p < Bound(v, len)
  <2> DEFINE i == r - start
  <2>1. i \in 1..len /\ start + i = r /\ i \in 0..len /\ i - 1 \in 0..len
    BY <1>1, <1>4, <1>6, <1>12
  <2> HIDE DEF i
  <2>2. /\ Bound(v, 0) <= KeysFrom(builder, r)
        /\ KeysTo(rows, builder, r) <= Bound(v, len)
    BY <1>4, <2>1
  <2>3. KeysFrom(builder, r) \in Nat /\ KeysTo(rows, builder, r) \in Nat
    BY <1>2, <1>6, <1>8
  <2> QED
    BY <1>7, <1>10, <2>2, <2>3
<1>13. ASSUME ~ p < Bound(v, 0), p < Bound(v, len)
       PROVE  start < r /\ r <= start + len
  <2>1. KeysFrom(builder, r) \in Nat /\ KeysTo(rows, builder, r) \in Nat
    BY <1>2, <1>6, <1>8
  <2>2. r < start + 1 => KeysTo(rows, builder, r) <= Bound(v, 0)
    BY <1>3, <1>6, <1>9, <1>10
  <2>3. start + len < r => Bound(v, len) <= KeysFrom(builder, r)
    BY <1>3, <1>6, <1>9, <1>10
  <2>4. ~ KeysTo(rows, builder, r) <= Bound(v, 0)
    BY <1>7, <1>10, <1>13, <2>1
  <2>5. ~ Bound(v, len) <= KeysFrom(builder, r)
    BY <1>7, <1>10, <1>13, <2>1
  <2>6. r \in Int /\ start \in Nat /\ len \in Nat
    BY <1>4, <1>6
  <2> QED
    BY <2>2, <2>3, <2>4, <2>5, <2>6
<1> QED
  BY <1>5, <1>6, <1>7, <1>11, <1>12, <1>13 DEF len

\* A table has a key to another one just if one of its rows has one that
\* leads there.
LEMMA TableRefers ==
    ASSUME AtDone, KeyCountsFit, NEW v \in Tables(builder), NEW w \in Tables(builder),
           NEW t, t = Position(sorted, v)
    PROVE  (\E x \in DOMAIN ForeignKeys(schema, t) :
               ForeignKeys(schema, t)[x].table = Position(sorted, w))
           <=> Refers(rows, builder, Done(builder), v, w)
<1> DEFINE len == At(builder.tables, v).columns_len
           from == Bound(v, 0)
           to == Bound(v, len)
           a == Cut(resolved, from)
           z == Cut(resolved, to)
           keys == ForeignKeys(schema, t)
<1>1. IsTable(t, v)
  BY ResultTable
<1>2. /\ DOMAIN keys = 1..(z - a)
      /\ \A x \in 1..(z - a) : keys[x] = schema.foreign_key_pool[a + x]
  BY <1>1, TableKeysAre
<1>3. from \in Nat /\ to \in Nat /\ from <= to
  <2> DEFINE all == to - from
  <2>1. from \in Nat /\ to \in Nat /\ all \in Nat
    BY <1>1, RangeOfIs
  <2> HIDE DEF from, to
  <2> QED
    BY <2>1
<1>4. /\ Ascends(resolved)
      /\ \A k \in 1..Len(resolved) :
            /\ resolved[k].table \in Tables(builder)
            /\ resolved[k].pool_index \in Nat
            /\ schema.foreign_key_pool[k].table
                  = Position(sorted, resolved[k].table)
  BY ResultKeys
<1>5. Len(resolved) \in Nat
  BY <1>4 DEF Ascends
<1>6. \A s \in Tables(builder) : Position(sorted, s) = Position(sorted, w)
         => s = w
  <2> SUFFICES ASSUME NEW s \in Tables(builder),
                      Position(sorted, s) = Position(sorted, w)
               PROVE  s = w
    OBVIOUS
  <2>1. Found(NameIn(builder, s)) = Found(NameIn(builder, w))
    BY ResultTable
  <2>2. /\ sorted[Found(NameIn(builder, s)) + 1] = s
        /\ sorted[Found(NameIn(builder, w)) + 1] = w
    BY FoundIs
  <2> QED
    BY <2>1, <2>2
<1>7. ResolvedLinked(rows, builder, resolved)
  BY EndIs
<1> HIDE DEF from, to, keys
<1>8. /\ a \in Nat /\ z \in Nat /\ z <= Len(resolved)
      /\ \A k \in 1..Len(resolved) : resolved[k].pool_index < from <=> k <= a
      /\ \A k \in 1..Len(resolved) : resolved[k].pool_index < to <=> k <= z
  BY <1>3, <1>4, CutIs
<1> HIDE DEF a, z
<1>9. ASSUME NEW x \in DOMAIN keys, keys[x].table = Position(sorted, w)
      PROVE  Refers(rows, builder, Done(builder), v, w)
  <2> DEFINE k == a + x
             p == resolved[k].pool_index
  <2>1. x \in 1..(z - a)
    BY <1>2
  <2>2. k \in 1..Len(resolved) /\ ~ k <= a /\ k <= z
    BY <1>5, <1>8, <2>1
  <2>3. keys[x] = schema.foreign_key_pool[k]
    BY <1>2, <2>1
  <2> HIDE DEF k
  <2>4. resolved[k].table = w
    BY <1>4, <1>6, <1>9, <2>2, <2>3
  <2>5. /\ p \in Nat /\ ~ p < from /\ p < to /\ p < Done(builder)
        /\ ResolvedTo(rows, builder, p, resolved[k].table, resolved[k].column)
    BY <1>4, <1>7, <1>8, <2>2 DEF ResolvedLinked
  <2>6. PICK r \in Nat, j \in Nat : IsAt(rows, builder, p, r, j)
    BY <2>5 DEF ResolvedTo
  <2>7. /\ LeadsIn(rows, rows[r].foreign_keys[j])
        /\ NameIn(builder, resolved[k].table) = rows[r].foreign_keys[j].table
    BY <2>2, <2>6, EndIsTarget
  <2>8. rows[r].table = NameIn(builder, v)
    <3>1. rows[r].table = NameIn(builder, v) <=> ~ p < from /\ p < to
      BY <2>6, PieceOfTable DEF from, to
    <3> QED
      BY <2>5, <3>1
  <2>9. LinkAt(rows, builder, p, v, w)
    BY <2>4, <2>6, <2>7, <2>8 DEF LinkAt
  <2> QED
    BY <2>5, <2>9 DEF Refers
<1>10. ASSUME Refers(rows, builder, Done(builder), v, w)
       PROVE  \E x \in DOMAIN keys : keys[x].table = Position(sorted, w)
  <2>1. PICK p \in Nat : p < Done(builder) /\ LinkAt(rows, builder, p, v, w)
    BY <1>10 DEF Refers
  <2>2. PICK r \in Nat, j \in Nat :
           /\ IsAt(rows, builder, p, r, j)
           /\ rows[r].table = NameIn(builder, v)
           /\ rows[r].foreign_keys[j].table = NameIn(builder, w)
           /\ LeadsIn(rows, rows[r].foreign_keys[j])
    BY <2>1 DEF LinkAt
  <2>3. ~ p < from /\ p < to
    BY <2>2, PieceOfTable DEF from, to
  <2>4. PICK k \in 1..Len(resolved) : resolved[k].pool_index = p
    BY <1>7, <2>1, <2>2 DEF ResolvedLinked
  <2>5. ~ k <= a /\ k <= z
    BY <1>8, <2>3, <2>4
  <2>6. k - a \in 1..(z - a) /\ a + (k - a) = k
    BY <1>5, <1>8, <2>5
  <2>7. keys[k - a] = schema.foreign_key_pool[k]
    BY <1>2, <2>6
  <2>8. resolved[k].table = w
    <3>1. IsAt(rows, builder, resolved[k].pool_index, r, j)
      BY <2>2, <2>4
    <3>2. NameIn(builder, resolved[k].table) = rows[r].foreign_keys[j].table
      BY <3>1, EndIsTarget
    <3> QED
      BY <1>4, <2>2, <3>2, NamesAre
  <2>9. keys[k - a].table = Position(sorted, w)
    BY <1>4, <2>7, <2>8
  <2> QED
    BY <1>2, <2>6, <2>9
<1> QED
  BY <1>9, <1>10 DEF keys

\* t has a foreign key to u, in the result.
KeyLeads(t, u) ==
    \E x \in DOMAIN ForeignKeys(schema, t) : ForeignKeys(schema, t)[x].table = u

\* The references of the rows are the keys of the result.
LEMMA FoundRefers ==
    ASSUME AtDone, KeyCountsFit, NEW s \in Names, NEW u \in Names
    PROVE  /\ Found(s) \in Tables(schema)
           /\ Found(s) = Found(u) <=> s = u
           /\ RefersTo(s, u) <=> s # u /\ KeyLeads(Found(s), Found(u))
<1>1. PICK v \in Tables(builder) : NameIn(builder, v) = s
  BY NamesAre
<1>2. PICK w \in Tables(builder) : NameIn(builder, w) = u
  BY NamesAre
<1>3. /\ Found(s) \in Tables(schema) /\ sorted[Found(s) + 1] = v
      /\ sorted[Found(u) + 1] = w
  BY <1>1, <1>2, FoundIs
<1>4. Found(s) = Found(u) <=> s = u
  BY <1>1, <1>2, <1>3
<1>5. Position(sorted, v) = Found(s) /\ Position(sorted, w) = Found(u)
  BY <1>1, <1>2, ResultTable
<1>6. KeyLeads(Found(s), Found(u)) <=> Refers(rows, builder, Done(builder), v, w)
  <2>1. (\E x \in DOMAIN ForeignKeys(schema, Found(s)) :
            ForeignKeys(schema, Found(s))[x].table = Position(sorted, w))
        <=> Refers(rows, builder, Done(builder), v, w)
    BY <1>5, TableRefers
  <2> QED
    BY <1>5, <2>1 DEF KeyLeads
<1>7. RefersTo(s, u) <=> v # w /\ Refers(rows, builder, Done(builder), v, w)
  <2>1. Contains(graph[w], v) <=> RefersTo(s, u)
    BY <1>1, <1>2, GraphIs
  <2>2. GraphLinked(rows, builder, graph)
    BY EndIs
  <2>3. Contains(graph[w], v)
           <=> w # v /\ Refers(rows, builder, Done(builder), v, w)
    BY <2>2 DEF GraphLinked
  <2> QED
    BY <2>1, <2>3
<1>8. v # w <=> s # u
  BY <1>1, <1>2, <1>3
<1> QED
  BY <1>3, <1>4, <1>6, <1>7, <1>8

\* The result has no other tables, and no key leads elsewhere.
LEMMA AllAreFound ==
    ASSUME AtDone, KeyCountsFit, NEW t \in Tables(schema)
    PROVE  /\ \E s \in Names : Found(s) = t
           /\ \A x \in DOMAIN ForeignKeys(schema, t) :
                 \E s \in Names : ForeignKeys(schema, t)[x].table = Found(s)
<1>1. /\ sorted \in Seq(Tables(builder)) /\ Len(sorted) \in Nat
      /\ Len(schema.tables) = Len(sorted)
  BY EndIs
<1>2. t \in Nat /\ t + 1 \in 1..Len(sorted) /\ sorted[t + 1] \in Tables(builder)
  <2>1. t \in Nat /\ t + 1 \in 1..Len(sorted)
    BY <1>1 DEF Tables, Indices
  <2> QED
    BY <1>1, <2>1
<1> DEFINE v == sorted[t + 1]
           f == Found(NameIn(builder, v))
           a == Cut(resolved, Bound(v, 0))
           z == Cut(resolved, Bound(v, At(builder.tables, v).columns_len))
<1>3. v \in Tables(builder)
  BY <1>2
<1>4. f \in Nat /\ f + 1 \in 1..Len(sorted) /\ sorted[f + 1] = v
  BY <1>3, FoundIs
<1>5. f = t
  <2>1. /\ Times(sorted, v) = 1
        /\ Times(sorted, v) = Cardinality(Places1(sorted, v))
        /\ IsFiniteSet(Places1(sorted, v))
    BY <1>1, <1>3, TimesIs DEF AtDone, IInv, OrderInv
  <2>2. PICK x : Places1(sorted, v) = {x}
    BY <2>1, FS_Singleton
  <2>3. f + 1 \in Places1(sorted, v) /\ t + 1 \in Places1(sorted, v)
    BY <1>1, <1>2, <1>4 DEF Places1
  <2>4. f + 1 = t + 1
    BY <2>2, <2>3
  <2> QED
    BY <1>2, <1>4, <2>4
<1> HIDE DEF v
<1>6. NameIn(builder, v) \in Names
  BY <1>3, NamesAre
<1>7. IsTable(t, v)
  BY <1>3, <1>5, ResultTable
<1>8. ASSUME NEW x \in DOMAIN ForeignKeys(schema, t)
      PROVE  \E s \in Names : ForeignKeys(schema, t)[x].table = Found(s)
  <2>1. /\ DOMAIN ForeignKeys(schema, t) = 1..(z - a)
        /\ \A y \in 1..(z - a) :
              ForeignKeys(schema, t)[y] = schema.foreign_key_pool[a + y]
    BY <1>7, TableKeysAre
  <2>2. Ascends(resolved)
    BY ResultKeys
  <2>3. a \in Nat /\ z \in Nat /\ z <= Len(resolved) /\ Len(resolved) \in Nat
    <3> DEFINE from == Bound(v, 0)
               to == Bound(v, At(builder.tables, v).columns_len)
    <3>1. from \in Nat /\ to \in Nat
      BY <1>7, RangeOfIs
    <3> HIDE DEF from, to
    <3>2. /\ Cut(resolved, from) \in Nat /\ Cut(resolved, to) \in Nat
          /\ Cut(resolved, to) <= Len(resolved)
      BY <2>2, <3>1, CutIs
    <3> QED
      BY <2>2, <3>2 DEF Ascends, from, to
  <2> HIDE DEF a, z
  <2>4. a + x \in 1..Len(resolved)
    BY <2>1, <2>3
  <2> DEFINE w == resolved[a + x].table
  <2>5. /\ w \in Tables(builder)
        /\ schema.foreign_key_pool[a + x].table = Position(sorted, w)
    BY <2>4, ResultKeys
  <2> HIDE DEF w
  <2>6. Position(sorted, w) = Found(NameIn(builder, w))
        /\ NameIn(builder, w) \in Names
    BY <2>5, ResultTable, NamesAre
  <2> QED
    BY <2>1, <2>5, <2>6
<1> QED
  BY <1>5, <1>6, <1>8

\* Whatever rows the catalogue gives, the tables that the result of build
\* offers to start from are those that refer to no other table, and those to
\* end with the ones no other table refers to, again unless a table's count of
\* keys wraps.
THEOREM EndsComeBack == Spec => [](KeyCountsFit => EndsAreFound)
<1>1. ASSUME AtDone, KeyCountsFit
      PROVE  /\ IndependentTables(schema) = {Found(t) : t \in
                   {v \in Names : \A u \in Names : ~ RefersTo(v, u)}}
             /\ LeafTables(schema) = {Found(t) : t \in
                   {v \in Names : \A u \in Names : ~ RefersTo(u, v)}}
  <2>1. \A s, u \in Names :
           /\ Found(s) \in Tables(schema)
           /\ Found(s) = Found(u) <=> s = u
           /\ RefersTo(s, u) <=> s # u /\ KeyLeads(Found(s), Found(u))
    BY <1>1, FoundRefers
  <2>2. \A t \in Tables(schema) :
           /\ \E s \in Names : Found(s) = t
           /\ \A x \in DOMAIN ForeignKeys(schema, t) :
                 \E s \in Names : ForeignKeys(schema, t)[x].table = Found(s)
    BY <1>1, AllAreFound
  <2>3. ASSUME NEW t \in IndependentTables(schema)
        PROVE  \E v \in Names : t = Found(v) /\ \A u \in Names : ~ RefersTo(v, u)
    <3>1. t \in Tables(schema) /\ \A u : KeyLeads(t, u) => u = t
      BY DEF IndependentTables, KeyLeads
    <3> QED
      BY <2>1, <2>2, <3>1
  <2>4. ASSUME NEW v \in Names, \A u \in Names : ~ RefersTo(v, u)
        PROVE  Found(v) \in IndependentTables(schema)
    <3>1. \A x \in DOMAIN ForeignKeys(schema, Found(v)) :
             ForeignKeys(schema, Found(v))[x].table = Found(v)
      BY <2>1, <2>2, <2>4 DEF KeyLeads
    <3> QED
      BY <2>1, <3>1 DEF IndependentTables
  <2>5. ASSUME NEW t \in LeafTables(schema)
        PROVE  \E v \in Names : t = Found(v) /\ \A u \in Names : ~ RefersTo(u, v)
    <3>1. t \in Tables(schema) /\ \A u \in Tables(schema) :
             u # t => ~ KeyLeads(u, t)
      BY DEF LeafTables, KeyLeads
    <3> QED
      BY <2>1, <2>2, <3>1
  <2>6. ASSUME NEW v \in Names, \A u \in Names : ~ RefersTo(u, v)
        PROVE  Found(v) \in LeafTables(schema)
    <3>1. \A t \in Tables(schema) \ {Found(v)} : ~ KeyLeads(t, Found(v))
      BY <2>1, <2>2, <2>6
    <3> QED
      BY <2>1, <3>1 DEF LeafTables, KeyLeads
  <2> QED
    BY <2>3, <2>4, <2>5, <2>6
<1>2. IInv /\ LinkInv /\ ResolveInv => (KeyCountsFit => EndsAreFound)
  BY <1>1 DEF EndsAreFound, AtDone
<1> QED
  BY <1>2, ResolveInductive, PTL
=============================================================================
