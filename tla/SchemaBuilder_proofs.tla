------------------------ MODULE SchemaBuilder_proofs ------------------------
(***************************************************************************)
(* Proofs about module SchemaBuilder: the parts of the builder keep        *)
(* fitting together, Kahn's algorithm counts right, and the schema that    *)
(* build returns has every table once, in an order that follows the        *)
(* references, and is indexed by name.                                     *)
(***************************************************************************)
EXTENDS SchemaBuilder, Schema_proofs, SequenceTheorems

-----------------------------------------------------------------------------
(* Numbers, strings and symbols.                                           *)

LEMMA AsU16Fits ==
    ASSUME NEW n \in Nat
    PROVE  AsU16(n) \in Nat /\ AsU16(n) <= n /\ AsU16(n) < U16
<1>1. U16 \in Nat /\ U16 > 0
  BY U16Assumption
<1>2. n % U16 \in 0..(U16 - 1)
  BY <1>1
<1>3. n % U16 <= n
  <2>1. n \div U16 \in Nat /\ n = U16 * (n \div U16) + (n % U16)
    BY <1>1
  <2>2. U16 * (n \div U16) \in Nat
    BY <1>1, <2>1
  <2> QED
    BY <1>2, <2>1, <2>2
<1> QED
  BY <1>1, <1>2, <1>3 DEF AsU16

\* s is one of the strings.
Has(strings, s) == \E i \in 1..Len(strings) : strings[i] = s

LEMMA SymbolOfIs ==
    ASSUME NEW strings \in Seq(STRING), NEW s, Has(strings, s)
    PROVE  /\ SymbolOf(strings, s) \in Symbol
           /\ SymbolOf(strings, s) \in 1..Len(strings)
           /\ strings[SymbolOf(strings, s)] = s
<1>1. Len(strings) \in Nat /\ None \notin Nat
  BY NoneAssumption
<1>2. Position(strings, s) # None
  BY <1>1, PositionFinds DEF Has
<1>3. /\ Position(strings, s) \in 0..(Len(strings) - 1)
      /\ strings[Position(strings, s) + 1] = s
  BY <1>1, <1>2, PositionFinds DEF Indices, At
<1> QED
  BY <1>1, <1>3 DEF SymbolOf, Symbol

LEMMA InternKeeps ==
    ASSUME NEW strings \in Seq(STRING), NEW s \in STRING
    PROVE  /\ Intern(strings, s) \in Seq(STRING)
           /\ Has(Intern(strings, s), s)
           /\ \A x : Has(strings, x) => Has(Intern(strings, s), x)
<1>1. CASE Contains(strings, s)
  BY <1>1 DEF Intern, Contains, Has
<1>2. CASE ~ Contains(strings, s)
  <2> DEFINE more == Append(strings, s)
  <2>1. Intern(strings, s) = more
    BY <1>2 DEF Intern
  <2>2. /\ more \in Seq(STRING) /\ Len(more) = Len(strings) + 1
        /\ Len(strings) \in Nat
        /\ more[Len(more)] = s
        /\ \A i \in 1..Len(strings) : more[i] = strings[i]
    OBVIOUS
  <2> HIDE DEF more
  <2>3. Len(more) \in 1..Len(more)
        /\ \A i \in 1..Len(strings) : i \in 1..Len(more)
    BY <2>2
  <2> QED
    BY <2>1, <2>2, <2>3 DEF Has
<1> QED
  BY <1>1, <1>2

\* The function that InternAll defines.
LEMMA InternAllFunction ==
    ASSUME NEW strings \in Seq(STRING), NEW more \in Seq(STRING)
    PROVE  \E f : /\ f[0] = strings
                  /\ \A i \in 1..Len(more) : f[i] = Intern(f[i - 1], more[i])
                  /\ InternAll(strings, more) = f[Len(more)]
<1> DEFINE n == Len(more)
           T == Seq(STRING)
           H == [p \in T \X Nat |->
                    IF p[2] \in 1..n THEN Intern(p[1], more[p[2]]) ELSE p[1]]
<1>1. n \in Nat /\ \A i \in 1..n : more[i] \in STRING
  OBVIOUS
<1>2. H \in [T \X Nat -> T]
  <2> SUFFICES ASSUME NEW p \in T \X Nat
               PROVE  (IF p[2] \in 1..n THEN Intern(p[1], more[p[2]])
                       ELSE p[1]) \in T
    OBVIOUS
  <2>1. p[1] \in Seq(STRING)
    OBVIOUS
  <2>2. CASE p[2] \in 1..n
    <3>1. more[p[2]] \in STRING
      BY <1>1, <2>2
    <3> QED
      BY <2>1, <2>2, <3>1, InternKeeps
  <2> QED
    BY <2>1, <2>2
<1>3. PICK g \in [0..n -> T] : IsRecursive(g, n, strings, H)
  <2>1. strings \in T
    OBVIOUS
  <2> HIDE DEF n, T, H
  <2> QED
    BY <1>1, <1>2, <2>1, RecursiveFunction
<1>4. g[0] = strings
  BY <1>3 DEF IsRecursive
<1>5. ASSUME NEW i \in 1..n PROVE g[i] = Intern(g[i - 1], more[i])
  <2>1. i - 1 \in 0..n /\ i \in Nat
    BY <1>1
  <2>2. g[i - 1] \in T
    <3> HIDE DEF T, n
    <3> QED
      BY <2>1
  <2>3. <<g[i - 1], i>> \in T \X Nat
    BY <2>1, <2>2
  <2>4. H[<<g[i - 1], i>>] = Intern(g[i - 1], more[i])
    <3> HIDE DEF T
    <3> QED
      BY <2>3
  <2> HIDE DEF H
  <2> QED
    BY <1>3, <2>4 DEF IsRecursive
<1> DEFINE Body(f, i) == IF i = 0 THEN strings ELSE Intern(f[i - 1], more[i])
           Def(f) == f = [i \in 0..n |-> Body(f, i)]
<1>6. Def(g)
  <2>1. ASSUME NEW i \in 0..n PROVE g[i] = Body(g, i)
    <3>1. CASE i = 0
      BY <1>4, <3>1
    <3>2. CASE i # 0
      <4>1. i \in 1..n
        BY <1>1, <3>2
      <4> QED
        BY <1>5, <3>2, <4>1
    <3> QED
      BY <3>1, <3>2
  <2>2. g = [i \in 0..n |-> g[i]]
    OBVIOUS
  <2> QED
    BY <2>1, <2>2
<1> DEFINE f == CHOOSE h : Def(h)
<1>7. Def(f)
  <2> HIDE DEF Def
  <2> QED
    BY <1>6
<1>8. InternAll(strings, more) = f[n]
  BY DEF InternAll
<1>9. \A i \in 0..n : f[i] = Body(f, i)
  BY <1>7
<1> HIDE DEF f
<1>10. f[0] = strings
  BY <1>1, <1>9
<1>11. ASSUME NEW i \in 1..n PROVE f[i] = Intern(f[i - 1], more[i])
  <2>1. i \in 0..n /\ i # 0
    BY <1>1
  <2> QED
    BY <1>9, <2>1
<1> QED
  BY <1>8, <1>10, <1>11

\* All the strings are interned, and those that were there are kept.
LEMMA InternAllKeeps ==
    ASSUME NEW strings \in Seq(STRING), NEW more \in Seq(STRING)
    PROVE  /\ InternAll(strings, more) \in Seq(STRING)
           /\ \A x : Has(strings, x) \/ Has(more, x)
                     => Has(InternAll(strings, more), x)
<1> DEFINE n == Len(more)
<1>1. n \in Nat /\ \A i \in 1..n : more[i] \in STRING
  OBVIOUS
<1>2. PICK f : /\ f[0] = strings
               /\ \A i \in 1..n : f[i] = Intern(f[i - 1], more[i])
               /\ InternAll(strings, more) = f[n]
  BY InternAllFunction
<1> DEFINE Good(i) == /\ f[i] \in Seq(STRING)
                      /\ \A x : Has(strings, x) => Has(f[i], x)
                      /\ \A k \in 1..i : Has(f[i], more[k])
           P == {i \in 0..n : Good(i)}
<1>3. 0 \in P
  BY <1>1, <1>2
<1>4. ASSUME NEW i \in Nat, i < n, i \in P PROVE i + 1 \in P
  <2>1. Good(i)
    BY <1>4
  <2>2. i + 1 \in 1..n /\ i + 1 \in 0..n /\ (i + 1) - 1 = i
    BY <1>1, <1>4
  <2>3. f[i + 1] = Intern(f[i], more[i + 1]) /\ more[i + 1] \in STRING
    BY <1>1, <1>2, <2>2
  <2>4. /\ f[i + 1] \in Seq(STRING)
        /\ Has(f[i + 1], more[i + 1])
        /\ \A x : Has(f[i], x) => Has(f[i + 1], x)
    <3> DEFINE old == f[i]
               s == more[i + 1]
    <3>1. old \in Seq(STRING) /\ s \in STRING /\ f[i + 1] = Intern(old, s)
      BY <2>1, <2>3
    <3> HIDE DEF old, s
    <3>2. /\ Intern(old, s) \in Seq(STRING) /\ Has(Intern(old, s), s)
          /\ \A x : Has(old, x) => Has(Intern(old, s), x)
      BY <3>1, InternKeeps
    <3> QED
      BY <3>1, <3>2 DEF old, s
  <2>5. ASSUME NEW k \in 1..(i + 1) PROVE Has(f[i + 1], more[k])
    <3>1. k = i + 1 \/ k \in 1..i
      OBVIOUS
    <3> QED
      BY <2>1, <2>4, <3>1
  <2>6. Good(i + 1)
    BY <2>1, <2>4, <2>5
  <2> QED
    BY <2>2, <2>6
<1>5. Good(n)
  <2>1. \A i \in 0..n : i \in P
    <3> HIDE DEF P
    <3> QED
      BY <1>1, <1>3, <1>4, UpTo
  <2>2. n \in P
    <3> HIDE DEF P
    <3> QED
      BY <1>1, <2>1
  <2> HIDE DEF Good
  <2> QED
    BY <2>2
<1>6. ASSUME NEW x, Has(more, x) PROVE Has(f[n], x)
  <2>1. PICK k \in 1..n : more[k] = x
    BY <1>6 DEF Has
  <2> QED
    BY <1>5, <2>1
<1> QED
  BY <1>2, <1>5, <1>6

LEMMA HasConcat ==
    ASSUME NEW S, NEW s \in Seq(S), NEW t \in Seq(S)
    PROVE  /\ s \o t \in Seq(S)
           /\ \A x : Has(s, x) \/ Has(t, x) => Has(s \o t, x)
<1> DEFINE u == s \o t
<1>1. /\ u \in Seq(S)
      /\ \A i \in 1..Len(s) : i \in 1..Len(u) /\ u[i] = s[i]
      /\ \A j \in 1..Len(t) :
            Len(s) + j \in 1..Len(u) /\ u[Len(s) + j] = t[j]
  BY ConcatAt
<1> HIDE DEF u
<1>2. \A x : Has(s, x) => Has(u, x)
  BY <1>1 DEF Has
<1>3. \A x : Has(t, x) => Has(u, x)
  BY <1>1 DEF Has
<1> QED
  BY <1>1, <1>2, <1>3 DEF u

LEMMA HasSingle ==
    ASSUME NEW S, NEW x \in S
    PROVE  <<x>> \in Seq(S) /\ Has(<<x>>, x)
<1>1. <<x>> \in Seq(S) /\ Len(<<x>>) = 1 /\ <<x>>[1] = x
  OBVIOUS
<1> QED
  BY <1>1 DEF Has

LEMMA KindIs == ASSUME NEW type PROVE Kind(type) \in Range(ValueTypes)
<1>1. \A i \in 1..20 : ValueTypes[i] \in Range(ValueTypes)
  BY DEF Range, ValueTypes
<1>2. Kind(type) \in {ValueTypes[2], ValueTypes[3], ValueTypes[4],
         ValueTypes[5], ValueTypes[6], ValueTypes[7], ValueTypes[8],
         ValueTypes[9], ValueTypes[10], ValueTypes[11], ValueTypes[12],
         ValueTypes[13], ValueTypes[14], ValueTypes[15], ValueTypes[16],
         ValueTypes[17], ValueTypes[18], ValueTypes[19], ValueTypes[20]}
  BY DEF Kind, ValueTypes
<1> QED
  BY <1>1, <1>2

\* What Strings lists: every string that add_row looks up.
LEMMA StringsAre ==
    ASSUME NEW row \in Row
    PROVE  /\ Strings(row) \in Seq(STRING)
           /\ Has(Strings(row), row.table) /\ Has(Strings(row), row.column)
           /\ \A i \in DOMAIN row.checks : Has(Strings(row), row.checks[i])
           /\ \A i \in DOMAIN row.foreign_keys :
                 LET fk == row.foreign_keys[i]
                 IN  /\ Has(Strings(row), fk.constraint_name)
                     /\ Has(Strings(row), fk.namespace)
                     /\ Has(Strings(row), fk.table)
                     /\ Has(Strings(row), fk.column)
           /\ Kind(row.type) = "Custom" => Has(Strings(row), row.type)
           /\ row.default # None => Has(Strings(row), row.default)
<1> DEFINE fks == row.foreign_keys
           parts == [i \in DOMAIN fks |->
                       <<fks[i].constraint_name, fks[i].namespace,
                         fks[i].table, fks[i].column>>]
           a == <<row.table, row.column>>
           b == row.checks
           c == FlattenSeq(parts)
           d == IF Kind(row.type) = "Custom" THEN <<row.type>> ELSE <<>>
           e == IF row.default = None THEN <<>> ELSE <<row.default>>
<1>1. /\ row.table \in STRING /\ row.column \in STRING /\ row.type \in STRING
      /\ row.default \in {None} \cup STRING /\ row.checks \in Seq(STRING)
      /\ fks \in Seq(RawForeignKey)
  BY DEF Row
<1>2. \A i \in DOMAIN fks :
         /\ fks[i].constraint_name \in STRING /\ fks[i].namespace \in STRING
         /\ fks[i].table \in STRING /\ fks[i].column \in STRING
  <2>1. DOMAIN fks = 1..Len(fks) /\ Len(fks) \in Nat
    BY <1>1
  <2>2. \A i \in DOMAIN fks : fks[i] \in RawForeignKey
    <3> HIDE DEF fks
    <3> QED
      BY <1>1, <2>1
  <2> HIDE DEF fks
  <2> QED
    BY <2>2 DEF RawForeignKey
<1>3. parts \in Seq(Seq(STRING)) /\ Len(parts) = Len(fks)
      /\ DOMAIN fks = 1..Len(fks)
  <2>1. DOMAIN fks = 1..Len(fks) /\ Len(fks) \in Nat
    BY <1>1
  <2>2. ASSUME NEW i \in DOMAIN fks PROVE parts[i] \in Seq(STRING)
    <3> DEFINE u == fks[i].constraint_name
               v == fks[i].namespace
               w == fks[i].table
               x == fks[i].column
    <3>1. u \in STRING /\ v \in STRING /\ w \in STRING /\ x \in STRING
      BY <1>2
    <3>2. parts[i] = <<u, v, w, x>>
      OBVIOUS
    <3> HIDE DEF u, v, w, x
    <3>3. <<u, v, w, x>> \in Seq(STRING)
      BY <3>1
    <3> HIDE DEF parts
    <3> QED
      BY <3>2, <3>3
  <2>3. parts = [i \in 1..Len(fks) |-> parts[i]]
    BY <2>1
  <2> HIDE DEF parts
  <2> QED
    BY <2>1, <2>2, <2>3
<1>4. ASSUME NEW i \in DOMAIN fks
      PROVE  /\ Len(parts[i]) = 4
             /\ parts[i][1] = fks[i].constraint_name
             /\ parts[i][2] = fks[i].namespace
             /\ parts[i][3] = fks[i].table /\ parts[i][4] = fks[i].column
  <2> HIDE DEF fks
  <2>1. parts[i] = <<fks[i].constraint_name, fks[i].namespace, fks[i].table,
                     fks[i].column>>
    OBVIOUS
  <2> HIDE DEF parts
  <2> QED
    BY <2>1
<1> HIDE DEF parts, fks
<1>5. c \in Seq(STRING)
  BY <1>3, FlattenSeqIs
<1>6. \A i \in DOMAIN fks : \A j \in 1..4 : Has(c, parts[i][j])
  <2>1. PICK off : IsFlattened(c, off, parts)
    BY <1>3, FlattenSeqIs
  <2> HIDE DEF c
  <2> SUFFICES ASSUME NEW i \in 1..Len(parts), NEW j \in 1..Len(parts[i])
               PROVE  Has(c, parts[i][j])
    BY <1>3, <1>4
  <2> QED
    BY <2>1 DEF Has, IsFlattened
<1>7. \A i \in DOMAIN fks :
         /\ Has(c, fks[i].constraint_name) /\ Has(c, fks[i].namespace)
         /\ Has(c, fks[i].table) /\ Has(c, fks[i].column)
  <2> HIDE DEF c
  <2> QED
    BY <1>4, <1>6
<1>8. a \in Seq(STRING) /\ Has(a, row.table) /\ Has(a, row.column)
  BY <1>1 DEF Has
<1>9. \A i \in DOMAIN b : Has(b, b[i])
  BY <1>1 DEF Has
<1>10. d \in Seq(STRING) /\ (Kind(row.type) = "Custom" => Has(d, row.type))
  <2>1. CASE Kind(row.type) = "Custom"
    BY <1>1, <2>1, HasSingle
  <2>2. CASE Kind(row.type) # "Custom"
    BY <2>2
  <2> QED
    BY <2>1, <2>2
<1>11. e \in Seq(STRING) /\ (row.default # None => Has(e, row.default))
  <2>1. CASE row.default # None
    BY <1>1, <2>1, HasSingle
  <2>2. CASE row.default = None
    BY <2>2
  <2> QED
    BY <2>1, <2>2
<1>12. Strings(row) = (((a \o b) \o c) \o d) \o e
  BY DEF Strings, fks, parts
<1>13. b \in Seq(STRING)
  BY <1>1
<1> HIDE DEF a, b, c, d, e
<1> DEFINE ab == a \o b
           abc == ab \o c
           abcd == abc \o d
           all == abcd \o e
<1>14. ab \in Seq(STRING) /\ \A x : Has(a, x) \/ Has(b, x) => Has(ab, x)
  BY <1>8, <1>13, HasConcat
<1> HIDE DEF ab
<1>15. abc \in Seq(STRING) /\ \A x : Has(ab, x) \/ Has(c, x) => Has(abc, x)
  BY <1>14, <1>5, HasConcat
<1> HIDE DEF abc
<1>16. abcd \in Seq(STRING) /\ \A x : Has(abc, x) \/ Has(d, x) => Has(abcd, x)
  BY <1>15, <1>10, HasConcat
<1> HIDE DEF abcd
<1>17. all \in Seq(STRING) /\ \A x : Has(abcd, x) \/ Has(e, x) => Has(all, x)
  BY <1>16, <1>11, HasConcat
<1> HIDE DEF all
<1>18. Strings(row) = all
  BY <1>12 DEF ab, abc, abcd, all
<1>19. \A i \in DOMAIN row.checks : Has(all, row.checks[i])
  BY <1>9, <1>14, <1>15, <1>16, <1>17 DEF b
<1>20. \A i \in DOMAIN fks :
         /\ Has(all, fks[i].constraint_name) /\ Has(all, fks[i].namespace)
         /\ Has(all, fks[i].table) /\ Has(all, fks[i].column)
  BY <1>7, <1>15, <1>16, <1>17
<1> QED
  BY <1>8, <1>10, <1>11, <1>14, <1>15, <1>16, <1>17, <1>18, <1>19, <1>20
     DEF fks

-----------------------------------------------------------------------------
(* add_row.                                                                *)

\* The parts of the builder fit together.
ColumnsFit(b) ==
    \A i \in DOMAIN b.columns :
        /\ IsRange(b.constraint_pool, b.columns[i].constraints)
        /\ IsRange(b.foreign_key_pool, b.columns[i].foreign_keys)

StartsFit(b) ==
    /\ b.current_cols_start <= Len(b.columns)
    /\ b.current_fk_start <= Len(b.foreign_key_pool)

UnresolvedFit(b, tables) ==
    \A i \in DOMAIN b.unresolved :
        /\ b.unresolved[i].pool_index < Len(b.foreign_key_pool)
        /\ b.unresolved[i].source < tables

BuilderFits(b) ==
    /\ b \in DatabaseSchemaBuilder
    /\ ColumnsFit(b)
    /\ StartsFit(b)
    /\ UnresolvedFit(b, Len(b.tables) + 1)
    /\ b.unresolved # <<>> => b.current_table # None

LEMMA BuilderTypes ==
    ASSUME NEW b \in DatabaseSchemaBuilder
    PROVE  /\ b.interner \in Seq(STRING) /\ b.tables \in Seq(TableMeta)
           /\ b.columns \in Seq(Column) /\ b.column_names \in Seq(Symbol)
           /\ b.constraint_pool \in Seq(Symbol)
           /\ b.foreign_key_pool \in Seq(ForeignKey)
           /\ b.current_table \in {None} \cup Symbol
           /\ b.current_cols_start \in Nat /\ b.current_fk_start \in Nat
           /\ b.current_pk \in {None} \cup Nat
           /\ b.unresolved \in Seq(UnresolvedFk)
           /\ Len(b.interner) \in Nat /\ Len(b.tables) \in Nat
           /\ Len(b.columns) \in Nat /\ Len(b.foreign_key_pool) \in Nat
           /\ Len(b.constraint_pool) \in Nat
<1>1. /\ b.interner \in Seq(STRING) /\ b.tables \in Seq(TableMeta)
      /\ b.columns \in Seq(Column) /\ b.column_names \in Seq(Symbol)
      /\ b.constraint_pool \in Seq(Symbol)
      /\ b.foreign_key_pool \in Seq(ForeignKey)
      /\ b.current_table \in {None} \cup Symbol
      /\ b.current_cols_start \in Nat /\ b.current_fk_start \in Nat
      /\ b.current_pk \in {None} \cup Nat
      /\ b.unresolved \in Seq(UnresolvedFk)
  BY DEF DatabaseSchemaBuilder
<1>2. Len(b.interner) \in Nat /\ Len(b.tables) \in Nat
  BY <1>1, LenProperties
<1>3. Len(b.columns) \in Nat /\ Len(b.foreign_key_pool) \in Nat
  BY <1>1, LenProperties
<1>4. Len(b.constraint_pool) \in Nat
  BY <1>1, LenProperties
<1> QED
  BY <1>1, <1>2, <1>3, <1>4, Zenon

\* finish_table changes nothing but the tables, which it has one more of if
\* there is a current one.
LEMMA FinishTableIs ==
    ASSUME NEW b \in DatabaseSchemaBuilder, StartsFit(b)
    PROVE  \E ts \in Seq(TableMeta) :
              /\ FinishTable(b) = [b EXCEPT !.tables = ts]
              /\ Len(ts) = IF b.current_table = None THEN Len(b.tables)
                           ELSE Len(b.tables) + 1
<1>1. CASE b.current_table = None
  <2>1. FinishTable(b) = b
    BY <1>1 DEF FinishTable
  <2>2. b = [b EXCEPT !.tables = b.tables] /\ b.tables \in Seq(TableMeta)
    BY DEF DatabaseSchemaBuilder
  <2> QED
    BY <1>1, <2>1, <2>2
<1>2. CASE b.current_table # None
  <2> DEFINE t == [name |-> b.current_table,
                   columns_start |-> b.current_cols_start,
                   columns_len |-> AsU16(Len(b.columns) - b.current_cols_start),
                   primary_key |-> b.current_pk,
                   fk_start |-> b.current_fk_start,
                   fk_len |-> AsU16(Len(b.foreign_key_pool)
                                    - b.current_fk_start)]
             ts == Append(b.tables, t)
  <2>1. FinishTable(b) = [b EXCEPT !.tables = ts]
    BY <1>2 DEF FinishTable
  <2>2. /\ Len(b.columns) - b.current_cols_start \in Nat
        /\ Len(b.foreign_key_pool) - b.current_fk_start \in Nat
    BY BuilderTypes DEF StartsFit
  <2>3. /\ AsU16(Len(b.columns) - b.current_cols_start) \in Nat
        /\ AsU16(Len(b.foreign_key_pool) - b.current_fk_start) \in Nat
    BY <2>2, AsU16Fits
  <2>4. t \in TableMeta
    BY <1>2, <2>3, BuilderTypes DEF TableMeta
  <2>5. b.tables \in Seq(TableMeta)
    BY BuilderTypes
  <2> HIDE DEF t
  <2>6. ts \in Seq(TableMeta) /\ Len(ts) = Len(b.tables) + 1
    BY <2>4, <2>5
  <2> QED
    BY <1>2, <2>1, <2>6
<1> QED
  BY <1>1, <1>2

\* The rest of the builder is as it was.
SameFields(b, c) ==
    /\ c.interner = b.interner /\ c.columns = b.columns
    /\ c.column_names = b.column_names
    /\ c.constraint_pool = b.constraint_pool
    /\ c.foreign_key_pool = b.foreign_key_pool
    /\ c.unresolved = b.unresolved

LEMMA FinishTableKeeps ==
    ASSUME NEW b \in DatabaseSchemaBuilder, StartsFit(b)
    PROVE  /\ FinishTable(b) \in DatabaseSchemaBuilder
           /\ SameFields(b, FinishTable(b))
           /\ Len(FinishTable(b).tables) =
                 IF b.current_table = None THEN Len(b.tables)
                 ELSE Len(b.tables) + 1
<1>1. PICK ts \in Seq(TableMeta) :
              /\ FinishTable(b) = [b EXCEPT !.tables = ts]
              /\ Len(ts) = IF b.current_table = None THEN Len(b.tables)
                           ELSE Len(b.tables) + 1
  BY FinishTableIs
<1>2. [b EXCEPT !.tables = ts] \in DatabaseSchemaBuilder
  BY DEF DatabaseSchemaBuilder
<1>3. SameFields(b, [b EXCEPT !.tables = ts])
  BY DEF DatabaseSchemaBuilder, SameFields
<1>4. [b EXCEPT !.tables = ts].tables = ts
  BY DEF DatabaseSchemaBuilder
<1> QED
  BY <1>1, <1>2, <1>3, <1>4

LEMMA StartTableKeeps ==
    ASSUME NEW b, BuilderFits(b), NEW symbol \in Symbol
    PROVE  /\ BuilderFits(StartTable(b, symbol))
           /\ StartTable(b, symbol).current_table = symbol
           /\ StartTable(b, symbol).interner = b.interner
<1>1. CASE b.current_table = symbol
  BY <1>1 DEF StartTable
<1>2. CASE b.current_table # symbol
  <2> DEFINE f == FinishTable(b)
             c == [f EXCEPT !.current_table = symbol,
                            !.current_cols_start = Len(b.columns),
                            !.current_fk_start = Len(b.foreign_key_pool),
                            !.current_pk = None]
  <2>1. StartTable(b, symbol) = c
    BY <1>2 DEF StartTable
  <2>2. /\ f \in DatabaseSchemaBuilder /\ SameFields(b, f)
        /\ Len(f.tables) = IF b.current_table = None THEN Len(b.tables)
                           ELSE Len(b.tables) + 1
    BY FinishTableKeeps DEF BuilderFits
  <2>3. b \in DatabaseSchemaBuilder
    BY DEF BuilderFits
  <2>4. Len(b.columns) \in Nat /\ Len(b.foreign_key_pool) \in Nat
        /\ Len(b.tables) \in Nat
    BY <2>3, BuilderTypes
  <2> HIDE DEF f
  <2>5. c \in DatabaseSchemaBuilder
    BY <2>2, <2>4 DEF DatabaseSchemaBuilder
  <2>6. /\ c.current_table = symbol /\ c.tables = f.tables
        /\ c.current_cols_start = Len(b.columns)
        /\ c.current_fk_start = Len(b.foreign_key_pool)
    BY <2>2 DEF DatabaseSchemaBuilder
  <2>7. SameFields(f, c)
    BY <2>2 DEF DatabaseSchemaBuilder, SameFields
  <2> HIDE DEF c
  <2>8. SameFields(b, c)
    BY <2>2, <2>7 DEF SameFields
  <2>9. ColumnsFit(c)
    BY <2>8 DEF BuilderFits, ColumnsFit, SameFields
  <2>10. StartsFit(c)
    BY <2>4, <2>6, <2>8 DEF StartsFit, SameFields
  <2>11. UnresolvedFit(c, Len(c.tables) + 1)
    <3> SUFFICES ASSUME NEW i \in DOMAIN c.unresolved
                 PROVE  /\ c.unresolved[i].pool_index < Len(c.foreign_key_pool)
                        /\ c.unresolved[i].source < Len(c.tables) + 1
      BY DEF UnresolvedFit
    <3> DEFINE u == b.unresolved[i]
    <3>1. i \in DOMAIN b.unresolved /\ c.unresolved[i] = u
      BY <2>8 DEF SameFields
    <3>2. /\ u.pool_index < Len(b.foreign_key_pool)
          /\ u.source < Len(b.tables) + 1
      BY <3>1 DEF BuilderFits, UnresolvedFit
    <3>3. u.source \in Nat
      <4>1. b.unresolved \in Seq(UnresolvedFk)
        BY <2>3, BuilderTypes
      <4>2. u \in UnresolvedFk
        BY <3>1, <4>1
      <4> HIDE DEF u
      <4> QED
        BY <4>2 DEF UnresolvedFk
    <3> HIDE DEF u
    <3>4. Len(b.tables) <= Len(c.tables) /\ Len(c.tables) \in Nat
      BY <2>2, <2>4, <2>6
    <3>5. c.foreign_key_pool = b.foreign_key_pool
      BY <2>8 DEF SameFields
    <3> QED
      BY <2>4, <3>1, <3>2, <3>3, <3>4, <3>5
  <2>12. symbol # None
    BY NoneAssumption DEF Symbol
  <2>13. c.interner = b.interner
    BY <2>8 DEF SameFields
  <2>14. BuilderFits(c)
    BY <2>5, <2>6, <2>9, <2>10, <2>11, <2>12 DEF BuilderFits
  <2> QED
    BY <2>1, <2>6, <2>13, <2>14
<1> QED
  BY <1>1, <1>2

LEMMA FlagsAre ==
    ASSUME NEW x \in BOOLEAN, NEW y \in BOOLEAN, NEW z \in BOOLEAN
    PROVE  Flags(x, y, z) \in Nat
<1>1. Bit(x, 1) \in Nat /\ Bit(y, 2) \in Nat /\ Bit(z, 4) \in Nat
  BY DEF Bit
<1> QED
  BY <1>1 DEF Flags

\* A sequence that is made from another one.
LEMMA MappedSeq ==
    ASSUME NEW S, NEW s \in Seq(S), NEW T, NEW t, DOMAIN t = DOMAIN s,
           t = [i \in DOMAIN t |-> t[i]],
           \A i \in DOMAIN s : t[i] \in T
    PROVE  t \in Seq(T) /\ Len(t) = Len(s)
<1>1. DOMAIN s = 1..Len(s) /\ Len(s) \in Nat
  OBVIOUS
<1>2. t \in [1..Len(s) -> T]
  BY <1>1
<1> QED
  BY <1>1, <1>2

\* Every string of the row is interned.
RowIsInterned(strings, row) ==
    \A x : Has(Strings(row), x) => Has(strings, x)

LEMMA RowSymbols ==
    ASSUME NEW strings \in Seq(STRING), NEW row \in Row,
           RowIsInterned(strings, row)
    PROVE  /\ SymbolOf(strings, row.table) \in Symbol
           /\ SymbolOf(strings, row.column) \in Symbol
           /\ \A i \in DOMAIN row.checks :
                 SymbolOf(strings, row.checks[i]) \in Symbol
           /\ \A i \in DOMAIN row.foreign_keys :
                 LET fk == row.foreign_keys[i]
                 IN  /\ SymbolOf(strings, fk.constraint_name) \in Symbol
                     /\ SymbolOf(strings, fk.namespace) \in Symbol
                     /\ SymbolOf(strings, fk.table) \in Symbol
                     /\ SymbolOf(strings, fk.column) \in Symbol
           /\ Kind(row.type) = "Custom" =>
                 SymbolOf(strings, row.type) \in Symbol
           /\ row.default # None => SymbolOf(strings, row.default) \in Symbol
<1>1. \A x : Has(Strings(row), x) => SymbolOf(strings, x) \in Symbol
  BY SymbolOfIs DEF RowIsInterned
<1> QED
  BY <1>1, StringsAre

\* The column of a row.
ColumnOf(b, row) ==
    [name |-> SymbolOf(b.interner, row.column),
     data_type |-> IF Kind(row.type) = "Custom"
                   THEN [kind |-> Kind(row.type),
                         symbol |-> SymbolOf(b.interner, row.type)]
                   ELSE [kind |-> Kind(row.type)],
     default_value |-> IF row.default = None THEN None
                       ELSE SymbolOf(b.interner, row.default),
     flags |-> Flags(row.nullable, row.primary, row.unique),
     constraints |-> NextRange(b.constraint_pool, row.checks),
     foreign_keys |-> NextRange(b.foreign_key_pool, row.foreign_keys)]

ChecksOf(b, row) ==
    [i \in DOMAIN row.checks |-> SymbolOf(b.interner, row.checks[i])]

ForeignKeysOf(b, row) ==
    [i \in DOMAIN row.foreign_keys |->
        [constraint_name |->
            SymbolOf(b.interner, row.foreign_keys[i].constraint_name),
         namespace |-> SymbolOf(b.interner, row.foreign_keys[i].namespace),
         table |-> 0, column |-> 0,
         on_update |-> row.foreign_keys[i].on_update,
         on_delete |-> row.foreign_keys[i].on_delete]]

UnresolvedOf(b, row) ==
    [i \in DOMAIN row.foreign_keys |->
        [pool_index |-> Len(b.foreign_key_pool) + i - 1,
         source |-> Len(b.tables),
         table |-> SymbolOf(b.interner, row.foreign_keys[i].table),
         column |-> SymbolOf(b.interner, row.foreign_keys[i].column)]]

LEMMA AddColumnIs ==
    ASSUME NEW b \in DatabaseSchemaBuilder, NEW row \in Row
    PROVE  LET c == AddColumn(b, row)
           IN  /\ c = [b EXCEPT
                         !.columns = Append(b.columns, ColumnOf(b, row)),
                         !.column_names = Append(b.column_names,
                                                 ColumnOf(b, row).name),
                         !.constraint_pool = b.constraint_pool \o ChecksOf(b, row),
                         !.foreign_key_pool = b.foreign_key_pool
                                              \o ForeignKeysOf(b, row),
                         !.unresolved = b.unresolved \o UnresolvedOf(b, row),
                         !.current_pk = IF row.primary
                             THEN AsU16(Len(b.columns) - b.current_cols_start)
                             ELSE b.current_pk]
               /\ c.columns = Append(b.columns, ColumnOf(b, row))
               /\ c.constraint_pool = b.constraint_pool \o ChecksOf(b, row)
               /\ c.foreign_key_pool = b.foreign_key_pool
                                       \o ForeignKeysOf(b, row)
               /\ c.unresolved = b.unresolved \o UnresolvedOf(b, row)
               /\ c.interner = b.interner /\ c.tables = b.tables
               /\ c.current_table = b.current_table
               /\ c.current_cols_start = b.current_cols_start
               /\ c.current_fk_start = b.current_fk_start
<1> DEFINE col == ColumnOf(b, row)
           checks == ChecksOf(b, row)
           fks == ForeignKeysOf(b, row)
           us == UnresolvedOf(b, row)
           pk == IF row.primary
                 THEN AsU16(Len(b.columns) - b.current_cols_start)
                 ELSE b.current_pk
           c == [b EXCEPT !.columns = Append(b.columns, col),
                          !.column_names = Append(b.column_names, col.name),
                          !.constraint_pool = b.constraint_pool \o checks,
                          !.foreign_key_pool = b.foreign_key_pool \o fks,
                          !.unresolved = b.unresolved \o us,
                          !.current_pk = pk]
<1>1. AddColumn(b, row) = c
  BY DEF AddColumn, ColumnOf, ChecksOf, ForeignKeysOf, UnresolvedOf
<1> HIDE DEF col, checks, fks, us, pk
<1>2. /\ c.columns = Append(b.columns, col)
      /\ c.constraint_pool = b.constraint_pool \o checks
      /\ c.foreign_key_pool = b.foreign_key_pool \o fks
      /\ c.unresolved = b.unresolved \o us
      /\ c.interner = b.interner /\ c.tables = b.tables
      /\ c.current_table = b.current_table
      /\ c.current_cols_start = b.current_cols_start
      /\ c.current_fk_start = b.current_fk_start
  BY DEF DatabaseSchemaBuilder
<1> HIDE DEF c
<1> QED
  BY <1>1, <1>2 DEF c, col, checks, fks, us, pk

\* What add_row adds, by its types.
LEMMA AddedTypes ==
    ASSUME NEW b \in DatabaseSchemaBuilder, NEW row \in Row,
           RowIsInterned(b.interner, row)
    PROVE  /\ ColumnOf(b, row) \in Column
           /\ ChecksOf(b, row) \in Seq(Symbol)
           /\ Len(ChecksOf(b, row)) = Len(row.checks)
           /\ ForeignKeysOf(b, row) \in Seq(ForeignKey)
           /\ Len(ForeignKeysOf(b, row)) = Len(row.foreign_keys)
           /\ UnresolvedOf(b, row) \in Seq(UnresolvedFk)
           /\ Len(UnresolvedOf(b, row)) = Len(row.foreign_keys)
           /\ Len(row.checks) \in Nat /\ Len(row.foreign_keys) \in Nat
<1>1. /\ row.checks \in Seq(STRING)
      /\ row.foreign_keys \in Seq(RawForeignKey)
      /\ row.nullable \in BOOLEAN /\ row.primary \in BOOLEAN
      /\ row.unique \in BOOLEAN
  BY DEF Row
<1>2. b.interner \in Seq(STRING) /\ Len(b.constraint_pool) \in Nat
      /\ Len(b.foreign_key_pool) \in Nat /\ Len(b.tables) \in Nat
  BY BuilderTypes
<1>3. Len(row.checks) \in Nat /\ Len(row.foreign_keys) \in Nat
      /\ DOMAIN row.foreign_keys = 1..Len(row.foreign_keys)
  BY <1>1
<1>4. ColumnOf(b, row) \in Column
  <2> DEFINE kind == Kind(row.type)
             type == IF kind = "Custom"
                     THEN [kind |-> kind,
                           symbol |-> SymbolOf(b.interner, row.type)]
                     ELSE [kind |-> kind]
             default == IF row.default = None THEN None
                        ELSE SymbolOf(b.interner, row.default)
             flags == Flags(row.nullable, row.primary, row.unique)
             cs == NextRange(b.constraint_pool, row.checks)
             fs == NextRange(b.foreign_key_pool, row.foreign_keys)
             name == SymbolOf(b.interner, row.column)
  <2>1. type \in ValueType
    <3>1. kind \in Range(ValueTypes)
      BY KindIs
    <3>2. kind = "Custom" => SymbolOf(b.interner, row.type) \in Symbol
      BY <1>2, RowSymbols
    <3> HIDE DEF kind
    <3>3. CASE kind = "Custom"
      BY <3>2, <3>3 DEF ValueType
    <3>4. CASE kind # "Custom"
      BY <3>1, <3>4 DEF ValueType
    <3> QED
      BY <3>3, <3>4
  <2>2. default \in {None} \cup Symbol
    BY <1>2, RowSymbols
  <2>3. flags \in Nat
    BY <1>1, FlagsAre
  <2>4. cs \in PoolRanges /\ fs \in PoolRanges
    BY <1>2, <1>3, AsU16Fits DEF NextRange, PoolRange, PoolRanges
  <2>5. name \in Symbol
    BY <1>2, RowSymbols
  <2>6. ColumnOf(b, row) =
           [name |-> name, data_type |-> type, default_value |-> default,
            flags |-> flags, constraints |-> cs, foreign_keys |-> fs]
    BY DEF ColumnOf
  <2> HIDE DEF type, default, flags, cs, fs, name
  <2> QED
    BY <2>1, <2>2, <2>3, <2>4, <2>5, <2>6 DEF Column
<1>5. ChecksOf(b, row) \in Seq(Symbol) /\ Len(ChecksOf(b, row)) = Len(row.checks)
  <2> DEFINE t == ChecksOf(b, row)
  <2>1. DOMAIN t = DOMAIN row.checks /\ t = [i \in DOMAIN t |-> t[i]]
    BY DEF ChecksOf
  <2>2. \A i \in DOMAIN row.checks : t[i] \in Symbol
    BY <1>2, RowSymbols DEF ChecksOf
  <2> HIDE DEF t
  <2>3. t \in Seq(Symbol) /\ Len(t) = Len(row.checks)
    BY <1>1, <2>1, <2>2, MappedSeq
  <2> QED
    BY <2>3 DEF t
<1>6. /\ ForeignKeysOf(b, row) \in Seq(ForeignKey)
      /\ Len(ForeignKeysOf(b, row)) = Len(row.foreign_keys)
  <2> DEFINE t == ForeignKeysOf(b, row)
  <2>1. DOMAIN t = DOMAIN row.foreign_keys /\ t = [i \in DOMAIN t |-> t[i]]
    BY DEF ForeignKeysOf
  <2>2. ASSUME NEW i \in DOMAIN row.foreign_keys PROVE t[i] \in ForeignKey
    <3> DEFINE fk == row.foreign_keys[i]
               x == SymbolOf(b.interner, fk.constraint_name)
               y == SymbolOf(b.interner, fk.namespace)
    <3>1. x \in Symbol /\ y \in Symbol
      BY <1>2, RowSymbols
    <3>2. fk \in RawForeignKey
      BY <1>1, <1>3
    <3>3. t[i] = [constraint_name |-> x, namespace |-> y, table |-> 0,
                  column |-> 0, on_update |-> fk.on_update,
                  on_delete |-> fk.on_delete]
      BY DEF ForeignKeysOf
    <3> HIDE DEF fk, x, y, t
    <3>4. fk.on_update \in Range(Actions) /\ fk.on_delete \in Range(Actions)
      BY <3>2 DEF RawForeignKey
    <3> QED
      BY <3>1, <3>3, <3>4 DEF ForeignKey
  <2> HIDE DEF t
  <2>3. t \in Seq(ForeignKey) /\ Len(t) = Len(row.foreign_keys)
    BY <1>1, <2>1, <2>2, MappedSeq
  <2> QED
    BY <2>3 DEF t
<1>7. /\ UnresolvedOf(b, row) \in Seq(UnresolvedFk)
      /\ Len(UnresolvedOf(b, row)) = Len(row.foreign_keys)
  <2> DEFINE t == UnresolvedOf(b, row)
  <2>1. DOMAIN t = DOMAIN row.foreign_keys /\ t = [i \in DOMAIN t |-> t[i]]
    BY DEF UnresolvedOf
  <2>2. ASSUME NEW i \in DOMAIN row.foreign_keys PROVE t[i] \in UnresolvedFk
    <3> DEFINE fk == row.foreign_keys[i]
               x == SymbolOf(b.interner, fk.table)
               y == SymbolOf(b.interner, fk.column)
               p == Len(b.foreign_key_pool) + i - 1
    <3>1. x \in Symbol /\ y \in Symbol
      BY <1>2, RowSymbols
    <3>2. p \in Nat
      BY <1>2, <1>3
    <3>3. t[i] = [pool_index |-> p, source |-> Len(b.tables), table |-> x,
                  column |-> y]
      BY DEF UnresolvedOf
    <3> HIDE DEF fk, x, y, p, t
    <3> QED
      BY <1>2, <3>1, <3>2, <3>3 DEF UnresolvedFk
  <2> HIDE DEF t
  <2>3. t \in Seq(UnresolvedFk) /\ Len(t) = Len(row.foreign_keys)
    BY <1>1, <2>1, <2>2, MappedSeq
  <2> QED
    BY <2>3 DEF t
<1> QED
  BY <1>3, <1>4, <1>5, <1>6, <1>7

\* A range stays one when its pool grows.
LEMMA RangeStays ==
    ASSUME NEW pool, NEW more, Len(pool) \in Nat, Len(more) \in Nat,
           Len(pool) <= Len(more), NEW range \in PoolRanges,
           IsRange(pool, range)
    PROVE  IsRange(more, range)
BY DEF IsRange, PoolRanges

LEMMA NextRangeFits ==
    ASSUME NEW pool, NEW added, NEW more, Len(pool) \in Nat,
           Len(added) \in Nat, Len(more) = Len(pool) + Len(added)
    PROVE  IsRange(more, NextRange(pool, added))
<1>1. AsU16(Len(added)) \in Nat /\ AsU16(Len(added)) <= Len(added)
  BY AsU16Fits
<1>2. /\ NextRange(pool, added).start = Len(pool)
      /\ NextRange(pool, added).len = AsU16(Len(added))
  BY DEF NextRange, PoolRange
<1> QED
  BY <1>1, <1>2 DEF IsRange

LEMMA ConcatLen ==
    ASSUME NEW S, NEW s \in Seq(S), NEW t \in Seq(S), NEW u, u = s \o t
    PROVE  /\ Len(s) \in Nat /\ Len(t) \in Nat
           /\ Len(u) = Len(s) + Len(t)
OBVIOUS

LEMMA AddColumnKeeps ==
    ASSUME NEW b, BuilderFits(b), b.current_table # None, NEW row \in Row,
           RowIsInterned(b.interner, row)
    PROVE  BuilderFits(AddColumn(b, row))
<1> DEFINE c == AddColumn(b, row)
           col == ColumnOf(b, row)
           checks == ChecksOf(b, row)
           fks == ForeignKeysOf(b, row)
           us == UnresolvedOf(b, row)
           pk == IF row.primary
                 THEN AsU16(Len(b.columns) - b.current_cols_start)
                 ELSE b.current_pk
<1>1. b \in DatabaseSchemaBuilder
  BY DEF BuilderFits
<1>2. /\ c = [b EXCEPT !.columns = Append(b.columns, col),
                       !.column_names = Append(b.column_names, col.name),
                       !.constraint_pool = b.constraint_pool \o checks,
                       !.foreign_key_pool = b.foreign_key_pool \o fks,
                       !.unresolved = b.unresolved \o us,
                       !.current_pk = pk]
      /\ c.columns = Append(b.columns, col)
      /\ c.constraint_pool = b.constraint_pool \o checks
      /\ c.foreign_key_pool = b.foreign_key_pool \o fks
      /\ c.unresolved = b.unresolved \o us
      /\ c.tables = b.tables
      /\ c.current_table = b.current_table
      /\ c.current_cols_start = b.current_cols_start
      /\ c.current_fk_start = b.current_fk_start
  BY <1>1, AddColumnIs
<1>3. /\ col \in Column
      /\ checks \in Seq(Symbol) /\ Len(checks) = Len(row.checks)
      /\ fks \in Seq(ForeignKey) /\ Len(fks) = Len(row.foreign_keys)
      /\ us \in Seq(UnresolvedFk) /\ Len(us) = Len(row.foreign_keys)
      /\ Len(row.checks) \in Nat /\ Len(row.foreign_keys) \in Nat
  BY <1>1, AddedTypes
<1>4. col.name \in Symbol
  BY <1>3 DEF Column
<1>5. Len(b.columns) - b.current_cols_start \in Nat
  BY <1>1, BuilderTypes DEF BuilderFits, StartsFit
<1>6. pk \in {None} \cup Nat
  BY <1>1, <1>5, AsU16Fits, BuilderTypes
<1>7. /\ b.columns \in Seq(Column) /\ b.column_names \in Seq(Symbol)
      /\ b.constraint_pool \in Seq(Symbol)
      /\ b.foreign_key_pool \in Seq(ForeignKey)
      /\ b.unresolved \in Seq(UnresolvedFk)
      /\ Len(b.constraint_pool) \in Nat /\ Len(b.foreign_key_pool) \in Nat
      /\ b.current_cols_start \in Nat /\ b.current_fk_start \in Nat
      /\ Len(b.tables) \in Nat
  BY <1>1, BuilderTypes
<1>8. /\ col.constraints = NextRange(b.constraint_pool, row.checks)
      /\ col.foreign_keys = NextRange(b.foreign_key_pool, row.foreign_keys)
  BY DEF ColumnOf
<1>9. \A i \in 1..Len(us) :
         /\ us[i].pool_index = Len(b.foreign_key_pool) + i - 1
         /\ us[i].source = Len(b.tables)
  <2>1. DOMAIN us = 1..Len(us)
    BY <1>3
  <2>2. DOMAIN us = DOMAIN row.foreign_keys
    BY DEF UnresolvedOf
  <2> QED
    BY <2>1, <2>2 DEF UnresolvedOf
<1> HIDE DEF col, checks, fks, us, pk
<1>10. /\ Append(b.columns, col) \in Seq(Column)
       /\ Append(b.column_names, col.name) \in Seq(Symbol)
       /\ b.constraint_pool \o checks \in Seq(Symbol)
       /\ b.foreign_key_pool \o fks \in Seq(ForeignKey)
       /\ b.unresolved \o us \in Seq(UnresolvedFk)
  BY <1>3, <1>4, <1>7
<1>11. c \in DatabaseSchemaBuilder
  <2> DEFINE v1 == Append(b.columns, col)
             v2 == Append(b.column_names, col.name)
             v3 == b.constraint_pool \o checks
             v4 == b.foreign_key_pool \o fks
             v5 == b.unresolved \o us
  <2>1. c = [b EXCEPT !.columns = v1, !.column_names = v2,
                      !.constraint_pool = v3, !.foreign_key_pool = v4,
                      !.unresolved = v5, !.current_pk = pk]
    BY <1>2
  <2>2. /\ v1 \in Seq(Column) /\ v2 \in Seq(Symbol) /\ v3 \in Seq(Symbol)
        /\ v4 \in Seq(ForeignKey) /\ v5 \in Seq(UnresolvedFk)
    BY <1>10
  <2> HIDE DEF c, v1, v2, v3, v4, v5
  <2> QED
    BY <1>1, <1>6, <2>1, <2>2 DEF DatabaseSchemaBuilder
<1> HIDE DEF c
<1> DEFINE cols == b.columns
           pool1 == b.constraint_pool
           pool2 == b.foreign_key_pool
           old == b.unresolved
           cols_ == c.columns
           pool1_ == c.constraint_pool
           pool2_ == c.foreign_key_pool
           new == c.unresolved
           n1 == Len(row.checks)
           n2 == Len(row.foreign_keys)
           nt == Len(b.tables)
<1>12. /\ cols \in Seq(Column) /\ col \in Column /\ cols_ = Append(cols, col)
       /\ pool1 \in Seq(Symbol) /\ checks \in Seq(Symbol)
       /\ pool1_ = pool1 \o checks /\ Len(checks) = n1
       /\ pool2 \in Seq(ForeignKey) /\ fks \in Seq(ForeignKey)
       /\ pool2_ = pool2 \o fks /\ Len(fks) = n2
       /\ old \in Seq(UnresolvedFk) /\ us \in Seq(UnresolvedFk)
       /\ new = old \o us /\ Len(us) = n2
       /\ n1 \in Nat /\ n2 \in Nat /\ nt \in Nat
  BY <1>2, <1>3, <1>7
<1>13. /\ \A i \in DOMAIN cols : /\ IsRange(pool1, cols[i].constraints)
                                 /\ IsRange(pool2, cols[i].foreign_keys)
       /\ \A i \in DOMAIN old : /\ old[i].pool_index < Len(pool2)
                                /\ old[i].source < nt + 1
       /\ b.current_cols_start <= Len(cols)
       /\ b.current_fk_start <= Len(pool2)
  BY DEF BuilderFits, ColumnsFit, StartsFit, UnresolvedFit
<1>14. /\ \A i \in 1..Len(us) : /\ us[i].pool_index = Len(pool2) + i - 1
                                /\ us[i].source = nt
       /\ col.constraints = NextRange(pool1, row.checks)
       /\ col.foreign_keys = NextRange(pool2, row.foreign_keys)
  BY <1>8, <1>9
<1>15. /\ ColumnsFit(c) <=> \A i \in DOMAIN cols_ :
              /\ IsRange(pool1_, cols_[i].constraints)
              /\ IsRange(pool2_, cols_[i].foreign_keys)
       /\ UnresolvedFit(c, Len(c.tables) + 1) <=> \A i \in DOMAIN new :
              new[i].pool_index < Len(pool2_) /\ new[i].source < nt + 1
       /\ StartsFit(c) <=> /\ b.current_cols_start <= Len(cols_)
                          /\ b.current_fk_start <= Len(pool2_)
  BY <1>2 DEF ColumnsFit, UnresolvedFit, StartsFit
<1> HIDE DEF cols, pool1, pool2, old, cols_, pool1_, pool2_, new, nt
<1>18. /\ Len(cols) \in Nat /\ Len(pool1) \in Nat /\ Len(pool2) \in Nat
       /\ Len(cols_) = Len(cols) + 1
       /\ Len(pool1_) = Len(pool1) + n1 /\ Len(pool2_) = Len(pool2) + n2
  <2> HIDE DEF n1, n2
  <2>1. Len(cols) \in Nat /\ Len(cols_) = Len(cols) + 1
    BY <1>12
  <2>2. Len(pool1) \in Nat /\ Len(pool1_) = Len(pool1) + n1
    <3>1. /\ pool1 \in Seq(Symbol) /\ checks \in Seq(Symbol)
          /\ pool1_ = pool1 \o checks /\ Len(checks) = n1
      BY <1>12
    <3>2. Len(pool1) \in Nat /\ Len(pool1_) = Len(pool1) + Len(checks)
      BY <3>1, ConcatLen
    <3> QED
      BY <3>1, <3>2
  <2>3. Len(pool2) \in Nat /\ Len(pool2_) = Len(pool2) + n2
    <3>1. /\ pool2 \in Seq(ForeignKey) /\ fks \in Seq(ForeignKey)
          /\ pool2_ = pool2 \o fks /\ Len(fks) = n2
      BY <1>12
    <3>2. Len(pool2) \in Nat /\ Len(pool2_) = Len(pool2) + Len(fks)
      BY <3>1, ConcatLen
    <3> QED
      BY <3>1, <3>2
  <2> QED
    BY <2>1, <2>2, <2>3
<1>19. ColumnsFit(c)
  <2> SUFFICES ASSUME NEW i \in DOMAIN cols_
               PROVE  /\ IsRange(pool1_, cols_[i].constraints)
                      /\ IsRange(pool2_, cols_[i].foreign_keys)
    BY <1>15
  <2>1. CASE i \in DOMAIN cols
    <3> DEFINE d == cols[i]
    <3>1. cols_[i] = d /\ d \in Column
      BY <1>12, <2>1
    <3>2. IsRange(pool1, d.constraints) /\ IsRange(pool2, d.foreign_keys)
      BY <1>13, <2>1
    <3> HIDE DEF d
    <3>3. d.constraints \in PoolRanges /\ d.foreign_keys \in PoolRanges
      BY <3>1 DEF Column
    <3>4. /\ Len(pool1) <= Len(pool1_) /\ Len(pool2) <= Len(pool2_)
          /\ Len(pool1_) \in Nat /\ Len(pool2_) \in Nat
      <4> HIDE DEF n1, n2
      <4> QED
        BY <1>12, <1>18
    <3> QED
      BY <1>18, <3>1, <3>2, <3>3, <3>4, RangeStays
  <2>2. CASE i \notin DOMAIN cols
    <3>1. cols_[i] = col
      BY <1>12, <2>2
    <3> QED
      BY <1>12, <1>14, <1>18, <3>1, NextRangeFits
  <2> QED
    BY <2>1, <2>2
<1> HIDE DEF n1, n2
<1>20. StartsFit(c)
  BY SMTT(30), <1>7, <1>12, <1>13, <1>15, <1>18
<1>21. UnresolvedFit(c, Len(c.tables) + 1)
  <2> DEFINE n == Len(old)
  <2> SUFFICES ASSUME NEW i \in DOMAIN new
               PROVE  new[i].pool_index < Len(pool2_) /\ new[i].source < nt + 1
    BY <1>15
  <2>3. i \in 1..(n + Len(us)) /\ n \in Nat /\ Len(us) \in Nat
    BY <1>12
  <2>4. CASE i <= n
    <3>1. i \in DOMAIN old
      BY <1>12, <2>3, <2>4
    <3> DEFINE u == old[i]
    <3>2. new[i] = u /\ u \in UnresolvedFk
      BY <1>12, <3>1
    <3>4. u.pool_index < Len(pool2) /\ u.source < nt + 1
      BY <1>13, <3>1
    <3> HIDE DEF u
    <3>3. u.pool_index \in Nat
      BY <3>2 DEF UnresolvedFk
    <3> QED
      BY SMTT(30), <1>12, <1>18, <3>2, <3>3, <3>4
  <2>5. CASE i > n
    <3> DEFINE k == i - n
               u == us[k]
    <3>1. k \in 1..Len(us) /\ i = n + k
      BY <2>3, <2>5
    <3> HIDE DEF k
    <3>2. new[i] = u
      BY <1>12, <3>1, ConcatAt
    <3>3. u.pool_index = Len(pool2) + k - 1 /\ u.source = nt
      BY <1>14, <3>1
    <3>4. k \in 1..n2
      BY <1>12, <3>1
    <3> HIDE DEF u
    <3> QED
      BY <1>12, <1>18, <3>2, <3>3, <3>4
  <2> QED
    BY <2>3, <2>4, <2>5
<1>16. c.current_table # None
  BY <1>2
<1>17. BuilderFits(c)
  BY <1>11, <1>16, <1>19, <1>20, <1>21 DEF BuilderFits
<1> QED
  BY <1>17 DEF c

LEMMA WithRowKeeps ==
    ASSUME NEW b, BuilderFits(b), NEW row \in Row
    PROVE  /\ BuilderFits(WithRow(b, row))
           /\ WithRow(b, row).current_table # None
<1> DEFINE strings == InternAll(b.interner, Strings(row))
           i == [b EXCEPT !.interner = strings]
           symbol == SymbolOf(strings, row.table)
           s == StartTable(i, symbol)
<1>1. b \in DatabaseSchemaBuilder /\ b.interner \in Seq(STRING)
  BY BuilderTypes DEF BuilderFits
<1>2. Strings(row) \in Seq(STRING)
  BY StringsAre
<1>3. strings \in Seq(STRING) /\ RowIsInterned(strings, row)
  BY <1>1, <1>2, InternAllKeeps DEF RowIsInterned
<1>4. symbol \in Symbol
  BY <1>3, RowSymbols
<1>5. WithRow(b, row) = AddColumn(s, row)
  BY DEF WithRow
<1> HIDE DEF strings, symbol
<1>6. /\ i \in DatabaseSchemaBuilder /\ i.interner = strings
      /\ i.tables = b.tables /\ i.columns = b.columns
      /\ i.constraint_pool = b.constraint_pool
      /\ i.foreign_key_pool = b.foreign_key_pool
      /\ i.unresolved = b.unresolved /\ i.current_table = b.current_table
      /\ i.current_cols_start = b.current_cols_start
      /\ i.current_fk_start = b.current_fk_start
  BY <1>1, <1>3 DEF DatabaseSchemaBuilder
<1> HIDE DEF i
<1>7. BuilderFits(i)
  BY <1>6 DEF BuilderFits, ColumnsFit, StartsFit, UnresolvedFit
<1>8. BuilderFits(s) /\ s.current_table = symbol /\ s.interner = strings
  BY <1>4, <1>6, <1>7, StartTableKeeps
<1> HIDE DEF s
<1>9. s.current_table # None
  BY <1>4, <1>8, NoneAssumption DEF Symbol
<1>10. BuilderFits(AddColumn(s, row))
  BY <1>3, <1>8, <1>9, AddColumnKeeps
<1>11. s \in DatabaseSchemaBuilder
  BY <1>8 DEF BuilderFits
<1>12. AddColumn(s, row).current_table = s.current_table
  BY <1>11, AddColumnIs
<1> QED
  BY <1>5, <1>9, <1>10, <1>12

-----------------------------------------------------------------------------
(* Counting.                                                               *)

Places1(s, v) == {i \in DOMAIN s : s[i] = v}

LEMMA TimesIs ==
    ASSUME NEW S, NEW s \in Seq(S), NEW v
    PROVE  /\ IsFiniteSet(Places1(s, v))
           /\ Times(s, v) = Cardinality(Places1(s, v))
           /\ Times(s, v) \in Nat
           /\ Times(s, v) = 0 <=> ~ Contains(s, v)
<1>1. Len(s) \in Nat /\ DOMAIN s = 1..Len(s)
  OBVIOUS
<1>2. IsFiniteSet(1..Len(s))
  BY <1>1, FS_Interval
<1>3. Places1(s, v) \in SUBSET (1..Len(s))
  BY <1>1 DEF Places1
<1>4. IsFiniteSet(Places1(s, v))
  BY <1>2, <1>3, FS_Subset
<1>5. Times(s, v) = Cardinality(Places1(s, v))
  BY DEF Times, Places1
<1>6. Cardinality(Places1(s, v)) \in Nat
  BY <1>4, FS_CardinalityType
<1>7. Cardinality(Places1(s, v)) = 0 <=> Places1(s, v) = {}
  BY <1>4, FS_EmptySet
<1>8. Places1(s, v) = {} <=> ~ Contains(s, v)
  BY <1>1 DEF Places1, Contains
<1> QED
  BY <1>4, <1>5, <1>6, <1>7, <1>8

LEMMA TimesEmpty == ASSUME NEW v PROVE Times(<<>>, v) = 0
<1>1. <<>> \in Seq({v})
  OBVIOUS
<1>2. ~ Contains(<<>>, v)
  BY DEF Contains
<1> QED
  BY <1>1, <1>2, TimesIs

LEMMA TimesAppend ==
    ASSUME NEW S, NEW s \in Seq(S), NEW x \in S, NEW v
    PROVE  Times(Append(s, x), v) = IF x = v THEN Times(s, v) + 1
                                    ELSE Times(s, v)
<1> DEFINE t == Append(s, x)
<1>1. /\ t \in Seq(S) /\ Len(t) = Len(s) + 1 /\ Len(s) \in Nat
      /\ DOMAIN s = 1..Len(s) /\ DOMAIN t = 1..(Len(s) + 1)
      /\ \A i \in 1..Len(s) : t[i] = s[i]
      /\ t[Len(s) + 1] = x
  OBVIOUS
<1> HIDE DEF t
<1>2. CASE x = v
  <2>1. Places1(t, v) = Places1(s, v) \cup {Len(s) + 1}
    BY <1>1, <1>2 DEF Places1
  <2>2. Len(s) + 1 \notin Places1(s, v)
    BY <1>1 DEF Places1
  <2>3. Cardinality(Places1(t, v)) = Cardinality(Places1(s, v)) + 1
    BY ZenonT(60), <2>1, <2>2, FS_AddElement, TimesIs
  <2> QED
    BY <1>1, <1>2, <2>3, TimesIs DEF t
<1>3. CASE x # v
  <2>1. Places1(t, v) = Places1(s, v)
    BY <1>1, <1>3 DEF Places1
  <2> QED
    BY <1>1, <1>3, <2>1, TimesIs DEF t
<1> QED
  BY <1>2, <1>3

\* Sets that a one-to-one function relates have as many elements.
LEMMA SameSize ==
    ASSUME NEW A, NEW B, IsFiniteSet(A), NEW f \in [A -> B],
           \A x, y \in A : f[x] = f[y] => x = y,
           \A y \in B : \E x \in A : f[x] = y
    PROVE  IsFiniteSet(B) /\ Cardinality(B) = Cardinality(A)
<1>1. f \in Bijection(A, B)
  BY DEF Bijection, Injection, Surjection, IsInjective
<1>2. ExistsBijection(A, B)
  BY <1>1 DEF ExistsBijection
<1> QED
  BY <1>2, FS_Bijection

LEMMA TimesTail ==
    ASSUME NEW S, NEW s \in Seq(S), s # <<>>, NEW v
    PROVE  /\ Tail(s) \in Seq(S) /\ Head(s) \in S
           /\ Times(s, v) = IF Head(s) = v THEN Times(Tail(s), v) + 1
                            ELSE Times(Tail(s), v)
<1> DEFINE t == Tail(s)
           A == Places1(t, v)
           B == Places1(s, v) \ {1}
           f == [i \in A |-> i + 1]
<1>1. /\ t \in Seq(S) /\ Head(s) \in S /\ Head(s) = s[1]
      /\ Len(s) \in Nat /\ Len(s) >= 1
      /\ DOMAIN s = 1..Len(s) /\ DOMAIN t = 1..(Len(s) - 1)
      /\ \A i \in 1..(Len(s) - 1) : t[i] = s[i + 1]
  OBVIOUS
<1> HIDE DEF t
<1>2. \A i \in A : i \in Nat /\ i + 1 \in B
  BY <1>1 DEF Places1
<1>3. ASSUME NEW j \in B PROVE \E i \in A : f[i] = j
  <2>1. j \in 2..Len(s) /\ s[j] = v
    BY <1>1 DEF Places1
  <2>2. j - 1 \in 1..(Len(s) - 1) /\ (j - 1) + 1 = j
    BY <1>1, <2>1
  <2>3. j - 1 \in A
    BY <1>1, <2>1, <2>2 DEF Places1
  <2> QED
    BY <2>2, <2>3
<1>4. f \in [A -> B]
  BY <1>2
<1>5. \A x, y \in A : f[x] = f[y] => x = y
  BY <1>2
<1>6. IsFiniteSet(A)
  BY <1>1, TimesIs
<1> HIDE DEF f
<1>7. Cardinality(B) = Cardinality(A)
  <2> HIDE DEF A, B
  <2> QED
    BY <1>3, <1>4, <1>5, <1>6, SameSize
<1>8. /\ IsFiniteSet(Places1(s, v)) /\ Times(s, v) = Cardinality(Places1(s, v))
      /\ Times(s, v) \in Nat
  BY TimesIs
<1>9. Times(t, v) = Cardinality(A)
  BY <1>1, TimesIs
<1>10. CASE Head(s) = v
  <2>1. 1 \in Places1(s, v)
    BY <1>1, <1>10 DEF Places1
  <2>2. Cardinality(B) = Times(s, v) - 1
    BY <1>8, <2>1, FS_RemoveElement
  <2>3. Times(t, v) = Times(s, v) - 1
    BY <1>7, <1>9, <2>2
  <2> QED
    BY <1>1, <1>8, <1>10, <2>3 DEF t
<1>11. CASE Head(s) # v
  <2>1. B = Places1(s, v)
    BY <1>1, <1>11 DEF Places1
  <2> QED
    BY <1>1, <1>7, <1>8, <1>9, <1>11, <2>1 DEF t
<1> QED
  BY <1>10, <1>11

\* InOrder lists each of S once, and nothing else.
LEMMA InOrderIs ==
    ASSUME NEW S \in SUBSET Nat, IsFiniteSet(S)
    PROVE  /\ InOrder(S) \in Seq(S)
           /\ \A v : Times(InOrder(S), v) = IF v \in S THEN 1 ELSE 0
<1> DEFINE key == [t \in S |-> t]
           s == SortedBy(key, S)
<1>1. InOrder(S) = s
  BY DEF InOrder
<1>2. key \in [S -> Int] /\ S \in SUBSET Int
  OBVIOUS
<1> HIDE DEF key
<1>3. /\ s \in Seq(S) /\ Len(s) \in Nat
      /\ \A x \in S : \E i \in 1..Len(s) : s[i] = x
      /\ \A i, j \in 1..Len(s) : s[i] = s[j] => i = j
  BY <1>2, SortedBySorts
<1> HIDE DEF s
<1>4. DOMAIN s = 1..Len(s)
  BY <1>3
<1>5. ASSUME NEW v \in S PROVE Times(s, v) = 1
  <2>1. PICK i \in 1..Len(s) : s[i] = v
    BY <1>3
  <2>2. Places1(s, v) = {i}
    BY <1>3, <1>4, <2>1 DEF Places1
  <2>3. Cardinality(Places1(s, v)) = 1
    BY <2>2, FS_Singleton
  <2> QED
    BY <1>3, <2>3, TimesIs
<1>6. ASSUME NEW v, v \notin S PROVE Times(s, v) = 0
  <2>1. ~ Contains(s, v)
    BY <1>3, <1>4, <1>6 DEF Contains
  <2> QED
    BY <1>3, <2>1, TimesIs
<1> QED
  BY <1>1, <1>3, <1>5, <1>6

LEMMA WaitingIsFinite ==
    ASSUME NEW T, IsFiniteSet(T), NEW g, NEW n \in Nat, NEW done, NEW v
    PROVE  /\ IsFiniteSet(Waiting(T, g, n, done, v))
           /\ Cardinality(Waiting(T, g, n, done, v)) \in Nat
<1>1. IsFiniteSet(1..n)
  BY FS_Interval
<1>2. IsFiniteSet(T \X (1..n))
  BY <1>1, FS_Product
<1>3. Waiting(T, g, n, done, v) \in SUBSET (T \X (1..n))
  BY DEF Waiting
<1> QED
  BY <1>2, <1>3, FS_Subset, FS_CardinalityType

\* The lists of g have room in n places.
HaveRoom(T, g, n) ==
    g \in [T -> Seq(T)] /\ n \in Nat /\ \A t \in T : Len(g[t]) <= n

\* More room in the lists changes nothing.
LEMMA WaitingMoreRoom ==
    ASSUME NEW T, NEW g, NEW n, HaveRoom(T, g, n), NEW done, NEW v
    PROVE  Waiting(T, g, n + 1, done, v) = Waiting(T, g, n, done, v)
<1> USE DEF HaveRoom
<1>1. ASSUME NEW e \in Waiting(T, g, n + 1, done, v)
      PROVE  e \in Waiting(T, g, n, done, v)
  <2>1. /\ e \in T \X (1..(n + 1)) /\ ~ Contains(done, e[1])
        /\ e[2] \in DOMAIN g[e[1]] /\ g[e[1]][e[2]] = v
    BY <1>1 DEF Waiting
  <2>2. e[1] \in T /\ e = <<e[1], e[2]>>
    BY <2>1
  <2>3. g[e[1]] \in Seq(T) /\ Len(g[e[1]]) <= n
    BY <2>2
  <2>4. e[2] \in 1..n
    BY <2>1, <2>3
  <2>5. e \in T \X (1..n)
    BY <2>2, <2>4
  <2> QED
    BY <2>1, <2>5 DEF Waiting
<1>2. ASSUME NEW e \in Waiting(T, g, n, done, v)
      PROVE  e \in Waiting(T, g, n + 1, done, v)
  <2>1. /\ e \in T \X (1..n) /\ ~ Contains(done, e[1])
        /\ e[2] \in DOMAIN g[e[1]] /\ g[e[1]][e[2]] = v
    BY <1>2 DEF Waiting
  <2>2. e \in T \X (1..(n + 1))
    BY <2>1
  <2> QED
    BY <2>1, <2>2 DEF Waiting
<1> QED
  BY <1>1, <1>2

\* One more reference of s to t.
IsLonger(h, g, t, s) == h = [g EXCEPT ![t] = Append(g[t], s)]

LEMMA WaitingAdd ==
    ASSUME NEW T, IsFiniteSet(T), NEW g, NEW n, HaveRoom(T, g, n),
           NEW t \in T, NEW s \in T, NEW v,
           NEW h, IsLonger(h, g, t, s)
    PROVE  Cardinality(Waiting(T, h, n + 1, <<>>, v)) =
              IF s = v THEN Cardinality(Waiting(T, g, n, <<>>, v)) + 1
                       ELSE Cardinality(Waiting(T, g, n, <<>>, v))
<1> USE DEF HaveRoom
<1> DEFINE l == Len(g[t]) + 1
           W == Waiting(T, g, n, <<>>, v)
           X == Waiting(T, h, n + 1, <<>>, v)
           new == <<t, l>>
<1>1. /\ h \in [T -> Seq(T)] /\ h[t] = Append(g[t], s)
      /\ \A u \in T \ {t} : h[u] = g[u]
  BY DEF IsLonger
<1>2. g[t] \in Seq(T) /\ Len(g[t]) \in Nat /\ Len(g[t]) <= n
  OBVIOUS
<1>3. /\ DOMAIN h[t] = 1..l /\ DOMAIN g[t] = 1..(l - 1) /\ l \in 1..(n + 1)
      /\ h[t][l] = s /\ \A i \in 1..(l - 1) : h[t][i] = g[t][i]
  BY <1>1, <1>2
<1>4. \A u : ~ Contains(<<>>, u)
  BY DEF Contains
<1> HIDE DEF l
<1>5. W \subseteq X
  <2> SUFFICES ASSUME NEW e \in W PROVE e \in X
    OBVIOUS
  <2>1. /\ e \in T \X (1..n) /\ e[2] \in DOMAIN g[e[1]] /\ g[e[1]][e[2]] = v
    BY DEF Waiting
  <2>2. e \in T \X (1..(n + 1)) /\ e[1] \in T
    BY <2>1
  <2>3. e[2] \in DOMAIN h[e[1]] /\ h[e[1]][e[2]] = v
    <3>1. CASE e[1] = t
      BY <1>2, <1>3, <2>1, <3>1
    <3>2. CASE e[1] # t
      BY <1>1, <2>1, <2>2, <3>2
    <3> QED
      BY <3>1, <3>2
  <2> QED
    BY <1>4, <2>2, <2>3 DEF Waiting
<1>6. ASSUME NEW e \in X PROVE e \in W \/ (e = new /\ s = v)
  <2>1. /\ e \in T \X (1..(n + 1)) /\ e[2] \in DOMAIN h[e[1]]
        /\ h[e[1]][e[2]] = v
    BY DEF Waiting
  <2>2. e[1] \in T /\ e = <<e[1], e[2]>>
    BY <2>1
  <2>3. CASE e[1] = t /\ e[2] = l
    BY <1>3, <2>1, <2>2, <2>3
  <2>4. CASE ~ (e[1] = t /\ e[2] = l)
    <3>1. e[2] \in DOMAIN g[e[1]] /\ g[e[1]][e[2]] = v
      <4>1. CASE e[1] = t
        <5>1. e[2] \in 1..l /\ e[2] # l
          BY <1>3, <2>1, <2>4, <4>1
        <5>2. e[2] \in 1..(l - 1)
          BY <1>3, <5>1
        <5> QED
          BY <1>3, <2>1, <4>1, <5>2
      <4>2. CASE e[1] # t
        BY <1>1, <2>1, <2>2, <4>2
      <4> QED
        BY <4>1, <4>2
    <3>2. g[e[1]] \in Seq(T) /\ Len(g[e[1]]) <= n
      BY <2>2
    <3>3. e[2] \in 1..n
      BY SMTT(30), <3>1, <3>2
    <3>4. e \in T \X (1..n)
      BY <2>2, <3>3
    <3> QED
      BY <1>4, <3>1, <3>4 DEF Waiting
  <2> QED
    BY <2>3, <2>4
<1>7. new \notin W
  <2>1. new[1] = t /\ new[2] = l
    OBVIOUS
  <2> HIDE DEF new
  <2>2. l \notin DOMAIN g[t]
    BY <1>2, <1>3
  <2> QED
    BY <2>1, <2>2 DEF Waiting
<1>8. s = v => new \in X
  <2>1. new \in T \X (1..(n + 1)) /\ new[1] = t /\ new[2] = l
    BY <1>3
  <2>2. l \in DOMAIN h[t]
    BY <1>2, <1>3
  <2> HIDE DEF new
  <2> QED
    BY <1>3, <1>4, <2>1, <2>2 DEF Waiting
<1>9. IsFiniteSet(W)
  BY WaitingIsFinite
<1> HIDE DEF W, X, new
<1>10. CASE s = v
  <2>1. X = W \cup {new}
    BY <1>5, <1>6, <1>8, <1>10
  <2>2. Cardinality(X) = Cardinality(W) + 1
    BY <1>7, <1>9, <2>1, FS_AddElement
  <2> QED
    BY <1>10, <2>2 DEF X, W
<1>11. CASE s # v
  <2>1. X = W
    BY <1>5, <1>6, <1>11
  <2> QED
    BY <1>11, <2>1 DEF X, W
<1> QED
  BY <1>10, <1>11

\* When t is visited, what waits for it is in its list.
LEMMA WaitingVisit ==
    ASSUME NEW T, IsFiniteSet(T), NEW g, NEW n, HaveRoom(T, g, n),
           NEW done \in Seq(T), NEW t \in T, ~ Contains(done, t), NEW v
    PROVE  Cardinality(Waiting(T, g, n, done, v)) =
              Times(g[t], v) + Cardinality(Waiting(T, g, n, Append(done, t), v))
<1> USE DEF HaveRoom
<1> DEFINE s == g[t]
           W == Waiting(T, g, n, done, v)
           X == Waiting(T, g, n, Append(done, t), v)
           A == Places1(s, v)
           B == {e \in W : e[1] = t}
           f == [i \in A |-> <<t, i>>]
<1>1. s \in Seq(T) /\ DOMAIN s = 1..Len(s) /\ Len(s) \in Nat
  OBVIOUS
<1>2. \A u : Contains(Append(done, t), u) <=> Contains(done, u) \/ u = t
  <2> DEFINE d == Append(done, t)
  <2>1. /\ Len(d) = Len(done) + 1 /\ Len(done) \in Nat
        /\ \A i \in 1..Len(done) : d[i] = done[i]
        /\ d[Len(done) + 1] = t
    OBVIOUS
  <2> HIDE DEF d
  <2>2. ASSUME NEW u, Contains(d, u) PROVE Contains(done, u) \/ u = t
    <3>1. PICK i \in 1..Len(d) : d[i] = u
      BY <2>2 DEF Contains
    <3>2. i \in 1..Len(done) \/ i = Len(done) + 1
      BY <2>1
    <3> QED
      BY <2>1, <3>1, <3>2 DEF Contains
  <2>3. ASSUME NEW u, Contains(done, u) PROVE Contains(d, u)
    <3>1. PICK i \in 1..Len(done) : done[i] = u
      BY <2>3 DEF Contains
    <3>2. i \in 1..Len(d) /\ d[i] = u
      BY <2>1, <3>1
    <3> QED
      BY <3>2 DEF Contains
  <2>4. Contains(d, t)
    <3>1. Len(done) + 1 \in 1..Len(d)
      BY <2>1
    <3> QED
      BY <2>1, <3>1 DEF Contains
  <2> QED
    BY <2>2, <2>3, <2>4 DEF d
<1>3. X = {e \in W : e[1] # t}
  BY <1>2 DEF Waiting
<1>4. W = B \cup X /\ B \cap X = {}
  <2> HIDE DEF W
  <2> QED
    BY <1>3
<1>5. IsFiniteSet(W)
  BY WaitingIsFinite
<1>6. IsFiniteSet(B) /\ IsFiniteSet(X)
  <2>1. B \in SUBSET W /\ X \in SUBSET W
    BY <1>4
  <2> HIDE DEF B, X, W
  <2> QED
    BY <1>5, <2>1, FS_Subset
<1>7. \A i \in A : <<t, i>> \in B
  <2> SUFFICES ASSUME NEW i \in A PROVE <<t, i>> \in B
    OBVIOUS
  <2> DEFINE e == <<t, i>>
  <2>1. i \in 1..n /\ i \in DOMAIN g[t] /\ g[t][i] = v
    BY <1>1 DEF Places1
  <2>2. e \in T \X (1..n) /\ e[1] = t /\ e[2] = i
    BY <2>1
  <2> HIDE DEF e
  <2>3. e \in W
    BY <2>1, <2>2 DEF Waiting
  <2> QED
    BY <2>2, <2>3 DEF e
<1>8. ASSUME NEW e \in B PROVE \E i \in A : f[i] = e
  <2>1. e \in T \X (1..n) /\ e[1] = t /\ e[2] \in DOMAIN g[t] /\ g[t][e[2]] = v
    BY DEF Waiting
  <2>2. e[2] \in A
    BY <2>1 DEF Places1
  <2>3. e = <<t, e[2]>>
    BY <2>1
  <2> QED
    BY <2>2, <2>3
<1>9. f \in [A -> B]
  <2> HIDE DEF A, B
  <2> QED
    BY <1>7
<1>10. \A x, y \in A : f[x] = f[y] => x = y
  <2> HIDE DEF A
  <2> QED
    OBVIOUS
<1>11. IsFiniteSet(A) /\ Times(s, v) = Cardinality(A)
  BY <1>1, TimesIs
<1> HIDE DEF f, A, B, X, W
<1>12. Cardinality(B) = Cardinality(A)
  BY <1>8, <1>9, <1>10, <1>11, SameSize
<1>13. Cardinality(W) = Cardinality(B) + Cardinality(X) - Cardinality(B \cap X)
  BY <1>4, <1>6, FS_Union
<1>14. Cardinality(B \cap X) = 0 /\ Cardinality(X) \in Nat
       /\ Cardinality(B) \in Nat
  BY <1>4, <1>6, FS_EmptySet, FS_CardinalityType
<1>15. Cardinality(W) = Times(s, v) + Cardinality(X)
  BY <1>11, <1>12, <1>13, <1>14
<1> QED
  BY <1>15 DEF W, X

-----------------------------------------------------------------------------
(* What the steps of build rely on.                                        *)

LEMMA TablesAre ==
    ASSUME NEW b \in DatabaseSchemaBuilder
    PROVE  /\ Tables(b) = 0..(Len(b.tables) - 1)
           /\ IsFiniteSet(Tables(b)) /\ Tables(b) \in SUBSET Nat
           /\ \A t \in Tables(b) : At(b.tables, t) \in TableMeta
           /\ \A t \in Tables(b) : TableName(b, t) \in Symbol
<1>1. b.tables \in Seq(TableMeta) /\ Len(b.tables) \in Nat
  BY BuilderTypes
<1>2. Tables(b) = 0..(Len(b.tables) - 1)
  BY DEF Tables, Indices
<1>3. IsFiniteSet(Tables(b)) /\ Tables(b) \in SUBSET Nat
  BY <1>1, <1>2, FS_Interval
<1>4. ASSUME NEW t \in Tables(b) PROVE At(b.tables, t) \in TableMeta
  <2>1. t + 1 \in 1..Len(b.tables)
    BY <1>1, <1>2
  <2> QED
    BY <1>1, <2>1, ElementOfSeq DEF At
<1>5. ASSUME NEW t \in Tables(b) PROVE TableName(b, t) \in Symbol
  BY <1>4 DEF TableName, TableMeta
<1> QED
  BY <1>2, <1>3, <1>4, <1>5

\* The index of the tables by name.
LEMMA BuilderIndex ==
    ASSUME NEW b \in DatabaseSchemaBuilder, NEW symbol \in Symbol
    PROVE  LET by_name == SortedByName(b.tables)
               slot == BinarySearch(KeysByName(b, by_name), symbol)
           IN  /\ by_name \in Seq(Tables(b))
               /\ slot # None => /\ At(by_name, slot) \in Tables(b)
                                 /\ TableName(b, At(by_name, slot)) = symbol
               /\ (\E t \in Tables(b) : TableName(b, t) = symbol)
                     => slot # None
<1>1. Len(b.tables) \in Nat /\ symbol \in Int /\ None \notin Nat
  BY BuilderTypes, NoneAssumption DEF Symbol
<1>2. \A t \in Tables(b) : TableName(b, t) \in Int
  BY TablesAre DEF Symbol
<1> DEFINE by_name == SortedByName(b.tables)
<1>3. by_name = SortedByName(b.tables)
  OBVIOUS
<1> HIDE DEF by_name
<1>4. LET slot == BinarySearch(KeysByName(b, by_name), symbol)
      IN  /\ by_name \in Seq(Tables(b))
          /\ slot # None => /\ At(by_name, slot) \in Tables(b)
                            /\ TableName(b, At(by_name, slot)) = symbol
          /\ (\E t \in Tables(b) : TableName(b, t) = symbol) => slot # None
  BY <1>1, <1>2, <1>3, IndexFinds
<1> QED
  BY <1>4 DEF by_name

\* What a foreign key names is a table, or nothing, and so for its column.
LEMMA OldTableIs ==
    ASSUME builder \in DatabaseSchemaBuilder,
           old_by_name = SortedByName(builder.tables), NEW symbol \in Symbol
    PROVE  /\ OldTable(symbol) \in {None} \cup Tables(builder)
           /\ OldTable(symbol) # None =>
                 TableName(builder, OldTable(symbol)) = symbol
<1> DEFINE slot == BinarySearch(KeysByName(builder, old_by_name), symbol)
<1>1. OldTable(symbol) = IF slot = None THEN None ELSE At(old_by_name, slot)
  BY DEF OldTable
<1>2. slot # None => /\ At(old_by_name, slot) \in Tables(builder)
                     /\ TableName(builder, At(old_by_name, slot)) = symbol
  BY BuilderIndex
<1> HIDE DEF slot
<1> QED
  BY <1>1, <1>2

LEMMA TargetIs ==
    ASSUME builder \in DatabaseSchemaBuilder,
           old_by_name = SortedByName(builder.tables),
           NEW fk \in UnresolvedFk
    PROVE  /\ Target(fk) \in {None} \cup Nat
           /\ Target(fk) # None => OldTable(fk.table) \in Tables(builder)
<1> DEFINE t == OldTable(fk.table)
           names == ColumnNames(builder, t)
<1>1. fk.table \in Symbol
  BY DEF UnresolvedFk
<1>2. t \in {None} \cup Tables(builder)
  BY <1>1, OldTableIs
<1>3. Target(fk) = IF t = None THEN None ELSE Position(names, fk.column)
  BY DEF Target
<1>4. CASE t = None
  BY <1>3, <1>4
<1>5. CASE t # None
  <2> DEFINE meta == At(builder.tables, t)
             a == meta.columns_start + 1
             b == meta.columns_start + meta.columns_len
             S == {builder.column_names[i] : i \in a..b}
  <2>1. meta \in TableMeta
    BY <1>2, <1>5, TablesAre
  <2>2. meta.columns_start \in Nat /\ meta.columns_len \in Nat
    BY <2>1 DEF TableMeta
  <2>3. names = SubSeq(builder.column_names, a, b)
    BY DEF ColumnNames, Slice
  <2>4. a \in Int /\ b \in Int /\ \A i \in a..b : builder.column_names[i] \in S
    BY <2>2
  <2> HIDE DEF a, b, S, names
  <2>5. names \in Seq(S)
    BY <2>3, <2>4, SubSeqProperties
  <2>6. Len(names) \in Nat /\ None \notin Nat
    BY <2>5, NoneAssumption
  <2>7. Position(names, fk.column) # None =>
           Position(names, fk.column) \in Nat
    BY <2>6, PositionFinds DEF Indices
  <2> QED
    BY <1>2, <1>3, <1>5, <2>7
<1> QED
  BY <1>4, <1>5

-----------------------------------------------------------------------------
(* The inductive invariant.                                                *)

\* Nothing is sorted before the references are resolved, nor resolved before
\* the rows are there.
EarlyInv ==
    /\ phase = "rows" => /\ BuilderFits(builder)
                         /\ old_by_name = <<>> /\ resolved = <<>>
    /\ phase \in {"rows", "resolve"} =>
          queue = <<>> /\ edges = <<>> /\ sorted = <<>>

\* After the last row, every table has its number, and the tables are sorted
\* by name.
IndexInv ==
    phase # "rows" =>
        /\ UnresolvedFit(builder, Len(builder.tables))
        /\ old_by_name = SortedByName(builder.tables)

\* No table has more references to it than are resolved, and while they are
\* being resolved each table waits for its own.
GraphInv ==
    /\ phase # "rows" =>
          \A t \in Tables(builder) : Len(graph[t]) <= Len(resolved)
    /\ phase = "resolve" =>
          \A v \in Tables(builder) :
              in_degree[v] = Cardinality(
                  Waiting(Tables(builder), graph, Len(resolved), <<>>, v))

\* In the end every table is in the order, once.
OrderInv ==
    phase \in {"number", "done"} =>
        \A t \in Tables(builder) : Times(sorted, t) = 1

DoneInv == phase = "done" => schema = Built

IInv ==
    /\ TypeOK
    /\ EarlyInv
    /\ IndexInv
    /\ GraphInv
    /\ CountsAreRight
    /\ OrderInv
    /\ DoneInv

-----------------------------------------------------------------------------
(* Each step keeps it.                                                     *)

LEMMA InitIInv == ASSUME Init PROVE IInv
  <1>1. EmptyBuilder \in DatabaseSchemaBuilder
    <2>1. \A S : <<>> \in Seq(S)
      BY EmptySeq
    <2> QED
      BY <2>1 DEF EmptyBuilder, DatabaseSchemaBuilder
  <1>2. BuilderFits(builder)
    <2>1. /\ builder \in DatabaseSchemaBuilder
          /\ builder.columns = <<>> /\ builder.foreign_key_pool = <<>>
          /\ builder.current_cols_start = 0 /\ builder.current_fk_start = 0
          /\ builder.unresolved = <<>>
      BY <1>1 DEF Init, EmptyBuilder
    <2> QED
      BY <2>1 DEF BuilderFits, ColumnsFit, StartsFit, UnresolvedFit
  <1>3. TypeOK
    <2>1. ColumnsFit(builder) /\ builder \in DatabaseSchemaBuilder
      BY <1>2 DEF BuilderFits
    <2>2. \A S : <<>> \in Seq(S)
      BY EmptySeq
    <2> QED
      BY <2>1, <2>2 DEF Init, TypeOK, ColumnsFit
  <1> QED
    BY <1>2, <1>3 DEF Init, IInv, EarlyInv, IndexInv, GraphInv, CountsAreRight,
                      OrderInv, DoneInv

LEMMA AddRowKeeps ==
    ASSUME IInv, NEW row \in Rows, AddRow(row)
    PROVE  IInv'
  <1>1. /\ phase = "rows" /\ phase' = "rows"
        /\ rows' = Append(rows, row) /\ builder' = WithRow(builder, row)
        /\ UNCHANGED <<old_by_name, resolved, graph, in_degree, queue, edges,
                       sorted, schema>>
    BY DEF AddRow
  <1>2. /\ BuilderFits(builder) /\ old_by_name = <<>> /\ resolved = <<>>
        /\ queue = <<>> /\ edges = <<>> /\ sorted = <<>>
    BY <1>1 DEF IInv, EarlyInv
  <1>3. row \in Row
    BY RowsAssumption
  <1>4. BuilderFits(builder')
    BY <1>1, <1>2, <1>3, WithRowKeeps
  <1>5. rows' \in Seq(Rows)
    <2>1. rows \in Seq(Rows)
      BY DEF IInv, TypeOK
    <2> QED
      BY <1>1, <2>1, AppendProperties
  <1>6. TypeOK'
    <2>1. builder' \in DatabaseSchemaBuilder /\ ColumnsFit(builder')
      BY <1>4 DEF BuilderFits
    <2>2. schema \in {None} \cup DatabaseSchema /\ (phase = "done" <=> schema # None)
      BY DEF IInv, TypeOK
    <2>3. \A S : <<>> \in Seq(S)
      BY EmptySeq
    <2>4. /\ old_by_name' \in Seq(Tables(builder'))
          /\ resolved' \in Seq([pool_index : Indices(builder'.foreign_key_pool),
                         table : Tables(builder'), column : Nat])
          /\ \A s \in {queue', edges', sorted'} : s \in Seq(Tables(builder'))
      BY <1>1, <1>2, <2>3
    <2> QED
      BY <1>1, <1>5, <2>1, <2>2, <2>4 DEF TypeOK, ColumnsFit
  <1> QED
    BY <1>1, <1>2, <1>4, <1>6
       DEF IInv, EarlyInv, IndexInv, GraphInv, CountsAreRight, OrderInv, DoneInv

LEMMA BuildKeeps ==
    ASSUME IInv, Build
    PROVE  IInv'
  <1>1. /\ phase = "rows" /\ phase' = "resolve"
        /\ builder' = FinishTable(builder)
        /\ old_by_name' = SortedByName(builder'.tables)
        /\ graph' = [t \in Tables(builder') |-> <<>>]
        /\ in_degree' = [t \in Tables(builder') |-> 0]
        /\ UNCHANGED <<rows, resolved, queue, edges, sorted, schema>>
    BY DEF Build
  <1>2. /\ BuilderFits(builder) /\ resolved = <<>>
        /\ queue = <<>> /\ edges = <<>> /\ sorted = <<>>
    BY <1>1 DEF IInv, EarlyInv
  <1>3. /\ builder' \in DatabaseSchemaBuilder
        /\ SameFields(builder, builder')
        /\ Len(builder'.tables) = IF builder.current_table = None
                                  THEN Len(builder.tables)
                                  ELSE Len(builder.tables) + 1
    BY <1>1, <1>2, FinishTableKeeps DEF BuilderFits
  <1>4. ColumnsFit(builder')
    BY <1>2, <1>3 DEF BuilderFits, ColumnsFit, SameFields
  <1>5. UnresolvedFit(builder', Len(builder'.tables))
    <2>1. CASE builder.unresolved = <<>>
      BY <1>3, <2>1 DEF UnresolvedFit, SameFields
    <2>2. CASE builder.unresolved # <<>>
      <3>1. Len(builder'.tables) = Len(builder.tables) + 1
        BY <1>2, <1>3, <2>2 DEF BuilderFits
      <3>2. UnresolvedFit(builder, Len(builder.tables) + 1)
        BY <1>2 DEF BuilderFits
      <3> QED
        BY <1>3, <3>1, <3>2 DEF UnresolvedFit, SameFields
    <2> QED
      BY <2>1, <2>2
  <1>6. old_by_name' \in Seq(Tables(builder'))
    <2>1. 1 \in Symbol
      BY DEF Symbol
    <2>2. SortedByName(builder'.tables) \in Seq(Tables(builder'))
      BY <1>3, <2>1, BuilderIndex
    <2> QED
      BY <1>1, <2>2
  <1>7. \A S : <<>> \in Seq(S)
    BY EmptySeq
  <1>8. TypeOK'
    <2>1. rows \in Seq(Rows) /\ schema \in {None} \cup DatabaseSchema /\ (phase = "done" <=> schema # None)
      BY DEF IInv, TypeOK
    <2>2. /\ resolved' \in Seq([pool_index : Indices(builder'.foreign_key_pool),
                         table : Tables(builder'), column : Nat])
          /\ \A s \in {queue', edges', sorted'} : s \in Seq(Tables(builder'))
      BY <1>1, <1>2, <1>7
    <2>3. /\ graph' \in [Tables(builder') -> Seq(Tables(builder'))]
          /\ in_degree' \in [Tables(builder') -> Nat]
      BY <1>1, <1>7
    <2> QED
      BY <1>1, <1>3, <1>4, <1>6, <2>1, <2>2, <2>3 DEF TypeOK, ColumnsFit
  <1>9. GraphInv'
    <2>1. Len(resolved') = 0 /\ \A t \in Tables(builder') : Len(graph'[t]) = 0
      BY <1>1, <1>2
    <2>2. ASSUME NEW v \in Tables(builder')
          PROVE  in_degree'[v] = Cardinality(
                     Waiting(Tables(builder'), graph', Len(resolved'), <<>>, v))
      <3>1. Waiting(Tables(builder'), graph', Len(resolved'), <<>>, v) = {}
        BY <2>1 DEF Waiting
      <3>2. in_degree'[v] = 0
        BY <1>1
      <3> QED
        BY <3>1, <3>2, FS_EmptySet
    <2> QED
      BY <1>1, <2>1, <2>2 DEF GraphInv
  <1> QED
    BY <1>1, <1>2, <1>5, <1>8, <1>9
       DEF IInv, EarlyInv, IndexInv, CountsAreRight, OrderInv, DoneInv

\* The list of the unresolved loses its first.
LEMMA UnresolvedTail ==
    ASSUME NEW b \in DatabaseSchemaBuilder, b.unresolved # <<>>, NEW c,
           c = [b EXCEPT !.unresolved = Tail(b.unresolved)],
           UnresolvedFit(b, Len(b.tables))
    PROVE  /\ c \in DatabaseSchemaBuilder
           /\ c.tables = b.tables /\ c.columns = b.columns
           /\ c.constraint_pool = b.constraint_pool
           /\ c.foreign_key_pool = b.foreign_key_pool
           /\ UnresolvedFit(c, Len(b.tables))
           /\ Head(b.unresolved) \in UnresolvedFk
           /\ Head(b.unresolved).pool_index \in Indices(b.foreign_key_pool)
           /\ Head(b.unresolved).source < Len(b.tables)
  <1> DEFINE u == b.unresolved
             n == Len(b.tables)
  <1>1. u \in Seq(UnresolvedFk) /\ u # <<>> /\ Len(b.foreign_key_pool) \in Nat
    BY BuilderTypes
  <1>2. /\ Tail(u) \in Seq(UnresolvedFk) /\ Head(u) \in UnresolvedFk
        /\ Len(u) \in Nat /\ Len(u) > 0 /\ Len(Tail(u)) = Len(u) - 1
        /\ \A i \in 1..Len(Tail(u)) : Tail(u)[i] = u[i + 1]
        /\ Head(u) = u[1]
    <2> HIDE DEF u
    <2> QED
      BY <1>1, HeadTailProperties, EmptySeq, LenProperties
  <1>3. \A i \in 1..Len(u) : u[i].pool_index < Len(b.foreign_key_pool) /\ u[i].source < n
    <2>1. DOMAIN u = 1..Len(u)
      BY <1>1, LenProperties
    <2> QED
      BY <2>1 DEF UnresolvedFit
  <1>4. /\ c \in DatabaseSchemaBuilder
        /\ c.tables = b.tables /\ c.columns = b.columns
        /\ c.constraint_pool = b.constraint_pool
        /\ c.foreign_key_pool = b.foreign_key_pool
        /\ c.unresolved = Tail(u)
    BY <1>2 DEF DatabaseSchemaBuilder
  <1>5. UnresolvedFit(c, n)
    <2>1. DOMAIN Tail(u) = 1..(Len(u) - 1)
      BY <1>2, LenProperties
    <2>2. \A i \in 1..(Len(u) - 1) : i + 1 \in 1..Len(u) /\ Tail(u)[i] = u[i + 1]
      <3> HIDE DEF u
      <3> QED
        BY <1>2
    <2> HIDE DEF u
    <2> QED
      BY <1>3, <1>4, <2>1, <2>2 DEF UnresolvedFit
  <1>6. /\ Head(u).pool_index < Len(b.foreign_key_pool) /\ Head(u).source < n
        /\ Head(u).pool_index \in Nat
    <2>1. 1 \in 1..Len(u)
      <3> HIDE DEF u
      <3> QED
        BY <1>2
    <2>2. /\ u[1].pool_index < Len(b.foreign_key_pool) /\ u[1].source < n
      BY <1>3, <2>1
    <2>3. Head(u).pool_index \in Nat
      BY <1>2 DEF UnresolvedFk
    <2> QED
      BY <1>2, <2>2, <2>3
  <1> QED
    BY <1>1, <1>2, <1>4, <1>5, <1>6 DEF Indices

LEMMA ResolveFkKeeps ==
    ASSUME IInv, ResolveFk
    PROVE  IInv'
  <1> DEFINE fk == Head(builder.unresolved)
             table == OldTable(fk.table)
             T == Tables(builder)
             Resolved == [pool_index : Indices(builder.foreign_key_pool),
                          table : T, column : Nat]
             n == Len(resolved)
  <1>1. /\ phase = "resolve" /\ phase' = "resolve"
        /\ builder.unresolved # <<>>
        /\ builder' = [builder EXCEPT !.unresolved = Tail(@)]
        /\ UNCHANGED <<rows, phase, old_by_name, queue, edges, sorted, schema>>
        /\ resolved' = IF Target(fk) = None THEN resolved
                       ELSE Append(resolved,
                              [pool_index |-> fk.pool_index,
                               table |-> table, column |-> Target(fk)])
        /\ IF Waits(fk)
           THEN /\ graph' = [graph EXCEPT ![table] = Append(graph[table], fk.source)]
                /\ in_degree' = [in_degree EXCEPT ![fk.source] = in_degree[fk.source] + 1]
           ELSE UNCHANGED <<graph, in_degree>>
    BY DEF ResolveFk
  <1>2. /\ builder \in DatabaseSchemaBuilder /\ ColumnsFit(builder)
        /\ rows \in Seq(Rows) /\ old_by_name \in Seq(T)
        /\ resolved \in Seq(Resolved) /\ n \in Nat
        /\ graph \in [T -> Seq(T)] /\ in_degree \in [T -> Nat]
        /\ \A s \in {queue, edges, sorted} : s \in Seq(T)
        /\ schema \in {None} \cup DatabaseSchema
        /\ phase = "done" <=> schema # None
    BY <1>1, LenProperties DEF IInv, TypeOK, ColumnsFit
  <1>3. /\ queue = <<>> /\ edges = <<>> /\ sorted = <<>>
        /\ UnresolvedFit(builder, Len(builder.tables))
        /\ old_by_name = SortedByName(builder.tables)
        /\ \A t \in T : Len(graph[t]) <= n
        /\ \A v \in T : in_degree[v] = Cardinality(Waiting(T, graph, n, <<>>, v))
    BY <1>1 DEF IInv, EarlyInv, IndexInv, GraphInv
  <1>4. /\ T = 0..(Len(builder.tables) - 1) /\ IsFiniteSet(T)
        /\ Len(builder.tables) \in Nat
    BY <1>2, TablesAre, BuilderTypes
  <1>5. /\ builder' \in DatabaseSchemaBuilder
        /\ builder'.tables = builder.tables
        /\ builder'.columns = builder.columns
        /\ builder'.constraint_pool = builder.constraint_pool
        /\ builder'.foreign_key_pool = builder.foreign_key_pool
        /\ UnresolvedFit(builder', Len(builder.tables))
        /\ fk \in UnresolvedFk
        /\ fk.pool_index \in Indices(builder.foreign_key_pool)
        /\ fk.source < Len(builder.tables)
    BY <1>1, <1>2, <1>3, UnresolvedTail
  <1>6. Tables(builder') = T
    BY <1>5 DEF Tables
  <1>7. fk.source \in T
    <2>1. fk.source \in Nat
      BY <1>5 DEF UnresolvedFk
    <2> QED
      BY <1>4, <1>5, <2>1
  <1>8. /\ Target(fk) \in {None} \cup Nat
        /\ Target(fk) # None => table \in T
    BY <1>2, <1>3, <1>5, TargetIs
  <1>9. /\ resolved' \in Seq(Resolved)
        /\ Len(resolved') = IF Target(fk) = None THEN n ELSE n + 1
    <2>1. CASE Target(fk) = None
      BY <1>1, <1>2, <2>1
    <2>2. CASE Target(fk) # None
      <3>1. [pool_index |-> fk.pool_index, table |-> table,
             column |-> Target(fk)] \in Resolved
        BY <1>5, <1>8, <2>2
      <3> HIDE DEF fk, table, Resolved
      <3> QED
        BY <1>1, <1>2, <2>2, <3>1, AppendProperties
    <2> QED
      BY <2>1, <2>2
  <1> DEFINE Counted == \A v \in T : in_degree'[v] = Cardinality(
                            Waiting(T, graph', Len(resolved'), <<>>, v))
  <1>10. /\ graph' \in [T -> Seq(T)] /\ in_degree' \in [T -> Nat]
         /\ \A t \in T : Len(graph'[t]) <= Len(resolved')
         /\ Counted
    <2>1. CASE Target(fk) = None
      <3>1. graph' = graph /\ in_degree' = in_degree /\ Len(resolved') = n
        BY <1>1, <1>9, <2>1 DEF Waits
      <3> QED
        BY <1>2, <1>3, <3>1
    <2>2. CASE Target(fk) # None /\ ~ Waits(fk)
      <3>1. graph' = graph /\ in_degree' = in_degree /\ Len(resolved') = n + 1
        BY <1>1, <1>9, <2>2
      <3>2. \A v \in T : Waiting(T, graph, n + 1, <<>>, v) = Waiting(T, graph, n, <<>>, v)
        <4>1. HaveRoom(T, graph, n)
          BY <1>2, <1>3 DEF HaveRoom
        <4> HIDE DEF T, n
        <4> QED
          BY <4>1, WaitingMoreRoom
      <3>3. \A t \in T : Len(graph[t]) <= n + 1
        <4>1. \A t \in T : Len(graph[t]) \in Nat
          BY <1>2, LenProperties
        <4> HIDE DEF T, n
        <4> QED
          BY <1>2, <1>3, <4>1
      <3> QED
        BY <1>2, <1>3, <3>1, <3>2, <3>3
    <2>3. CASE Waits(fk)
      <3>1. table \in T /\ Len(resolved') = n + 1
        BY <1>8, <1>9, <2>3 DEF Waits
      <3>2. /\ graph' = [graph EXCEPT ![table] = Append(graph[table], fk.source)]
            /\ in_degree' = [in_degree EXCEPT ![fk.source] = in_degree[fk.source] + 1]
        BY <1>1, <2>3
      <3> HIDE DEF T, n, fk, table, Resolved
      <3>3. \A v \in T : Cardinality(Waiting(T, graph', n + 1, <<>>, v)) =
                  IF fk.source = v
                  THEN Cardinality(Waiting(T, graph, n, <<>>, v)) + 1
                  ELSE Cardinality(Waiting(T, graph, n, <<>>, v))
        <4>1. HaveRoom(T, graph, n)
          BY <1>2, <1>3 DEF HaveRoom
        <4>2. IsLonger(graph', graph, table, fk.source)
          BY <3>2 DEF IsLonger
        <4>3. IsFiniteSet(T) /\ table \in T /\ fk.source \in T
          BY <1>4, <1>7, <3>1
        <4> DEFINE src == fk.source
        <4>4. src \in T /\ IsLonger(graph', graph, table, src)
          BY <4>2, <4>3
        <4> HIDE DEF src
        <4>5. ASSUME NEW v \in T
              PROVE  Cardinality(Waiting(T, graph', n + 1, <<>>, v)) =
                        IF src = v
                        THEN Cardinality(Waiting(T, graph, n, <<>>, v)) + 1
                        ELSE Cardinality(Waiting(T, graph, n, <<>>, v))
          BY <4>1, <4>3, <4>4, WaitingAdd
        <4> QED
          BY <4>5 DEF src
      <3>4. /\ graph[table] \in Seq(T) /\ Append(graph[table], fk.source) \in Seq(T)
            /\ Len(Append(graph[table], fk.source)) = Len(graph[table]) + 1
            /\ \A t \in T : Len(graph[t]) \in Nat
        BY <1>2, <1>7, <3>1, AppendProperties, LenProperties
      <3>5. graph' \in [T -> Seq(T)] /\ in_degree' \in [T -> Nat]
        BY <1>2, <1>7, <3>1, <3>2, <3>4
      <3>6. \A t \in T : Len(graph'[t]) <= n + 1
        <4>1. \A t \in T : graph'[t] = IF t = table THEN Append(graph[table], fk.source)
                                       ELSE graph[t]
          BY <1>2, <3>1, <3>2
        <4>2. /\ n \in Nat /\ \A t \in T : Len(graph[t]) <= n
              /\ \A t \in T : Len(graph[t]) \in Nat
          BY <1>2, <1>3, <3>4
        <4> DEFINE more == Append(graph[table], fk.source)
        <4>3. Len(more) = Len(graph[table]) + 1
          BY <3>4
        <4> HIDE DEF more
        <4>4. ASSUME NEW t \in T PROVE Len(graph'[t]) <= n + 1
          <5>1. CASE t = table
            <6>1. graph'[t] = more
              BY <4>1, <5>1 DEF more
            <6>2. Len(graph[table]) <= n /\ Len(graph[table]) \in Nat
              BY <4>2, <5>1
            <6> QED
              BY <4>2, <4>3, <6>1, <6>2
          <5>2. CASE t # table
            <6>1. graph'[t] = graph[t]
              BY <4>1, <5>2
            <6> QED
              BY <4>2, <6>1
          <5> QED
            BY <5>1, <5>2
        <4> QED
          BY <4>4
      <3>7. \A v \in T : in_degree'[v] = IF fk.source = v THEN in_degree[v] + 1 ELSE in_degree[v]
        BY <1>2, <1>7, <3>2
      <3>8. Counted
        BY <1>3, <3>1, <3>3, <3>7
      <3> QED
        BY <3>1, <3>5, <3>6, <3>8
    <2> QED
      BY <2>1, <2>2, <2>3
  <1>11. TypeOK'
    <2>1. Indices(builder'.foreign_key_pool) = Indices(builder.foreign_key_pool)
      BY <1>5
    <2>2. ColumnsFit(builder')
      BY <1>2, <1>5 DEF ColumnsFit
    <2> HIDE DEF T, fk, table
    <2>3. resolved' \in Seq([pool_index : Indices(builder'.foreign_key_pool),
                             table : Tables(builder'), column : Nat])
      BY <1>6, <1>9, <2>1
    <2>4. graph' \in [Tables(builder') -> Seq(Tables(builder'))]
          /\ in_degree' \in [Tables(builder') -> Nat]
      BY <1>6, <1>10
    <2>5. old_by_name' \in Seq(Tables(builder'))
          /\ \A s \in {queue', edges', sorted'} : s \in Seq(Tables(builder'))
      BY <1>1, <1>2, <1>6
    <2>6. rows' \in Seq(Rows) /\ schema' \in {None} \cup DatabaseSchema
          /\ (phase' = "done" <=> schema' # None)
      BY <1>1, <1>2
    <2> QED
      BY <1>1, <1>5, <2>2, <2>3, <2>4, <2>5, <2>6 DEF TypeOK, ColumnsFit
  <1>12. IndexInv'
    BY <1>1, <1>3, <1>5 DEF IndexInv
  <1>13. GraphInv'
    BY <1>6, <1>10 DEF GraphInv
  <1>14. EarlyInv' /\ CountsAreRight' /\ OrderInv' /\ DoneInv'
    BY <1>1, <1>3 DEF EarlyInv, CountsAreRight, OrderInv, DoneInv
  <1> QED
    BY <1>11, <1>12, <1>13, <1>14 DEF IInv

\* Times over two lists.
LEMMA TimesConcat ==
    ASSUME NEW S, NEW s \in Seq(S), NEW t \in Seq(S), NEW v
    PROVE  Times(s \o t, v) = Times(s, v) + Times(t, v)
  <1> DEFINE A == Places1(s, v)
             B == Places1(t, v)
             l == Len(s)
             C == {i \in 1..(l + Len(t)) : i > l /\ (s \o t)[i] = v}
             f == [i \in B |-> l + i]
  <1>1. /\ IsFiniteSet(A) /\ IsFiniteSet(B) /\ Times(s, v) = Cardinality(A)
        /\ Times(t, v) = Cardinality(B)
    BY TimesIs
  <1>2. /\ l \in Nat /\ Len(t) \in Nat /\ DOMAIN s = 1..l /\ DOMAIN t = 1..Len(t)
        /\ s \o t \in Seq(S) /\ Len(s \o t) = l + Len(t)
        /\ DOMAIN (s \o t) = 1..(l + Len(t))
        /\ \A i \in 1..l : (s \o t)[i] = s[i]
        /\ \A j \in 1..Len(t) : (s \o t)[l + j] = t[j]
    BY ConcatAt, LenProperties
  <1> HIDE DEF l
  <1> DEFINE u == s \o t
             m == Len(t)
  <1>a. /\ l \in Nat /\ m \in Nat /\ DOMAIN s = 1..l /\ DOMAIN t = 1..m
        /\ DOMAIN u = 1..(l + m)
        /\ \A i \in 1..l : u[i] = s[i]
        /\ \A j \in 1..m : u[l + j] = t[j]
        /\ C = {i \in 1..(l + m) : i > l /\ u[i] = v}
    BY <1>2
  <1> HIDE DEF u, m, C
  <1>3. f \in [B -> C]
    <2>1. ASSUME NEW i \in B PROVE l + i \in C
      <3>1. i \in 1..m /\ t[i] = v
        BY <1>a DEF Places1
      <3> QED
        BY <1>a, <3>1
    <2> QED
      BY <2>1
  <1>4. \A x, y \in B : f[x] = f[y] => x = y
    <2>1. \A x \in B : x \in Nat
      BY <1>a DEF Places1
    <2> QED
      BY <1>a, <2>1
  <1>5. \A y \in C : \E x \in B : f[x] = y
    <2>1. ASSUME NEW y \in C PROVE y - l \in B /\ l + (y - l) = y
      <3>1. y \in 1..(l + m) /\ y > l /\ u[y] = v
        BY <1>a
      <3>2. y - l \in 1..m /\ l + (y - l) = y
        BY <1>a, <3>1
      <3>3. t[y - l] = v
        BY <1>a, <3>1, <3>2
      <3> QED
        BY <1>a, <3>2, <3>3 DEF Places1
    <2> HIDE DEF B
    <2> QED
      BY <2>1
  <1>6. IsFiniteSet(C) /\ Cardinality(C) = Cardinality(B)
    <2> HIDE DEF f, B
    <2> QED
      BY <1>1, <1>3, <1>4, <1>5, SameSize
  <1>7. Places1(u, v) = A \cup C /\ A \cap C = {}
    BY <1>a DEF Places1
  <1>8. Cardinality(A \cup C) = Cardinality(A) + Cardinality(C) - Cardinality({})
    <2> HIDE DEF A
    <2> QED
      BY <1>1, <1>6, <1>7, FS_Union
  <1>9. Cardinality({}) = 0 /\ Cardinality(A) \in Nat /\ Cardinality(C) \in Nat
    BY <1>1, <1>6, FS_EmptySet, FS_CardinalityType
  <1>10. Times(u, v) = Cardinality(A \cup C)
    BY <1>7 DEF Times, Places1
  <1> QED
    BY <1>1, <1>6, <1>8, <1>9, <1>10 DEF u

\* What CountsAreRight says of a table v.
RightFor(T, g, n, degree, list, done, ready, v) ==
    /\ degree[v] = Times(list, v) + Cardinality(Waiting(T, g, n, done, v))
    /\ Times(done, v) + Times(ready, v) = IF degree[v] = 0 THEN 1 ELSE 0

LEMMA RightForIs ==
    ASSUME NEW T, NEW g, NEW n, NEW degree, NEW list, NEW done \in Seq(T),
           NEW ready \in Seq(T), NEW v
    PROVE  RightFor(T, g, n, degree, list, done, ready, v) <=>
              /\ degree[v] = Times(list, v)
                             + Cardinality(Waiting(T, g, n, done, v))
              /\ Times(done \o ready, v) = IF degree[v] = 0 THEN 1 ELSE 0
  <1>1. Times(done \o ready, v) = Times(done, v) + Times(ready, v)
    BY TimesConcat
  <1> QED
    BY <1>1 DEF RightFor

LEMMA StartSortKeeps ==
    ASSUME IInv, StartSort
    PROVE  IInv'
  <1> DEFINE T == Tables(builder)
             n == Len(resolved)
             Z == {t \in T : in_degree[t] = 0}
  <1>1. /\ phase = "resolve" /\ phase' = "sort"
        /\ queue' = InOrder(Z)
        /\ UNCHANGED <<rows, builder, old_by_name, resolved, graph, in_degree,
                       edges, sorted, schema>>
    BY DEF StartSort
  <1>2. /\ TypeOK /\ edges = <<>> /\ sorted = <<>>
        /\ builder \in DatabaseSchemaBuilder
        /\ IndexInv
        /\ \A t \in T : Len(graph[t]) <= n
        /\ \A v \in T : in_degree[v] = Cardinality(Waiting(T, graph, n, <<>>, v))
    BY <1>1 DEF IInv, TypeOK, EarlyInv, GraphInv
  <1>3. IsFiniteSet(Z) /\ Z \in SUBSET Nat /\ Z \in SUBSET T /\ IsFiniteSet(T)
    <2>1. IsFiniteSet(T) /\ T \in SUBSET Nat
      BY <1>2, TablesAre
    <2> QED
      BY <2>1, FS_Subset
  <1>4. queue' \in Seq(Z) /\ \A v : Times(queue', v) = IF v \in Z THEN 1 ELSE 0
    BY <1>1, <1>3, InOrderIs
  <1>5. queue' \in Seq(T)
    BY <1>3, <1>4
  <1>6. TypeOK'
    BY <1>1, <1>2, <1>5 DEF TypeOK
  <1>7. CountsAreRight'
    <2>1. ASSUME NEW v \in T
          PROVE  RightFor(T, graph, n, in_degree, edges, sorted, queue', v)
      <3>1. Times(<<>>, v) = 0
        BY TimesEmpty
      <3>2. Cardinality(Waiting(T, graph, n, <<>>, v)) \in Nat
        <4>1. n \in Nat
          BY <1>2, LenProperties DEF TypeOK
        <4> QED
          BY <1>3, <4>1, WaitingIsFinite
      <3>3. Times(queue', v) = IF in_degree[v] = 0 THEN 1 ELSE 0
        BY <1>4
      <3> HIDE DEF T, n
      <3> QED
        BY <1>2, <3>1, <3>2, <3>3 DEF RightFor
    <2>2. sorted \in Seq(T)
      BY <1>2 DEF TypeOK
    <2> HIDE DEF T, n
    <2>3. \A v \in T : /\ in_degree[v] = Times(edges, v) + Cardinality(
                            Waiting(T, graph, n, sorted, v))
                       /\ Times(sorted \o queue', v) = IF in_degree[v] = 0 THEN 1 ELSE 0
      BY <1>5, <2>1, <2>2, RightForIs
    <2> QED
      BY <1>1, <2>3 DEF CountsAreRight, T, n
  <1>8. IndexInv' /\ GraphInv' /\ EarlyInv' /\ OrderInv' /\ DoneInv'
    BY <1>1, <1>2 DEF IndexInv, GraphInv, EarlyInv, OrderInv, DoneInv
  <1> QED
    BY <1>6, <1>7, <1>8 DEF IInv

\* What a round of the sort starts from, and what it has to show.
LEMMA SortRound ==
    ASSUME IInv, phase = "sort"
    PROVE  LET T == Tables(builder)
           IN  /\ IsFiniteSet(T) /\ HaveRoom(T, graph, Len(resolved))
               /\ in_degree \in [T -> Nat] /\ queue \in Seq(T)
               /\ edges \in Seq(T) /\ sorted \in Seq(T)
               /\ \A v \in T : RightFor(T, graph, Len(resolved), in_degree,
                                        edges, sorted, queue, v)
  <1> DEFINE T == Tables(builder)
             n == Len(resolved)
  <1>1. /\ builder \in DatabaseSchemaBuilder /\ n \in Nat
        /\ graph \in [T -> Seq(T)] /\ in_degree \in [T -> Nat]
        /\ queue \in Seq(T) /\ edges \in Seq(T) /\ sorted \in Seq(T)
    BY LenProperties DEF IInv, TypeOK
  <1>2. \A t \in T : Len(graph[t]) <= n
    BY DEF IInv, GraphInv
  <1>3. HaveRoom(T, graph, n)
    BY <1>1, <1>2 DEF HaveRoom
  <1>4. IsFiniteSet(T)
    BY <1>1, TablesAre
  <1>5. \A v \in T : /\ in_degree[v] = Times(edges, v) + Cardinality(
                            Waiting(T, graph, n, sorted, v))
                     /\ Times(sorted \o queue, v) = IF in_degree[v] = 0 THEN 1 ELSE 0
    BY DEF IInv, CountsAreRight
  <1> HIDE DEF T, n
  <1>6. \A v \in T : RightFor(T, graph, n, in_degree, edges, sorted, queue, v)
    BY <1>1, <1>5, RightForIs
  <1> QED
    BY <1>1, <1>3, <1>4, <1>6 DEF T, n

LEMMA SortRoundKeeps ==
    ASSUME IInv, phase = "sort",
           UNCHANGED <<rows, phase, builder, old_by_name, resolved, graph, schema>>,
           in_degree' \in [Tables(builder) -> Nat],
           queue' \in Seq(Tables(builder)), edges' \in Seq(Tables(builder)),
           sorted' \in Seq(Tables(builder)),
           \A v \in Tables(builder) :
              RightFor(Tables(builder), graph, Len(resolved), in_degree',
                       edges', sorted', queue', v)
    PROVE  IInv'
  <1> DEFINE T == Tables(builder)
             n == Len(resolved)
  <1>1. /\ phase' = "sort"
        /\ UNCHANGED <<rows, builder, old_by_name, resolved, graph, schema>>
    OBVIOUS
  <1>2. TypeOK'
    BY <1>1 DEF IInv, TypeOK
  <1>3. CountsAreRight'
    <2>1. /\ queue' \in Seq(T) /\ sorted' \in Seq(T)
          /\ \A v \in T : RightFor(T, graph, n, in_degree', edges', sorted', queue', v)
      OBVIOUS
    <2> HIDE DEF T, n
    <2>3. \A v \in T : /\ in_degree'[v] = Times(edges', v) + Cardinality(
                            Waiting(T, graph, n, sorted', v))
                       /\ Times(sorted' \o queue', v) = IF in_degree'[v] = 0 THEN 1 ELSE 0
      BY <2>1, RightForIs
    <2> QED
      BY <1>1, <2>3 DEF CountsAreRight, T, n
  <1>4. IndexInv' /\ GraphInv' /\ EarlyInv' /\ OrderInv' /\ DoneInv'
    BY <1>1 DEF IInv, IndexInv, GraphInv, EarlyInv, OrderInv, DoneInv
  <1> QED
    BY <1>2, <1>3, <1>4 DEF IInv

LEMMA VisitKeeps ==
    ASSUME IInv, Visit
    PROVE  IInv'
  <1> DEFINE T == Tables(builder)
             n == Len(resolved)
             h == Head(queue)
  <1>1. /\ phase = "sort" /\ edges = <<>> /\ queue # <<>>
        /\ sorted' = Append(sorted, h) /\ edges' = graph[h] /\ queue' = Tail(queue)
        /\ UNCHANGED <<rows, phase, builder, old_by_name, resolved, graph,
                       in_degree, schema>>
    BY DEF Visit
  <1>2. /\ IsFiniteSet(T) /\ HaveRoom(T, graph, n)
        /\ in_degree \in [T -> Nat] /\ queue \in Seq(T)
        /\ edges \in Seq(T) /\ sorted \in Seq(T)
        /\ \A v \in T : RightFor(T, graph, n, in_degree, edges, sorted, queue, v)
    BY <1>1, SortRound
  <1>3. /\ h \in T /\ Tail(queue) \in Seq(T)
        /\ \A v : Times(queue, v) = IF h = v THEN Times(Tail(queue), v) + 1
                                             ELSE Times(Tail(queue), v)
    <2> HIDE DEF T
    <2> QED
      BY <1>1, <1>2, TimesTail
  <1> HIDE DEF T, n, h
  <1>4. \A v : /\ Times(Tail(queue), v) \in Nat /\ Times(sorted, v) \in Nat
               /\ Times(sorted, v) = 0 <=> ~ Contains(sorted, v)
    BY <1>2, <1>3, TimesIs
  <1>5. ~ Contains(sorted, h)
    <2>1. Times(sorted, h) + Times(queue, h) <= 1
      <3>1. RightFor(T, graph, n, in_degree, edges, sorted, queue, h)
        BY <1>2, <1>3
      <3> QED
        BY <3>1 DEF RightFor
    <2>2. Times(queue, h) = Times(Tail(queue), h) + 1
      BY <1>3
    <2>3. Times(sorted, h) = 0
      BY <1>4, <2>1, <2>2
    <2> QED
      BY <1>4, <2>3
  <1>6. graph[h] \in Seq(T)
    BY <1>2, <1>3 DEF HaveRoom
  <1>7. Append(sorted, h) \in Seq(T)
    BY <1>2, <1>3, AppendProperties
  <1>8. ASSUME NEW v \in T
        PROVE  RightFor(T, graph, n, in_degree', edges', sorted', queue', v)
    <2>1. /\ in_degree[v] = Times(<<>>, v) + Cardinality(Waiting(T, graph, n, sorted, v))
          /\ Times(sorted, v) + Times(queue, v) = IF in_degree[v] = 0 THEN 1 ELSE 0
      BY <1>1, <1>2 DEF RightFor
    <2>2. Times(<<>>, v) = 0
      BY TimesEmpty
    <2>3. Cardinality(Waiting(T, graph, n, sorted, v)) =
              Times(graph[h], v) + Cardinality(Waiting(T, graph, n, Append(sorted, h), v))
      BY <1>2, <1>3, <1>5, WaitingVisit
    <2>4. Times(Append(sorted, h), v) = IF h = v THEN Times(sorted, v) + 1 ELSE Times(sorted, v)
      BY <1>2, <1>3, TimesAppend
    <2>5. Times(queue, v) = IF h = v THEN Times(Tail(queue), v) + 1
                                     ELSE Times(Tail(queue), v)
      BY <1>3
    <2>6. Times(Append(sorted, h), v) + Times(Tail(queue), v) = Times(sorted, v) + Times(queue, v)
      <3>1. Times(Tail(queue), v) \in Nat /\ Times(sorted, v) \in Nat
        BY <1>4
      <3> QED
        BY <2>4, <2>5, <3>1
    <2>7. in_degree[v] = Times(graph[h], v) + Cardinality(Waiting(T, graph, n, Append(sorted, h), v))
      <3>1. in_degree[v] \in Nat
        BY <1>2
      <3>2. Times(graph[h], v) \in Nat
            /\ Cardinality(Waiting(T, graph, n, Append(sorted, h), v)) \in Nat
        BY <1>2, <1>6, TimesIs, WaitingIsFinite DEF HaveRoom
      <3> QED
        BY <2>1, <2>2, <2>3, <3>1, <3>2
    <2>8. RightFor(T, graph, n, in_degree, graph[h], Append(sorted, h), Tail(queue), v)
      BY <2>1, <2>6, <2>7 DEF RightFor
    <2> QED
      BY <1>1, <2>8
  <1>9. in_degree' = in_degree
    BY <1>1
  <1> QED
    BY <1>1, <1>2, <1>3, <1>6, <1>7, <1>8, <1>9, SortRoundKeeps DEF T, n

LEMMA RelaxKeeps ==
    ASSUME IInv, Relax
    PROVE  IInv'
  <1> DEFINE T == Tables(builder)
             n == Len(resolved)
             h == Head(edges)
  <1>1. /\ phase = "sort" /\ edges # <<>> /\ edges' = Tail(edges)
        /\ in_degree' = [in_degree EXCEPT ![h] = in_degree[h] - 1]
        /\ queue' = IF in_degree[h] = 1 THEN Append(queue, h) ELSE queue
        /\ UNCHANGED <<rows, phase, builder, old_by_name, resolved, graph,
                       sorted, schema>>
    BY DEF Relax, Ready
  <1>2. /\ IsFiniteSet(T) /\ HaveRoom(T, graph, n)
        /\ in_degree \in [T -> Nat] /\ queue \in Seq(T)
        /\ edges \in Seq(T) /\ sorted \in Seq(T)
        /\ \A v \in T : RightFor(T, graph, n, in_degree, edges, sorted, queue, v)
    BY <1>1, SortRound
  <1>3. /\ h \in T /\ Tail(edges) \in Seq(T)
        /\ \A v : Times(edges, v) = IF h = v THEN Times(Tail(edges), v) + 1
                                             ELSE Times(Tail(edges), v)
    <2> HIDE DEF T
    <2> QED
      BY <1>1, <1>2, TimesTail
  <1> HIDE DEF T, n, h
  <1>4. \A v : /\ Times(Tail(edges), v) \in Nat /\ Times(sorted, v) \in Nat
               /\ Times(queue, v) \in Nat
               /\ Cardinality(Waiting(T, graph, n, sorted, v)) \in Nat
    BY <1>2, <1>3, TimesIs, WaitingIsFinite DEF HaveRoom
  <1>5. \A v \in T :
           /\ in_degree[v] = Times(edges, v) + Cardinality(Waiting(T, graph, n, sorted, v))
           /\ Times(sorted, v) + Times(queue, v) = IF in_degree[v] = 0 THEN 1 ELSE 0
    BY <1>2 DEF RightFor
  <1>6. in_degree[h] \in Nat /\ in_degree[h] >= 1
    <2>1. Times(edges, h) = Times(Tail(edges), h) + 1
      BY <1>3
    <2>2. in_degree[h] = Times(edges, h) + Cardinality(Waiting(T, graph, n, sorted, h))
      BY <1>3, <1>5
    <2> QED
      BY <1>4, <2>1, <2>2
  <1>7. in_degree' \in [T -> Nat]
    BY <1>1, <1>2, <1>3, <1>6
  <1>8. /\ queue' \in Seq(T)
        /\ \A v : Times(queue', v) = IF h = v /\ in_degree[h] = 1
                                     THEN Times(queue, v) + 1
                                     ELSE Times(queue, v)
    <2>1. CASE in_degree[h] = 1
      <3>1. queue' = Append(queue, h)
        BY <1>1, <2>1
      <3> QED
        BY <1>2, <1>3, <2>1, <3>1, TimesAppend, AppendProperties
    <2>2. CASE in_degree[h] # 1
      BY <1>1, <1>2, <2>2
    <2> QED
      BY <2>1, <2>2
  <1>9. ASSUME NEW v \in T
        PROVE  RightFor(T, graph, n, in_degree', edges', sorted', queue', v)
    <2>1. in_degree'[v] = IF h = v THEN in_degree[v] - 1 ELSE in_degree[v]
      BY <1>1, <1>2, <1>3
    <2>2. /\ Times(Tail(edges), v) \in Nat /\ Times(sorted, v) \in Nat
          /\ Times(queue, v) \in Nat
          /\ Cardinality(Waiting(T, graph, n, sorted, v)) \in Nat
          /\ in_degree[v] = Times(edges, v) + Cardinality(Waiting(T, graph, n, sorted, v))
          /\ Times(sorted, v) + Times(queue, v) = IF in_degree[v] = 0 THEN 1 ELSE 0
          /\ in_degree[v] \in Nat
      BY <1>2, <1>4, <1>5
    <2>3. Times(edges, v) = IF h = v THEN Times(Tail(edges), v) + 1
                                     ELSE Times(Tail(edges), v)
      BY <1>3
    <2>4. Times(queue', v) = IF h = v /\ in_degree[h] = 1
                             THEN Times(queue, v) + 1 ELSE Times(queue, v)
      BY <1>8
    <2>5. in_degree'[v] = Times(Tail(edges), v) + Cardinality(Waiting(T, graph, n, sorted, v))
      BY <2>1, <2>2, <2>3
    <2>6. Times(sorted, v) + Times(queue', v) = IF in_degree'[v] = 0 THEN 1 ELSE 0
      <3>1. CASE h # v
        BY <2>1, <2>2, <2>4, <3>1
      <3>2. CASE h = v /\ in_degree[v] = 1
        BY <2>1, <2>2, <2>4, <3>2
      <3>3. CASE h = v /\ in_degree[v] # 1
        BY <1>6, <2>1, <2>2, <2>4, <3>3
      <3> QED
        BY <3>1, <3>2, <3>3
    <2>7. RightFor(T, graph, n, in_degree', Tail(edges), sorted, queue', v)
      BY <2>5, <2>6 DEF RightFor
    <2> QED
      BY <1>1, <2>7
  <1> QED
    BY <1>1, <1>2, <1>3, <1>7, <1>8, <1>9, SortRoundKeeps DEF T, n

LEMMA AddCyclesKeeps ==
    ASSUME IInv, AddCycles
    PROVE  IInv'
  <1> DEFINE T == Tables(builder)
             n == Len(resolved)
             R == {t \in T : ~ Contains(sorted, t)}
  <1>1. /\ phase = "sort" /\ phase' = "number" /\ queue = <<>>
        /\ sorted' = sorted \o InOrder(R)
        /\ UNCHANGED <<rows, builder, old_by_name, resolved, graph, in_degree,
                       queue, edges, schema>>
    BY DEF AddCycles, Visited
  <1>2. /\ IsFiniteSet(T) /\ sorted \in Seq(T) /\ in_degree \in [T -> Nat]
        /\ \A v \in T : RightFor(T, graph, n, in_degree, edges, sorted, queue, v)
    BY <1>1, SortRound
  <1>3. IsFiniteSet(R) /\ R \in SUBSET Nat /\ R \in SUBSET T
    <2>1. T \in SUBSET Nat
      BY TablesAre DEF IInv, TypeOK
    <2> QED
      BY <1>2, <2>1, FS_Subset
  <1>4. InOrder(R) \in Seq(R) /\ \A v : Times(InOrder(R), v) = IF v \in R THEN 1 ELSE 0
    BY <1>3, InOrderIs
  <1>5. InOrder(R) \in Seq(T)
    BY <1>3, <1>4
  <1>6. sorted' \in Seq(T)
    BY <1>1, <1>2, <1>5, ConcatAt
  <1>7. TypeOK'
    BY <1>1, <1>6 DEF IInv, TypeOK
  <1>8. ASSUME NEW t \in T PROVE Times(sorted', t) = 1
    <2>1. Times(sorted', t) = Times(sorted, t) + Times(InOrder(R), t)
      BY <1>1, <1>2, <1>5, TimesConcat
    <2>2. /\ Times(sorted, t) \in Nat
          /\ Times(sorted, t) = 0 <=> ~ Contains(sorted, t)
      BY <1>2, TimesIs
    <2>3. Times(sorted, t) <= 1
      <3>1. Times(queue, t) = 0
        BY <1>1, TimesEmpty
      <3>2. Times(sorted, t) + Times(queue, t) = IF in_degree[t] = 0 THEN 1 ELSE 0
        BY <1>2 DEF RightFor
      <3> QED
        BY <2>2, <3>1, <3>2
    <2>4. Times(InOrder(R), t) = IF Contains(sorted, t) THEN 0 ELSE 1
      BY <1>4
    <2> QED
      BY <2>1, <2>2, <2>3, <2>4
  <1>9. OrderInv'
    BY <1>1, <1>8 DEF OrderInv
  <1>10. IndexInv' /\ GraphInv' /\ EarlyInv' /\ CountsAreRight' /\ DoneInv'
    BY <1>1 DEF IInv, IndexInv, GraphInv, EarlyInv, CountsAreRight, DoneInv
  <1> QED
    BY <1>7, <1>9, <1>10 DEF IInv

LEMMA NewFkIs ==
    ASSUME NEW fks, Len(fks) \in Nat, NEW i
    PROVE  NewFk(fks, i) \in {None} \cup Indices(fks)
  <1> DEFINE I == {j \in 1..Len(fks) : fks[j].pool_index = i}
             p == SelectInSeq(fks, LAMBDA r : r.pool_index = i)
  <1>1. p = IF I # {} THEN Min(I) ELSE 0
    BY DEF SelectInSeq
  <1>2. I # {} => Min(I) \in I
    <2>1. ASSUME I # {} PROVE \E m \in I : \A j \in I : m <= j
      <3>1. I \in SUBSET Nat
        OBVIOUS
      <3> HIDE DEF I
      <3> QED
        BY <2>1, <3>1, Least
    <2> HIDE DEF I
    <2> QED
      BY <2>1 DEF Min
  <1>3. NewFk(fks, i) = IF p = 0 THEN None ELSE p - 1
    BY DEF NewFk
  <1>4. p \in 0..Len(fks)
    <2> HIDE DEF p
    <2> QED
      BY <1>1, <1>2
  <1> HIDE DEF p
  <1> QED
    BY <1>3, <1>4 DEF Indices

LEMMA CompactedIs ==
    ASSUME NEW fks, Len(fks) \in Nat, NEW start \in Nat, NEW len \in Nat
    PROVE  Compacted(fks, start, len) \in PoolRanges
  <1> DEFINE kept == {i \in start..(start + len - 1) : NewFk(fks, i) # None}
             first == CHOOSE i \in kept : \A j \in kept : i <= j
  <1>1. IsFiniteSet(kept) /\ kept \in SUBSET Nat
    <2>1. IsFiniteSet(start..(start + len - 1))
      BY FS_Interval
    <2> QED
      BY <2>1, FS_Subset
  <1>2. kept # {} => NewFk(fks, first) \in Nat
    <2> SUFFICES ASSUME kept # {} PROVE NewFk(fks, first) \in Nat
      OBVIOUS
    <2>1. \E i \in kept : \A j \in kept : i <= j
      <3> HIDE DEF kept
      <3> QED
        BY <1>1, Least
    <2>2. first \in kept
      <3> HIDE DEF kept
      <3> QED
        BY <2>1
    <2>3. NewFk(fks, first) # None
      <3> HIDE DEF first
      <3> QED
        BY <2>2
    <2>4. NewFk(fks, first) \in {None} \cup Indices(fks)
      BY NewFkIs
    <2> HIDE DEF first
    <2> QED
      BY <2>3, <2>4 DEF Indices
  <1>3. AsU16(Cardinality(kept)) \in Nat
    BY <1>1, FS_CardinalityType, AsU16Fits
  <1>4. Compacted(fks, start, len) = PoolRange(IF kept = {} THEN 0 ELSE NewFk(fks, first),
                                          AsU16(Cardinality(kept)))
    BY DEF Compacted
  <1> HIDE DEF kept, first
  <1> QED
    BY <1>2, <1>3, <1>4 DEF PoolRange, PoolRanges

LEMMA NewTableIs ==
    ASSUME NEW fks, Len(fks) \in Nat, NEW t \in TableMeta
    PROVE  /\ NewTable(fks, t) \in TableMeta
           /\ NewTable(fks, t).name = t.name
  <1> DEFINE range == Compacted(fks, t.fk_start, t.fk_len)
  <1>1. range \in PoolRanges
    BY CompactedIs DEF TableMeta
  <1>2. NewTable(fks, t) = [t EXCEPT !.fk_start = range.start, !.fk_len = range.len]
    BY DEF NewTable
  <1> HIDE DEF range
  <1>3. range.start \in Nat /\ range.len \in Nat
    BY <1>1 DEF PoolRanges
  <1> QED
    BY <1>2, <1>3 DEF TableMeta

LEMMA NewColumnIs ==
    ASSUME NEW fks, Len(fks) \in Nat, NEW c \in Column
    PROVE  NewColumn(fks, c) \in Column
  <1> DEFINE range == Compacted(fks, c.foreign_keys.start, c.foreign_keys.len)
  <1>1. range \in PoolRanges
    BY CompactedIs DEF Column, PoolRanges
  <1>2. NewColumn(fks, c) = [c EXCEPT !.foreign_keys = range]
    BY DEF NewColumn
  <1> HIDE DEF range
  <1> QED
    BY <1>1, <1>2 DEF Column

LEMMA SchemaMade ==
    ASSUME NEW hash \in STRING, NEW interner \in Seq(STRING), NEW tables \in Seq(TableMeta),
           NEW by_name \in Seq(Nat), NEW columns \in Seq(Column),
           NEW column_names \in Seq(Symbol), NEW constraints \in Seq(Symbol),
           NEW fks \in Seq(ForeignKey)
    PROVE  [hash |-> hash, interner |-> interner, tables |-> tables,
            by_name |-> by_name, columns |-> columns,
            column_names |-> column_names, constraint_pool |-> constraints,
            foreign_key_pool |-> fks] \in DatabaseSchema
  BY DEF DatabaseSchema

\* The result does not change once the sort is over.
LEMMA BuiltStays ==
    ASSUME UNCHANGED <<builder, resolved, sorted>>
    PROVE  Built' = Built
  <1>1. \A r : NewForeignKey(r)' = NewForeignKey(r)
    BY DEF NewForeignKey
  <1> QED
    BY <1>1 DEF Built

\* What build numbers and compacts is a schema, and its index by name is that
\* of its tables.
LEMMA BuiltIs ==
    ASSUME IInv, phase \in {"number", "done"}
    PROVE  /\ Built \in DatabaseSchema
           /\ Built.by_name = SortedByName(Built.tables)
           /\ Len(Built.tables) = Len(sorted)
           /\ \A i \in DOMAIN sorted :
                 Built.tables[i].name = TableName(builder, sorted[i])
  <1> DEFINE T == Tables(builder)
             old == [i \in DOMAIN sorted |-> At(builder.tables, sorted[i])]
             new == [i \in DOMAIN sorted |-> NewTable(resolved, old[i])]
             columns == [i \in DOMAIN builder.columns |->
                            NewColumn(resolved, builder.columns[i])]
             fks == [i \in DOMAIN resolved |-> NewForeignKey(resolved[i])]
             Resolved == [pool_index : Indices(builder.foreign_key_pool),
                          table : T, column : Nat]
  <1>1. /\ builder \in DatabaseSchemaBuilder /\ sorted \in Seq(T)
        /\ resolved \in Seq(Resolved) /\ Len(resolved) \in Nat
        /\ Len(sorted) \in Nat /\ DOMAIN sorted = 1..Len(sorted)
    BY LenProperties DEF IInv, TypeOK
  <1>2. /\ Built = [hash |-> Hash, interner |-> builder.interner,
                    tables |-> new, by_name |-> SortedByName(old),
                    columns |-> columns, column_names |-> builder.column_names,
                    constraint_pool |-> builder.constraint_pool,
                    foreign_key_pool |-> fks]
    BY DEF Built
  <1>3. \A i \in DOMAIN sorted : sorted[i] \in T /\ old[i] \in TableMeta
    <2>1. \A i \in DOMAIN sorted : sorted[i] \in T
      BY <1>1, ElementOfSeq
    <2> QED
      BY <1>1, <2>1, TablesAre
  <1>4. \A i \in DOMAIN sorted : new[i] \in TableMeta /\ new[i].name = old[i].name
    <2> HIDE DEF old
    <2> QED
      BY <1>1, <1>3, NewTableIs
  <1>5. /\ new \in Seq(TableMeta) /\ Len(new) = Len(sorted)
        /\ old \in Seq(TableMeta) /\ Len(old) = Len(sorted)
    <2>1. /\ DOMAIN new = DOMAIN sorted /\ DOMAIN old = DOMAIN sorted
          /\ new = [i \in DOMAIN new |-> new[i]]
          /\ old = [i \in DOMAIN old |-> old[i]]
      OBVIOUS
    <2> HIDE DEF new, old, T
    <2>2. \A i \in DOMAIN sorted : new[i] \in TableMeta /\ old[i] \in TableMeta
      BY <1>3, <1>4
    <2>3. sorted \in Seq(T)
      BY <1>1
    <2> QED
      BY <2>1, <2>2, <2>3, MappedSeq
  <1>6. columns \in Seq(Column)
    <2>1. builder.columns \in Seq(Column)
      BY <1>1, BuilderTypes
    <2>2. \A i \in DOMAIN builder.columns : builder.columns[i] \in Column
      BY <2>1, ElementOfSeq, LenProperties
    <2>3. \A i \in DOMAIN builder.columns : columns[i] \in Column
      BY <1>1, <2>2, NewColumnIs
    <2>4. DOMAIN columns = DOMAIN builder.columns
          /\ columns = [i \in DOMAIN columns |-> columns[i]]
      OBVIOUS
    <2> HIDE DEF columns
    <2> QED
      BY <2>1, <2>3, <2>4, MappedSeq
  <1>7. fks \in Seq(ForeignKey)
    <2>1. ASSUME NEW r \in Resolved PROVE NewForeignKey(r) \in ForeignKey
      <3>1. At(builder.foreign_key_pool, r.pool_index) \in ForeignKey
        <4>1. builder.foreign_key_pool \in Seq(ForeignKey) /\ Len(builder.foreign_key_pool) \in Nat
          BY <1>1, BuilderTypes
        <4>2. r.pool_index + 1 \in 1..Len(builder.foreign_key_pool)
          BY <4>1 DEF Indices
        <4> QED
          BY <4>1, <4>2, ElementOfSeq DEF At
      <3>2. Position(sorted, r.table) \in Nat
        <4>1. Times(sorted, r.table) = 1
          BY DEF IInv, OrderInv
        <4>2. Contains(sorted, r.table)
          BY <1>1, <4>1, TimesIs
        <4>3. \E i \in 1..Len(sorted) : sorted[i] = r.table
          BY <4>2 DEF Contains
        <4>4. None \notin Nat
          BY NoneAssumption
        <4>5. Position(sorted, r.table) # None /\ Position(sorted, r.table) \in Indices(sorted)
          BY <1>1, <4>3, <4>4, PositionFinds
        <4> QED
          BY <4>5 DEF Indices
      <3>3. r.column \in Nat
        OBVIOUS
      <3> DEFINE fk == At(builder.foreign_key_pool, r.pool_index)
                 place == Position(sorted, r.table)
      <3>4. NewForeignKey(r) = [fk EXCEPT !.table = place, !.column = r.column]
        BY DEF NewForeignKey
      <3> HIDE DEF fk, place
      <3> QED
        BY <3>1, <3>2, <3>3, <3>4 DEF ForeignKey, fk, place
    <2>2. \A i \in DOMAIN resolved : resolved[i] \in Resolved
      BY <1>1, ElementOfSeq, LenProperties
    <2>3. \A i \in DOMAIN resolved : fks[i] \in ForeignKey
      BY <2>1, <2>2
    <2>4. DOMAIN fks = DOMAIN resolved /\ fks = [i \in DOMAIN fks |-> fks[i]]
      OBVIOUS
    <2> HIDE DEF fks, Resolved
    <2> QED
      BY <1>1, <2>3, <2>4, MappedSeq
  <1>8. SortedByName(new) = SortedByName(old)
    <2>1. Indices(new) = Indices(old)
      BY <1>5 DEF Indices
    <2>2. \A t \in Indices(new) : At(new, t).name = At(old, t).name
      <3>1. \A t \in Indices(new) : t + 1 \in DOMAIN sorted
        <4> HIDE DEF new, old
        <4> QED
          BY <1>1, <1>5 DEF Indices
      <3> HIDE DEF new, old
      <3> QED
        BY <1>4, <3>1 DEF At
    <2>3. [t \in Indices(new) |-> At(new, t).name] = [t \in Indices(old) |-> At(old, t).name]
      <3> HIDE DEF new, old
      <3> QED
        BY <2>1, <2>2
    <2> HIDE DEF new, old
    <2> QED
      BY <2>1, <2>3 DEF SortedByName
  <1>9. SortedByName(old) \in Seq(Nat)
    <2> DEFINE S == Indices(old)
               key == [t \in S |-> At(old, t).name]
    <2>1. S \in SUBSET Int /\ S \in SUBSET Nat /\ IsFiniteSet(S) /\ S = 0..(Len(sorted) - 1)
      <3>1. S = 0..(Len(sorted) - 1)
        BY <1>5 DEF Indices
      <3>2. IsFiniteSet(0..(Len(sorted) - 1))
        BY <1>1, FS_Interval
      <3> HIDE DEF old, S
      <3> QED
        BY <1>1, <3>1, <3>2
    <2>2. key \in [S -> Int]
      <3>1. \A t \in S : t + 1 \in DOMAIN sorted
        <4> HIDE DEF old, S
        <4> QED
          BY <1>1, <2>1
      <3>2. \A t \in S : At(old, t) \in TableMeta
        <4> HIDE DEF old, S
        <4> QED
          BY <1>3, <3>1 DEF At
      <3>3. \A t \in S : At(old, t).name \in Int
        <4> HIDE DEF old, S
        <4> QED
          BY <3>2 DEF TableMeta, Symbol
      <3> HIDE DEF old, S
      <3> QED
        BY <3>3
    <2>3. SortedBy(key, S) \in Seq(S)
      <3> HIDE DEF S, key
      <3> QED
        BY <2>1, <2>2, SortedBySorts
    <2>4. SortedByName(old) = SortedBy(key, S)
      <3> HIDE DEF old
      <3> QED
        BY DEF SortedByName
    <2> HIDE DEF key, S
    <2> QED
      BY <2>1, <2>3, <2>4
  <1>10. Built \in DatabaseSchema
    <2>1. /\ builder.interner \in Seq(STRING) /\ builder.column_names \in Seq(Symbol)
          /\ builder.constraint_pool \in Seq(Symbol)
      BY <1>1, BuilderTypes
    <2> HIDE DEF new, old, columns, fks
    <2>2. new \in Seq(TableMeta)
      BY <1>5
    <2>3. [hash |-> Hash, interner |-> builder.interner,
           tables |-> new, by_name |-> SortedByName(old),
           columns |-> columns, column_names |-> builder.column_names,
           constraint_pool |-> builder.constraint_pool,
           foreign_key_pool |-> fks] \in DatabaseSchema
      BY <1>6, <1>7, <1>9, <2>1, <2>2, HashAssumption, SchemaMade
    <2> QED
      BY <1>2, <2>3
  <1>11. /\ Built.tables = new /\ Built.by_name = SortedByName(old)
    <2> HIDE DEF new, old, columns, fks
    <2> QED
      BY <1>2
  <1>12. \A i \in DOMAIN sorted : old[i].name = TableName(builder, sorted[i])
    BY DEF TableName
  <1> HIDE DEF new, old, columns, fks
  <1> QED
    BY <1>4, <1>5, <1>8, <1>10, <1>11, <1>12

LEMMA FinishKeeps ==
    ASSUME IInv, Finish
    PROVE  IInv'
  <1>1. /\ phase = "number" /\ phase' = "done" /\ schema' = Built
        /\ UNCHANGED <<rows, builder, old_by_name, resolved, graph, in_degree,
                       queue, edges, sorted>>
    BY DEF Finish
  <1>2. Built \in DatabaseSchema
    BY <1>1, BuiltIs
  <1>3. schema' # None
    BY <1>1, <1>2, NoneAssumption
  <1>4. TypeOK'
    BY <1>1, <1>2, <1>3 DEF IInv, TypeOK
  <1>5. Built' = Built
    BY <1>1, BuiltStays
  <1>6. OrderInv' /\ DoneInv'
    BY <1>1, <1>5 DEF IInv, OrderInv, DoneInv
  <1>7. IndexInv' /\ GraphInv' /\ EarlyInv' /\ CountsAreRight'
    BY <1>1 DEF IInv, IndexInv, GraphInv, EarlyInv, CountsAreRight
  <1> QED
    BY <1>4, <1>6, <1>7 DEF IInv

LEMMA StutterKeeps ==
    ASSUME IInv, UNCHANGED vars
    PROVE  IInv'
  <1>1. UNCHANGED <<rows, phase, builder, old_by_name, resolved, graph,
                    in_degree, queue, edges, sorted, schema>>
    BY DEF vars
  <1>2. Built' = Built
    BY <1>1, BuiltStays
  <1> QED
    BY <1>1, <1>2 DEF IInv, TypeOK, IndexInv, GraphInv, EarlyInv, CountsAreRight,
                      OrderInv, DoneInv

LEMMA NextKeeps ==
    ASSUME IInv, [Next]_vars
    PROVE  IInv'
  BY AddRowKeeps, BuildKeeps, ResolveFkKeeps, StartSortKeeps, VisitKeeps,
     RelaxKeeps, AddCyclesKeeps, FinishKeeps, StutterKeeps DEF Next, Step

-----------------------------------------------------------------------------
(* The theorems.                                                           *)

LEMMA Inductive == Spec => []IInv
  BY InitIInv, NextKeeps, PTL DEF Spec

\* The fields of the builder, and of the schema it becomes, keep their types:
\* in every state add_row and build can reach, ranges lie within their pools,
\* the foreign keys that are resolved name tables that exist, and the counts of
\* the sort never fall below 0.
THEOREM TypeCorrect == Spec => []TypeOK
  <1>1. IInv => TypeOK
    BY DEF IInv
  <1> QED
    BY <1>1, Inductive, PTL

\* Kahn's algorithm counts right: in every round a table waits for as many
\* references as lead from it to tables not visited yet, and is sorted or
\* queued, once, when it waits for none.
THEOREM CountsStayRight == Spec => []CountsAreRight
  <1>1. IInv => CountsAreRight
    BY DEF IInv
  <1> QED
    BY <1>1, Inductive, PTL

\* Every table is in the final order exactly once, on a cycle or not.
OrderIsComplete ==
    phase = "done" =>
        /\ \A t \in Tables(builder) : Times(sorted, t) = 1
        /\ Len(schema.tables) = Len(sorted)
        /\ \A i \in DOMAIN sorted :
              schema.tables[i].name = TableName(builder, sorted[i])

\* build neither loses a table nor has one twice, whatever cycles there are.
THEOREM TablesAreKept == Spec => []OrderIsComplete
  <1>1. IInv => OrderIsComplete
    <2> SUFFICES ASSUME IInv, phase = "done" PROVE OrderIsComplete
      BY DEF OrderIsComplete
    <2>1. /\ schema = Built /\ \A t \in Tables(builder) : Times(sorted, t) = 1
      BY DEF IInv, DoneInv, OrderInv
    <2> QED
      BY <2>1, BuiltIs DEF OrderIsComplete
  <1> QED
    BY <1>1, Inductive, PTL

\* The result's table_by_symbol finds a table exactly when one has the name.
LookupIsExact ==
    phase = "done" => \A symbol \in Symbol :
        LET t == TableBySymbol(schema, symbol)
        IN  /\ t # None <=>
                  \E u \in Tables(schema) : TableName(schema, u) = symbol
            /\ t # None => t \in Tables(schema) /\ TableName(schema, t) = symbol

\* The index by name that build makes is sorted as the binary search needs it,
\* although the tables are numbered anew after they were first indexed.
THEOREM LookupsAreExact == Spec => []LookupIsExact
  <1>1. IInv => LookupIsExact
    <2> SUFFICES ASSUME IInv, phase = "done", NEW symbol \in Symbol
                 PROVE  LET t == TableBySymbol(schema, symbol)
                        IN  /\ t # None <=>
                                  \E u \in Tables(schema) : TableName(schema, u) = symbol
                            /\ t # None => t \in Tables(schema) /\ TableName(schema, t) = symbol
      BY DEF LookupIsExact
    <2>1. schema \in DatabaseSchema /\ schema.by_name = SortedByName(schema.tables)
      BY BuiltIs DEF IInv, DoneInv
    <2>2. schema.tables \in Seq(TableMeta) /\ Len(schema.tables) \in Nat
      BY <2>1, LenProperties DEF DatabaseSchema
    <2>3. ASSUME NEW t \in Tables(schema) PROVE TableName(schema, t) \in Int
      <3>1. t + 1 \in 1..Len(schema.tables)
        BY <2>2 DEF Tables, Indices
      <3>2. schema.tables[t + 1] \in TableMeta
        BY <2>2, <3>1, ElementOfSeq
      <3> QED
        BY <3>2 DEF TableName, At, TableMeta, Symbol
    <2>4. symbol \in Int /\ None \notin Nat
      BY NoneAssumption DEF Symbol
    <2> QED
      BY <2>1, <2>2, <2>3, <2>4, LookupFinds
  <1> QED
    BY <1>1, Inductive, PTL

-----------------------------------------------------------------------------
(* The order of the tables.  The table v has a reference to u when v is in *)
(* the list of u.                                                          *)

\* What waits for nothing comes after all it refers to, and before what waits
\* when the sort is over; that waits for one that waits.
BeforeInv ==
    phase \in {"sort", "number", "done"} =>
        \A i, j \in DOMAIN sorted :
            in_degree[sorted[i]] = 0 /\ Contains(graph[sorted[j]], sorted[i])
                => j < i

TangleInv ==
    phase \in {"number", "done"} =>
        /\ \A i, j \in DOMAIN sorted :
              in_degree[sorted[i]] = 0 /\ in_degree[sorted[j]] # 0 => i < j
        /\ \A v \in Tables(builder) : in_degree[v] # 0 =>
              \E u \in Tables(builder) :
                  in_degree[u] # 0 /\ Contains(graph[u], v)

\* What waits for nothing refers to sorted tables only; what is sorted waits
\* for nothing.
LEMMA SortedIsClosed ==
    ASSUME IInv, phase = "sort"
    PROVE  /\ \A v \in Tables(builder) : Contains(sorted, v) \/ Contains(queue, v)
                 <=> in_degree[v] = 0
           /\ \A u, v \in Tables(builder) :
                 in_degree[v] = 0 /\ Contains(graph[u], v) => Contains(sorted, u)
           /\ edges = <<>> => \A v \in Tables(builder) : in_degree[v] # 0 =>
                 \E u \in Tables(builder) :
                     ~ Contains(sorted, u) /\ Contains(graph[u], v)
  <1> DEFINE T == Tables(builder)
             n == Len(resolved)
             W(v) == Waiting(T, graph, n, sorted, v)
  <1>1. /\ IsFiniteSet(T) /\ HaveRoom(T, graph, n)
        /\ in_degree \in [T -> Nat] /\ queue \in Seq(T)
        /\ edges \in Seq(T) /\ sorted \in Seq(T)
        /\ \A v \in T : RightFor(T, graph, n, in_degree, edges, sorted, queue, v)
    BY SortRound
  <1> HIDE DEF T, n
  <1>2. ASSUME NEW v \in T
        PROVE  /\ in_degree[v] = Times(edges, v) + Cardinality(W(v))
               /\ Times(sorted, v) + Times(queue, v) = IF in_degree[v] = 0 THEN 1 ELSE 0
               /\ Times(edges, v) \in Nat /\ Cardinality(W(v)) \in Nat
               /\ IsFiniteSet(W(v))
               /\ Times(sorted, v) \in Nat /\ Times(queue, v) \in Nat
               /\ Times(sorted, v) = 0 <=> ~ Contains(sorted, v)
               /\ Times(queue, v) = 0 <=> ~ Contains(queue, v)
    <2>1. RightFor(T, graph, n, in_degree, edges, sorted, queue, v)
      BY <1>1
    <2>2. n \in Nat
      BY <1>1 DEF HaveRoom
    <2>3. /\ Times(edges, v) \in Nat /\ Times(sorted, v) \in Nat /\ Times(queue, v) \in Nat
          /\ Times(sorted, v) = 0 <=> ~ Contains(sorted, v)
          /\ Times(queue, v) = 0 <=> ~ Contains(queue, v)
      BY <1>1, TimesIs
    <2>4. Cardinality(W(v)) \in Nat /\ IsFiniteSet(W(v))
      BY <1>1, <2>2, WaitingIsFinite
    <2> QED
      BY <2>1, <2>3, <2>4 DEF RightFor
  <1>3. ASSUME NEW v \in T
        PROVE  Contains(sorted, v) \/ Contains(queue, v) <=> in_degree[v] = 0
    <2> HIDE DEF W
    <2> QED
      BY <1>2
  <1>4. ASSUME NEW u \in T, NEW v \in T, in_degree[v] = 0, Contains(graph[u], v)
        PROVE  Contains(sorted, u)
    <2>1. Cardinality(W(v)) = 0 /\ IsFiniteSet(W(v))
      <3> HIDE DEF W
      <3> QED
        BY <1>2, <1>4
    <2>2. W(v) = {}
      BY <2>1, FS_EmptySet
    <2>3. PICK i \in 1..Len(graph[u]) : graph[u][i] = v
      BY <1>4 DEF Contains
    <2>4. graph[u] \in Seq(T) /\ Len(graph[u]) <= n /\ n \in Nat
      BY <1>1 DEF HaveRoom
    <2>5. i \in 1..n /\ i \in DOMAIN graph[u]
      BY <2>3, <2>4, LenProperties
    <2>6. <<u, i>> \in T \X (1..n)
      BY <2>5
    <2>7. ~ Contains(sorted, u) => <<u, i>> \in W(v)
      BY <2>3, <2>5, <2>6 DEF Waiting
    <2> HIDE DEF W
    <2> QED
      BY <2>2, <2>7
  <1>5. ASSUME edges = <<>>, NEW v \in T, in_degree[v] # 0
        PROVE  \E u \in T : ~ Contains(sorted, u) /\ Contains(graph[u], v)
    <2>1. Times(edges, v) = 0
      BY <1>5, TimesEmpty
    <2>2. W(v) # {}
      <3>1. Cardinality(W(v)) # 0
        <4> HIDE DEF W
        <4>1. in_degree[v] = Times(edges, v) + Cardinality(W(v)) /\ Cardinality(W(v)) \in Nat
          BY <1>2, <1>5
        <4> QED
          BY <1>5, <2>1, <4>1
      <3> HIDE DEF W
      <3> QED
        BY <3>1, FS_EmptySet
    <2>3. PICK e \in T \X (1..n) : /\ ~ Contains(sorted, e[1])
                                   /\ e[2] \in DOMAIN graph[e[1]]
                                   /\ graph[e[1]][e[2]] = v
      BY <2>2 DEF Waiting
    <2>4. e[1] \in T
      BY <2>3
    <2>5. graph[e[1]] \in Seq(T)
      BY <1>1, <2>4 DEF HaveRoom
    <2>6. e[2] \in 1..Len(graph[e[1]])
      BY <2>3, <2>5, LenProperties
    <2>7. Contains(graph[e[1]], v)
      BY <2>3, <2>6 DEF Contains
    <2> QED
      BY <2>3, <2>4, <2>7
  <1> QED
    BY <1>3, <1>4, <1>5 DEF T

LEMMA ContainsAt ==
    ASSUME NEW S, NEW s \in Seq(S)
    PROVE  /\ \A x : Contains(s, x) <=> \E i \in DOMAIN s : s[i] = x
           /\ \A i \in DOMAIN s : s[i] \in S
           /\ DOMAIN s = 1..Len(s) /\ Len(s) \in Nat
  BY ElementOfSeq, LenProperties DEF Contains

LEMMA VisitKeepsOrder ==
    ASSUME IInv, BeforeInv, Visit
    PROVE  BeforeInv'
  <1> DEFINE T == Tables(builder)
             h == Head(queue)
             new == Append(sorted, h)
             l == Len(sorted)
  <1>1. /\ phase = "sort" /\ phase' = "sort" /\ edges = <<>> /\ queue # <<>>
        /\ sorted' = new /\ UNCHANGED <<builder, graph, in_degree>>
    BY DEF Visit
  <1>2. /\ sorted \in Seq(T) /\ queue \in Seq(T)
        /\ \A v \in T : Times(sorted, v) + Times(queue, v) = IF in_degree[v] = 0 THEN 1 ELSE 0
    BY <1>1, SortRound DEF RightFor
  <1>3. h \in T /\ Contains(queue, h) /\ ~ Contains(sorted, h)
    <2> HIDE DEF T
    <2>1. /\ h \in T /\ Tail(queue) \in Seq(T)
          /\ Times(queue, h) = Times(Tail(queue), h) + 1
      BY <1>1, <1>2, TimesTail
    <2>2. /\ Times(Tail(queue), h) \in Nat /\ Times(sorted, h) \in Nat
          /\ Times(sorted, h) = 0 <=> ~ Contains(sorted, h)
          /\ Times(queue, h) = 0 <=> ~ Contains(queue, h)
      BY <1>2, <2>1, TimesIs
    <2> QED
      BY <1>2, <2>1, <2>2
  <1>4. /\ in_degree[h] = 0
        /\ \A u, v \in T : in_degree[v] = 0 /\ Contains(graph[u], v) => Contains(sorted, u)
    BY <1>1, <1>3, SortedIsClosed
  <1> HIDE DEF T, h
  <1>5. /\ l \in Nat /\ DOMAIN sorted = 1..l /\ \A i \in DOMAIN sorted : sorted[i] \in T
        /\ \A x : Contains(sorted, x) <=> \E i \in DOMAIN sorted : sorted[i] = x
    BY <1>2, ContainsAt
  <1>6. /\ DOMAIN new = 1..(l + 1) /\ new[l + 1] = h
        /\ \A i \in 1..l : new[i] = sorted[i]
    BY <1>2, <1>3, AppendProperties, LenProperties
  <1> HIDE DEF new, l
  <1>7. ASSUME NEW i \in DOMAIN new, NEW j \in DOMAIN new,
               in_degree[new[i]] = 0, Contains(graph[new[j]], new[i])
        PROVE  j < i
    <2>1. i \in 1..(l + 1) /\ j \in 1..(l + 1) /\ new[i] \in T /\ new[j] \in T
      <3>1. i \in 1..(l + 1) /\ j \in 1..(l + 1)
        BY <1>6
      <3>2. \A k \in 1..(l + 1) : new[k] \in T
        <4>1. \A k \in 1..(l + 1) : k = l + 1 \/ k \in 1..l
          BY <1>5
        <4> QED
          BY <1>3, <1>5, <1>6, <4>1
      <3> QED
        BY <3>1, <3>2
    <2>2. Contains(sorted, new[j])
      BY <1>4, <1>7, <2>1
    <2>3. j # l + 1
      BY <1>3, <1>6, <2>2
    <2>4. j \in 1..l
      BY <1>5, <2>1, <2>3
    <2>5. CASE i = l + 1
      BY <1>5, <2>4, <2>5
    <2>6. CASE i # l + 1
      <3>1. i \in 1..l
        BY <1>5, <2>1, <2>6
      <3>2. new[i] = sorted[i] /\ new[j] = sorted[j]
        BY <1>6, <2>4, <3>1
      <3> QED
        BY <1>1, <1>5, <1>7, <2>4, <3>1, <3>2 DEF BeforeInv
    <2> QED
      BY <2>5, <2>6
  <1> QED
    BY <1>1, <1>7 DEF BeforeInv

LEMMA RelaxKeepsOrder ==
    ASSUME IInv, BeforeInv, Relax
    PROVE  BeforeInv'
  <1>1. /\ phase = "sort" /\ UNCHANGED <<builder, graph, sorted>>
    BY DEF Relax
  <1>2. sorted \in Seq(Tables(builder))
    BY <1>1, SortRound
  <1>3. \A i \in DOMAIN sorted : sorted[i] \in Tables(builder) /\ Contains(sorted, sorted[i])
    BY <1>2, ContainsAt
  <1>4. \A i \in DOMAIN sorted : in_degree[sorted[i]] = 0
    BY <1>1, <1>3, SortedIsClosed
  <1> QED
    BY <1>1, <1>4 DEF BeforeInv

LEMMA AddCyclesKeepsOrder ==
    ASSUME IInv, BeforeInv, AddCycles
    PROVE  BeforeInv' /\ TangleInv'
  <1> DEFINE T == Tables(builder)
             R == {t \in T : ~ Contains(sorted, t)}
             rest == InOrder(R)
             new == sorted \o rest
             l == Len(sorted)
             m == Len(rest)
  <1>1. /\ phase = "sort" /\ phase' = "number" /\ edges = <<>> /\ queue = <<>>
        /\ sorted' = new /\ UNCHANGED <<builder, graph, in_degree>>
    BY DEF AddCycles, Visited
  <1>2. /\ sorted \in Seq(T) /\ IsFiniteSet(T)
    BY <1>1, SortRound
  <1>3. /\ \A v \in T : Contains(sorted, v) <=> in_degree[v] = 0
        /\ \A u, v \in T : in_degree[v] = 0 /\ Contains(graph[u], v) => Contains(sorted, u)
        /\ \A v \in T : in_degree[v] # 0 =>
              \E u \in T : ~ Contains(sorted, u) /\ Contains(graph[u], v)
    <2>1. \A v : ~ Contains(queue, v)
      BY <1>1 DEF Contains
    <2> QED
      BY <1>1, <2>1, SortedIsClosed
  <1>4. rest \in Seq(R) /\ rest \in Seq(T)
    <2>1. T \in SUBSET Nat
      BY TablesAre DEF IInv, TypeOK
    <2>2. IsFiniteSet(R) /\ R \in SUBSET Nat /\ R \in SUBSET T
      BY <1>2, <2>1, FS_Subset
    <2>3. rest \in Seq(R)
      BY <2>2, InOrderIs
    <2> QED
      BY <2>2, <2>3
  <1>5. /\ l \in Nat /\ DOMAIN sorted = 1..l
        /\ \A i \in DOMAIN sorted : sorted[i] \in T /\ Contains(sorted, sorted[i])
    BY <1>2, ContainsAt
  <1>6. /\ m \in Nat /\ \A j \in 1..m : rest[j] \in R
    BY ZenonT(60), <1>4, ContainsAt
  <1> HIDE DEF rest
  <1>7. /\ DOMAIN new = 1..(l + m) /\ \A i \in 1..l : new[i] = sorted[i]
        /\ \A j \in 1..m : new[l + j] = rest[j]
    <2>1. /\ new \in Seq(T) /\ Len(new) = l + m
          /\ \A i \in 1..l : new[i] = sorted[i]
          /\ \A j \in 1..m : new[l + j] = rest[j]
      BY <1>2, <1>4, ConcatAt
    <2> QED
      BY <2>1, LenProperties
  <1> HIDE DEF new, l, m, T
  <1>8. ASSUME NEW i \in DOMAIN new
        PROVE  /\ new[i] \in T /\ i \in 1..(l + m)
               /\ in_degree[new[i]] = 0 <=> i <= l
               /\ i <= l => i \in 1..l
    <2>1. i \in 1..(l + m)
      BY <1>7
    <2>2. CASE i <= l
      <3>1. i \in 1..l
        BY <1>5, <1>6, <2>1, <2>2
      <3>2. new[i] = sorted[i] /\ sorted[i] \in T /\ Contains(sorted, sorted[i])
        BY <1>5, <1>7, <3>1
      <3> QED
        BY <1>3, <2>1, <2>2, <3>1, <3>2
    <2>3. CASE ~ (i <= l)
      <3>1. i - l \in 1..m /\ l + (i - l) = i
        BY <1>5, <1>6, <2>1, <2>3
      <3>2. new[i] = rest[i - l] /\ rest[i - l] \in R
        BY <1>6, <1>7, <3>1
      <3>3. new[i] \in T /\ ~ Contains(sorted, new[i])
        BY <3>2
      <3> QED
        BY <1>3, <2>1, <2>3, <3>3
    <2> QED
      BY <2>2, <2>3
  <1>9. ASSUME NEW i \in DOMAIN new, NEW j \in DOMAIN new,
               in_degree[new[i]] = 0, Contains(graph[new[j]], new[i])
        PROVE  j < i
    <2>1. new[i] \in T /\ new[j] \in T /\ i \in 1..l
      BY <1>8, <1>9
    <2>2. Contains(sorted, new[j])
      BY <1>3, <1>9, <2>1
    <2>3. in_degree[new[j]] = 0
      BY <1>3, <2>1, <2>2
    <2>4. j \in 1..l
      BY <1>8, <2>3
    <2>5. new[i] = sorted[i] /\ new[j] = sorted[j]
      BY <1>7, <2>1, <2>4
    <2> QED
      BY <1>1, <1>5, <1>9, <2>1, <2>4, <2>5 DEF BeforeInv
  <1>10. ASSUME NEW i \in DOMAIN new, NEW j \in DOMAIN new,
                in_degree[new[i]] = 0, in_degree[new[j]] # 0
         PROVE  i < j
    <2>1. i <= l /\ ~ (j <= l) /\ i \in 1..(l + m) /\ j \in 1..(l + m)
      BY <1>8, <1>10
    <2> QED
      BY <1>5, <1>6, <2>1
  <1>11. \A v \in T : in_degree[v] # 0 =>
            \E u \in T : in_degree[u] # 0 /\ Contains(graph[u], v)
    BY <1>3
  <1>12. BeforeInv'
    BY <1>1, <1>9 DEF BeforeInv
  <1>13. TangleInv'
    BY <1>1, <1>10, <1>11 DEF TangleInv, T
  <1> QED
    BY <1>12, <1>13

LEMMA OrderStep ==
    ASSUME IInv, BeforeInv, TangleInv, [Next]_vars
    PROVE  BeforeInv' /\ TangleInv'
  <1>1. CASE Visit
    <2>1. phase' = "sort"
      BY <1>1 DEF Visit
    <2> QED
      BY <1>1, <2>1, VisitKeepsOrder DEF TangleInv
  <1>2. CASE Relax
    <2>1. phase' = "sort"
      BY <1>2 DEF Relax
    <2> QED
      BY <1>2, <2>1, RelaxKeepsOrder DEF TangleInv
  <1>3. CASE AddCycles
    BY <1>3, AddCyclesKeepsOrder
  <1>4. CASE StartSort
    <2>1. phase = "resolve" /\ phase' = "sort" /\ sorted' = sorted
      BY <1>4 DEF StartSort
    <2>2. sorted = <<>>
      BY <2>1 DEF IInv, EarlyInv
    <2> QED
      BY <2>1, <2>2 DEF BeforeInv, TangleInv
  <1>5. CASE Finish
    <2>1. /\ phase = "number" /\ phase' = "done"
          /\ UNCHANGED <<builder, graph, in_degree, sorted>>
      BY <1>5 DEF Finish
    <2> QED
      BY <2>1 DEF BeforeInv, TangleInv
  <1>6. CASE Build \/ ResolveFk \/ \E row \in Rows : AddRow(row)
    <2>1. phase' \in {"rows", "resolve"}
      BY <1>6 DEF Build, ResolveFk, AddRow
    <2> QED
      BY <2>1 DEF BeforeInv, TangleInv
  <1>7. CASE UNCHANGED vars
    BY <1>7 DEF vars, BeforeInv, TangleInv
  <1> QED
    BY <1>1, <1>2, <1>3, <1>4, <1>5, <1>6, <1>7 DEF Next, Step

\* The tables from which references lead into a cycle.
TangledIn(T, g) ==
    UNION {S \in SUBSET T : \A t \in S : \E u \in S : Contains(g[u], t)}

\* They are those that never come to wait for nothing.
LEMMA TangledWait ==
    ASSUME IInv, BeforeInv, TangleInv, phase = "done"
    PROVE  TangledIn(Tables(builder), graph) =
              {v \in Tables(builder) : in_degree[v] # 0}
  <1> DEFINE T == Tables(builder)
             W == {v \in T : in_degree[v] # 0}
  <1>1. sorted \in Seq(T) /\ \A t \in T : Contains(sorted, t)
    <2>1. sorted \in Seq(T) /\ \A t \in T : Times(sorted, t) = 1
      BY DEF IInv, TypeOK, OrderInv
    <2> QED
      BY <2>1, TimesIs
  <1>2. /\ \A i \in DOMAIN sorted : sorted[i] \in T
        /\ \A t \in T : \E i \in DOMAIN sorted : sorted[i] = t
        /\ DOMAIN sorted \in SUBSET Nat
    BY <1>1, ContainsAt
  <1>3. W \subseteq TangledIn(T, graph)
    <2>1. \A t \in W : \E u \in W : Contains(graph[u], t)
      BY DEF TangleInv
    <2>2. W \in SUBSET T
      OBVIOUS
    <2> HIDE DEF W, T
    <2> QED
      BY <2>1, <2>2 DEF TangledIn
  <1>4. ASSUME NEW S \in SUBSET T, \A t \in S : \E u \in S : Contains(graph[u], t)
        PROVE  S \subseteq W
    <2> SUFFICES ASSUME NEW t \in S, in_degree[t] = 0 PROVE FALSE
      OBVIOUS
    <2> DEFINE P == {i \in DOMAIN sorted : sorted[i] \in S /\ in_degree[sorted[i]] = 0}
    <2>1. P # {} /\ P \in SUBSET Nat
      BY <1>2
    <2>2. PICK i \in P : \A j \in P : i <= j
      <3> HIDE DEF P
      <3> QED
        BY <2>1, Least
    <2>3. i \in DOMAIN sorted /\ sorted[i] \in S /\ in_degree[sorted[i]] = 0 /\ i \in Nat
      BY <1>2, <2>2
    <2>4. PICK u \in S : Contains(graph[u], sorted[i])
      BY <1>4, <2>3
    <2>5. PICK j \in DOMAIN sorted : sorted[j] = u
      BY <1>2, <2>4
    <2>6. j < i /\ j \in Nat
      BY <1>2, <2>3, <2>4, <2>5 DEF BeforeInv
    <2>7. in_degree[sorted[j]] = 0
      <3>1. in_degree[sorted[j]] # 0 => i < j
        BY <2>3, <2>5 DEF TangleInv
      <3> QED
        BY <2>3, <2>6, <3>1
    <2>8. j \in P
      BY <2>4, <2>5, <2>7
    <2> HIDE DEF P
    <2> QED
      BY <2>2, <2>3, <2>6, <2>8
  <1>5. TangledIn(T, graph) \subseteq W
    <2> HIDE DEF W, T
    <2> QED
      BY <1>4 DEF TangledIn
  <1> QED
    BY <1>3, <1>5

\* In the final order a table comes after every table it refers to, unless its
\* references lead into a cycle; those tables come last.
GraphIsSorted ==
    phase = "done" => \A i, j \in DOMAIN sorted :
        LET tangled == TangledIn(Tables(builder), graph)
        IN  /\ Contains(graph[sorted[j]], sorted[i]) /\ sorted[i] \notin tangled
                  => j < i
            /\ sorted[i] \notin tangled /\ sorted[j] \in tangled => i < j

LEMMA OrderInductive == Spec => [](IInv /\ BeforeInv /\ TangleInv)
  <1>1. Init => BeforeInv /\ TangleInv
    BY DEF Init, BeforeInv, TangleInv
  <1>2. IInv /\ BeforeInv /\ TangleInv /\ [Next]_vars => BeforeInv' /\ TangleInv'
    BY OrderStep
  <1> QED
    BY <1>1, <1>2, Inductive, PTL DEF Spec

\* build sorts the tables by the references it resolved, whatever cycles they
\* form.
THEOREM ReferencesComeFirst == Spec => []GraphIsSorted
  <1>1. IInv /\ BeforeInv /\ TangleInv => GraphIsSorted
    <2> SUFFICES ASSUME IInv, BeforeInv, TangleInv, phase = "done",
                        NEW i \in DOMAIN sorted, NEW j \in DOMAIN sorted
                 PROVE  LET tangled == TangledIn(Tables(builder), graph)
                        IN  /\ Contains(graph[sorted[j]], sorted[i]) /\ sorted[i] \notin tangled
                                  => j < i
                            /\ sorted[i] \notin tangled /\ sorted[j] \in tangled => i < j
      BY DEF GraphIsSorted
    <2>1. sorted \in Seq(Tables(builder))
      BY DEF IInv, TypeOK
    <2>2. sorted[i] \in Tables(builder)
      BY <2>1, ContainsAt
    <2>3. TangledIn(Tables(builder), graph) = {v \in Tables(builder) : in_degree[v] # 0}
      BY TangledWait
    <2> QED
      BY <2>2, <2>3 DEF BeforeInv, TangleInv
  <1> QED
    BY <1>1, OrderInductive, PTL
=============================================================================
