------------------------- MODULE SchemaCodec_proofs -------------------------
(***************************************************************************)
(* Proofs about the codec of module Schema: decode gives back what encode  *)
(* was given, and refuses it when it is cut short or has a symbol that is  *)
(* 0.                                                                      *)
(*                                                                         *)
(* The walk of decode comes to six lists.  First it is shown where they    *)
(* are in an encoded schema, then that the walk comes there, and what it   *)
(* reads; and last, that a walk over damaged fields either is the same or  *)
(* has left what is there.                                                 *)
(***************************************************************************)
EXTENDS Schema_proofs

-----------------------------------------------------------------------------
(* Parts of an encoded schema.                                             *)

\* What a field holds.
Fields == Nat \cup STRING \cup Seq(STRING)

\* The fields of part are in buf from p on.
PartAt(buf, p, part) ==
    /\ p + Len(part) <= Len(buf) + 1
    /\ \A j \in 1..Len(part) : buf[p + j - 1] = part[j]

IsJoin(u, s, t) == u = s \o t

LEMMA PartOfConcat ==
    ASSUME NEW S, NEW s \in Seq(S), NEW t \in Seq(S), NEW u, IsJoin(u, s, t)
    PROVE  /\ u \in Seq(S) /\ Len(u) = Len(s) + Len(t)
           /\ Len(s) \in Nat /\ Len(t) \in Nat
           /\ \A i \in 1..Len(s) : u[i] = s[i]
           /\ \A j \in 1..Len(t) : u[Len(s) + j] = t[j]
           /\ PartAt(u, 1, s)
           /\ PartAt(u, Len(s) + 1, t)
<1>1. u \in Seq(S) /\ Len(u) = Len(s) + Len(t)
  BY ConcatAt DEF IsJoin
<1>2. Len(s) \in Nat /\ Len(t) \in Nat
  OBVIOUS
<1>3. /\ \A i \in 1..Len(s) : u[i] = s[i]
      /\ \A j \in 1..Len(t) : u[Len(s) + j] = t[j]
  BY ConcatIs DEF IsJoin
<1>4. \A i \in 1..Len(s) : 1 + i - 1 = i
  BY <1>2
<1>5. \A j \in 1..Len(t) : Len(s) + 1 + j - 1 = Len(s) + j
  BY <1>2
<1> QED
  BY <1>1, <1>2, <1>3, <1>4, <1>5 DEF PartAt

LEMMA PartOfPart ==
    ASSUME NEW buf, NEW s, NEW part, NEW p \in Nat \ {0},
           Len(buf) \in Nat, Len(s) \in Nat, Len(part) \in Nat,
           PartAt(buf, 1, s), PartAt(s, p, part)
    PROVE  PartAt(buf, p, part)
<1>1. p + Len(part) <= Len(s) + 1 /\ 1 + Len(s) <= Len(buf) + 1
  BY DEF PartAt
<1>2. ASSUME NEW j \in 1..Len(part) PROVE buf[p + j - 1] = part[j]
  <2>1. p + j - 1 \in 1..Len(s) /\ 1 + (p + j - 1) - 1 = p + j - 1
    BY <1>1
  <2>2. buf[1 + (p + j - 1) - 1] = s[p + j - 1] /\ s[p + j - 1] = part[j]
    BY <2>1 DEF PartAt
  <2> QED
    BY <2>1, <2>2
<1> QED
  BY <1>1, <1>2 DEF PartAt

-----------------------------------------------------------------------------
(* Lists: a length and as many elements.                                   *)

\* The list of seqs, laid out by off, is in buf from p on.
ListAt(buf, p, seqs, off) ==
    /\ IsLayout(off, seqs)
    /\ p + 1 + off[Len(seqs)] <= Len(buf) + 1
    /\ buf[p] = Len(seqs)
    /\ \A i \in 1..Len(seqs) : \A j \in 1..Len(seqs[i]) :
          buf[p + off[i - 1] + j] = seqs[i][j]

LEMMA LayoutTypes ==
    ASSUME NEW S, NEW seqs \in Seq(Seq(S)), NEW off, IsLayout(off, seqs),
           NEW i \in 1..Len(seqs), NEW j \in 1..Len(seqs[i])
    PROVE  off[i - 1] \in Nat /\ j \in Nat /\ j >= 1
<1>1. Len(seqs) \in Nat /\ i \in Nat /\ seqs[i] \in Seq(S)
  OBVIOUS
<1>2. Len(seqs[i]) \in Nat
  BY <1>1
<1>3. j \in Nat /\ j >= 1
  BY <1>2
<1>4. i - 1 \in 0..Len(seqs)
  BY <1>1
<1> QED
  BY <1>3, <1>4 DEF IsLayout

LEMMA LayoutAscends ==
    ASSUME NEW S, NEW seqs \in Seq(Seq(S)), NEW off, IsLayout(off, seqs)
    PROVE  \A i \in 1..Len(seqs) : \A j \in 1..Len(seqs[i]) :
              off[i - 1] + j <= off[Len(seqs)]
<1> DEFINE n == Len(seqs)
<1>1. n \in Nat /\ \A i \in 1..n : Len(seqs[i]) \in Nat
  OBVIOUS
<1> HIDE DEF n
<1>2. /\ \A i \in 0..n : off[i] \in Nat
      /\ \A i \in 1..n : off[i] = off[i - 1] + Len(seqs[i])
  BY DEF IsLayout, n
<1> DEFINE P == {k \in Nat : k <= n => off[n - k] <= off[n]}
<1>3. 0 \in P
  BY <1>1, <1>2
<1>4. ASSUME NEW k \in Nat, k < n, k \in P PROVE k + 1 \in P
  <2>1. n - k \in 1..n /\ n - (k + 1) = (n - k) - 1 /\ n - (k + 1) \in 0..n
    BY <1>1, <1>4
  <2>2. off[n - k] = off[(n - k) - 1] + Len(seqs[n - k])
    BY <1>2, <2>1
  <2>3. off[n - k] <= off[n]
    BY <1>1, <1>4
  <2>4. off[n - k] \in Nat /\ off[(n - k) - 1] \in Nat /\ off[n] \in Nat
        /\ Len(seqs[n - k]) \in Nat
    BY <1>1, <1>2, <2>1
  <2>5. off[n - (k + 1)] <= off[n]
    BY SMTT(30), <2>1, <2>2, <2>3, <2>4
  <2> QED
    BY <2>5
<1>5. \A k \in 0..n : k \in P
  <2> HIDE DEF P
  <2> QED
    BY <1>1, <1>3, <1>4, UpTo
<1>6. ASSUME NEW i \in 1..n, NEW j \in 1..Len(seqs[i])
      PROVE  off[i - 1] + j <= off[n]
  <2>1. n - i \in 0..n /\ n - (n - i) = i /\ n - i <= n
    BY <1>1
  <2>2. off[i] <= off[n]
    BY <1>5, <2>1
  <2>3. off[i] = off[i - 1] + Len(seqs[i]) /\ off[i - 1] \in Nat
        /\ off[i] \in Nat /\ off[n] \in Nat
    BY <1>1, <1>2
  <2>4. j <= Len(seqs[i]) /\ j \in Nat /\ Len(seqs[i]) \in Nat
    BY <1>1
  <2> QED
    BY <2>2, <2>3, <2>4
<1> QED
  BY <1>6 DEF n

IsLed(t, n, s) == t = <<n>> \o s

LEMMA OneMore ==
    ASSUME NEW S, NEW n \in S, NEW s \in Seq(S), NEW t, IsLed(t, n, s)
    PROVE  /\ t \in Seq(S) /\ Len(t) = 1 + Len(s) /\ t[1] = n
           /\ \A j \in 1..Len(s) : t[1 + j] = s[j]
BY DEF IsLed

LEMMA ListIs ==
    ASSUME NEW S, NEW seqs \in Seq(Seq(S)), Len(seqs) \in S,
           NEW part, IsLed(part, Len(seqs), FlattenSeq(seqs))
    PROVE  /\ part \in Seq(S)
           /\ \E off : /\ IsLayout(off, seqs)
                       /\ Len(part) = 1 + off[Len(seqs)]
                       /\ ListAt(part, 1, seqs, off)
<1> DEFINE n == Len(seqs)
           flat == FlattenSeq(seqs)
<1>1. n \in Nat /\ n \in S
  OBVIOUS
<1>3. flat \in Seq(S)
  BY FlattenSeqIs
<1>4. PICK off : IsLayout(off, seqs) /\ IsFlattened(flat, off, seqs)
  BY FlattenSeqIs
<1>5. Len(flat) = off[n] /\ Len(flat) \in Nat
  BY <1>3, <1>4 DEF IsFlattened
<1>6. IsLed(part, n, flat)
  OBVIOUS
<1> HIDE DEF flat, n
<1>7. /\ part \in Seq(S) /\ Len(part) = 1 + Len(flat) /\ part[1] = n
      /\ \A j \in 1..Len(flat) : part[1 + j] = flat[j]
  BY <1>1, <1>3, <1>6, OneMore
<1>10. ASSUME NEW i \in 1..n, NEW j \in 1..Len(seqs[i])
       PROVE  part[1 + off[i - 1] + j] = seqs[i][j]
  <2> DEFINE a == off[i - 1] + j
  <2>1. a \in 1..Len(flat) /\ flat[a] = seqs[i][j]
    BY <1>4 DEF IsFlattened, n
  <2>2. off[i - 1] \in Nat /\ j \in Nat
    BY <1>1, <1>4, LayoutTypes DEF n
  <2>3. 1 + off[i - 1] + j = 1 + a
    BY <2>2
  <2> HIDE DEF a
  <2> QED
    BY <1>7, <2>1, <2>3
<1>11. ListAt(part, 1, seqs, off)
  <2>1. 1 + 1 + off[n] <= Len(part) + 1
    BY <1>1, <1>5, <1>7
  <2> QED
    BY <1>4, <1>7, <1>10, <2>1 DEF ListAt, n
<1> QED
  BY <1>4, <1>5, <1>7, <1>11 DEF n

LEMMA ListInBuf ==
    ASSUME NEW S, NEW seqs \in Seq(Seq(S)), NEW off, NEW part, NEW buf,
           Len(buf) \in Nat, Len(part) \in Nat, NEW p \in Nat \ {0},
           ListAt(part, 1, seqs, off), PartAt(buf, p, part)
    PROVE  ListAt(buf, p, seqs, off)
<1> DEFINE n == Len(seqs)
<1>1. n \in Nat /\ IsLayout(off, seqs) /\ off[n] \in Nat
  BY DEF ListAt, IsLayout
<1>2. 1 + off[n] <= Len(part) /\ p + Len(part) <= Len(buf) + 1
  <2>1. 1 + 1 + off[n] <= Len(part) + 1 /\ p + Len(part) <= Len(buf) + 1
    BY DEF ListAt, PartAt
  <2> QED
    BY <1>1, <2>1
<1>3. \A k \in 1..Len(part) : buf[p + k - 1] = part[k]
  BY DEF PartAt
<1>4. buf[p] = n
  <2>1. 1 \in 1..Len(part) /\ p + 1 - 1 = p
    BY <1>1, <1>2
  <2> QED
    BY <1>3, <2>1 DEF ListAt
<1> HIDE DEF n
<1>5. ASSUME NEW i \in 1..n, NEW j \in 1..Len(seqs[i])
      PROVE  buf[p + off[i - 1] + j] = seqs[i][j]
  <2>1. off[i - 1] + j <= off[n]
    BY <1>1, LayoutAscends DEF n
  <2>2. off[i - 1] \in Nat /\ j \in Nat /\ j >= 1
    BY <1>1, LayoutTypes DEF n
  <2> DEFINE k == 1 + off[i - 1] + j
  <2>3. k \in 1..Len(part) /\ p + k - 1 = p + off[i - 1] + j
    <3> DEFINE o == off[i - 1]
    <3>1. o \in Nat /\ j \in Nat /\ o + j <= off[n] /\ off[n] \in Nat
          /\ 1 + off[n] <= Len(part)
      BY <1>1, <1>2, <2>1, <2>2
    <3> HIDE DEF o
    <3>2. 1 + o + j \in 1..Len(part) /\ p + (1 + o + j) - 1 = p + o + j
      BY <2>2, <3>1
    <3> QED
      BY <3>2 DEF o
  <2>4. part[k] = seqs[i][j]
    BY DEF ListAt, n
  <2> HIDE DEF k
  <2> QED
    BY <1>3, <2>3, <2>4
<1>6. p + 1 + off[n] <= Len(buf) + 1
  BY <1>1, <1>2
<1> QED
  BY <1>1, <1>4, <1>5, <1>6 DEF ListAt, n

\* When all elements have w fields, the i-th one begins after w * (i - 1).
LEMMA FixedLayout ==
    ASSUME NEW S, NEW seqs \in Seq(Seq(S)), NEW off, IsLayout(off, seqs),
           NEW w \in Nat, \A i \in 1..Len(seqs) : Len(seqs[i]) = w
    PROVE  \A i \in 0..Len(seqs) : off[i] = w * i
<1> DEFINE n == Len(seqs)
           P == {k \in Nat : k <= n => off[k] = w * k}
<1>1. n \in Nat
  OBVIOUS
<1>2. 0 \in P
  <2>1. off[0] = 0 /\ w * 0 = 0
    BY DEF IsLayout
  <2> QED
    BY <2>1
<1>3. ASSUME NEW k \in Nat, k < n, k \in P PROVE k + 1 \in P
  <2>1. k + 1 \in 1..n /\ (k + 1) - 1 = k
    BY <1>1, <1>3
  <2>2. off[k + 1] = off[k] + w
    BY <2>1 DEF IsLayout
  <2>3. off[k] = w * k
    BY <1>3
  <2>4. w * (k + 1) = w * k + w
    OBVIOUS
  <2> QED
    BY <2>2, <2>3, <2>4
<1>4. \A k \in 0..n : k \in P
  <2> HIDE DEF P, n
  <2> QED
    BY <1>1, <1>2, <1>3, UpTo
<1>5. \A k \in 0..n : off[k] = w * k
  BY <1>1, <1>4
<1> QED
  BY <1>5

-----------------------------------------------------------------------------
(* The elements of the lists.                                              *)

\* Types and actions are numbered by their places.
LEMMA NumberOf ==
    ASSUME NEW list, Len(list) \in Nat, DOMAIN list = 1..Len(list),
           NEW x \in Range(list)
    PROVE  /\ Position(list, x) \in Nat
           /\ Position(list, x) \in Indices(list)
           /\ At(list, Position(list, x)) = x
<1>1. \E i \in 1..Len(list) : list[i] = x
  BY DEF Range
<1>2. None \notin Nat
  BY NoneAssumption
<1>3. Position(list, x) # None
  BY <1>1, <1>2, PositionFinds
<1> QED
  BY <1>2, <1>3, PositionFinds DEF Indices

LEMMA ListsOfNames ==
    /\ Len(ValueTypes) \in Nat /\ DOMAIN ValueTypes = 1..Len(ValueTypes)
    /\ Len(Actions) \in Nat /\ DOMAIN Actions = 1..Len(Actions)
    /\ "Custom" \in Range(ValueTypes)
<1>1. Len(ValueTypes) = 20 /\ DOMAIN ValueTypes = 1..20
      /\ ValueTypes[15] = "Custom"
  BY DEF ValueTypes
<1>2. Len(Actions) = 5 /\ DOMAIN Actions = 1..5
  BY DEF Actions
<1>3. 15 \in DOMAIN ValueTypes
  BY <1>1
<1>4. "Custom" \in Range(ValueTypes)
  BY <1>1, <1>3 DEF Range
<1> QED
  BY <1>1, <1>2, <1>4

LEMMA ToU8Is ==
    ASSUME NEW type \in ValueType
    PROVE  /\ type.kind \in Range(ValueTypes)
           /\ ToU8(type) \in Nat
           /\ ToU8(type) \in Indices(ValueTypes)
           /\ At(ValueTypes, ToU8(type)) = type.kind
           /\ ToU8(type) = CustomTag <=> type.kind = "Custom"
           /\ type.kind = "Custom" => type.symbol \in Symbol
<1>1. type.kind \in Range(ValueTypes)
  BY ListsOfNames DEF ValueType
<1>2. type.kind = "Custom" => type.symbol \in Symbol
  BY DEF ValueType
<1>3. /\ ToU8(type) \in Nat /\ ToU8(type) \in Indices(ValueTypes)
      /\ At(ValueTypes, ToU8(type)) = type.kind
  BY <1>1, ListsOfNames, NumberOf DEF ToU8
<1>4. At(ValueTypes, CustomTag) = "Custom"
  BY ListsOfNames, NumberOf DEF CustomTag
<1>5. ToU8(type) = CustomTag => type.kind = "Custom"
  BY <1>3, <1>4
<1>6. type.kind = "Custom" => ToU8(type) = CustomTag
  BY DEF ToU8, CustomTag
<1> QED
  BY <1>1, <1>2, <1>3, <1>5, <1>6

LEMMA EncodedTableIs ==
    ASSUME NEW t \in TableMeta
    PROVE  LET e == EncodedTable(t)
           IN  /\ e \in Seq(Nat) /\ Len(e) = 6
               /\ e[1] = t.name /\ e[2] = t.columns_start
               /\ e[3] = t.columns_len
               /\ e[4] = IF t.primary_key = None THEN U16 - 1
                         ELSE t.primary_key
               /\ e[5] = t.fk_start /\ e[6] = t.fk_len
<1>1. /\ t.name \in Nat /\ t.columns_start \in Nat /\ t.columns_len \in Nat
      /\ t.primary_key \in {None} \cup Nat
      /\ t.fk_start \in Nat /\ t.fk_len \in Nat
  BY DEF TableMeta, Symbol
<1>2. U16 - 1 \in Nat
  BY U16Assumption
<1> DEFINE key == IF t.primary_key = None THEN U16 - 1 ELSE t.primary_key
<1>3. key \in Nat
  BY <1>1, <1>2
<1> HIDE DEF key
<1> QED
  BY <1>1, <1>3 DEF EncodedTable, key

LEMMA EncodedForeignKeyIs ==
    ASSUME NEW fk \in ForeignKey
    PROVE  LET e == EncodedForeignKey(fk)
           IN  /\ e \in Seq(Nat) /\ Len(e) = 6
               /\ e[1] = fk.constraint_name /\ e[2] = fk.namespace
               /\ e[3] = fk.table /\ e[4] = fk.column
               /\ At(Actions, e[5]) = fk.on_update
               /\ At(Actions, e[6]) = fk.on_delete
<1>1. /\ fk.constraint_name \in Nat /\ fk.namespace \in Nat
      /\ fk.table \in Nat /\ fk.column \in Nat
      /\ fk.on_update \in Range(Actions) /\ fk.on_delete \in Range(Actions)
  BY DEF ForeignKey, Symbol
<1> DEFINE u == Position(Actions, fk.on_update)
           d == Position(Actions, fk.on_delete)
<1>2. u \in Nat /\ At(Actions, u) = fk.on_update
  BY <1>1, ListsOfNames, NumberOf
<1>3. d \in Nat /\ At(Actions, d) = fk.on_delete
  BY <1>1, ListsOfNames, NumberOf
<1> HIDE DEF u, d
<1>4. EncodedForeignKey(fk) =
        <<fk.constraint_name, fk.namespace, fk.table, fk.column, u, d>>
  BY DEF EncodedForeignKey, u, d
<1> QED
  BY <1>1, <1>2, <1>3, <1>4

\* A column has one field more when its type is a custom one.
Width(c) == IF c.data_type.kind = "Custom" THEN 9 ELSE 8

LEMMA EncodedColumnIs ==
    ASSUME NEW c \in Column
    PROVE  LET e == EncodedColumn(c)
               q == Width(c) - 6
           IN  /\ e \in Seq(Nat) /\ Len(e) = Width(c) /\ Width(c) \in {8, 9}
               /\ e[1] = c.name /\ e[2] = ToU8(c.data_type)
               /\ c.data_type.kind = "Custom" => e[3] = c.data_type.symbol
               /\ e[q + 1] = IF c.default_value = None THEN 0
                             ELSE c.default_value
               /\ e[q + 2] = c.flags
               /\ e[q + 3] = c.constraints.start
               /\ e[q + 4] = c.constraints.len
               /\ e[q + 5] = c.foreign_keys.start
               /\ e[q + 6] = c.foreign_keys.len
<1>1. /\ c.name \in Nat /\ c.data_type \in ValueType
      /\ c.default_value \in {None} \cup Nat /\ c.flags \in Nat
      /\ c.constraints.start \in Nat /\ c.constraints.len \in Nat
      /\ c.foreign_keys.start \in Nat /\ c.foreign_keys.len \in Nat
  BY DEF Column, Symbol, PoolRanges
<1> DEFINE tag == ToU8(c.data_type)
           symbol == c.data_type.symbol
           default == IF c.default_value = None THEN 0 ELSE c.default_value
           rest == <<default, c.flags, c.constraints.start,
                     c.constraints.len, c.foreign_keys.start,
                     c.foreign_keys.len>>
<1>2. tag \in Nat
  BY <1>1, ToU8Is
<1>3. default \in Nat
  BY <1>1
<1>4. rest \in Seq(Nat) /\ Len(rest) = 6 /\ rest[1] = default
      /\ rest[2] = c.flags /\ rest[3] = c.constraints.start
      /\ rest[4] = c.constraints.len /\ rest[5] = c.foreign_keys.start
      /\ rest[6] = c.foreign_keys.len
  <2> HIDE DEF default
  <2> QED
    BY <1>1, <1>3
<1>5. CASE c.data_type.kind = "Custom"
  <2>1. symbol \in Nat
    BY <1>1, <1>5, ToU8Is DEF Symbol
  <2>2. EncodedColumn(c) = <<c.name, tag>> \o <<symbol>> \o rest
    BY <1>5 DEF EncodedColumn
  <2> DEFINE a == <<c.name, tag>>
             b == <<symbol>>
             first == a \o b
  <2> HIDE DEF tag, symbol, rest, default
  <2>3. /\ a \in Seq(Nat) /\ Len(a) = 2 /\ a[1] = c.name /\ a[2] = tag
        /\ b \in Seq(Nat) /\ Len(b) = 1 /\ b[1] = symbol
    BY <1>1, <1>2, <2>1
  <2>4. first \in Seq(Nat) /\ Len(first) = 3 /\ first[1] = c.name
        /\ first[2] = tag /\ first[3] = symbol
    <3>1. IsJoin(first, a, b)
      BY DEF IsJoin
    <3> HIDE DEF a, b, first
    <3>2. /\ first \in Seq(Nat) /\ Len(first) = Len(a) + Len(b)
          /\ \A i \in 1..Len(a) : first[i] = a[i]
          /\ \A j \in 1..Len(b) : first[Len(a) + j] = b[j]
      <4>1. a \in Seq(Nat) /\ b \in Seq(Nat)
        BY <2>3
      <4> QED
        BY <3>1, <4>1, PartOfConcat
    <3>3. first[2 + 1] = b[1] /\ 2 + 1 = 3
      BY <2>3, <3>2
    <3> QED
      BY <2>3, <3>2, <3>3
  <2> DEFINE e == EncodedColumn(c)
  <2>5. IsJoin(e, first, rest)
    BY <2>2 DEF IsJoin
  <2> HIDE DEF first, e
  <2>6. /\ e \in Seq(Nat) /\ Len(e) = 9
        /\ \A i \in 1..3 : e[i] = first[i]
        /\ \A j \in 1..6 : e[3 + j] = rest[j]
    <3>1. /\ e \in Seq(Nat) /\ Len(e) = Len(first) + Len(rest)
          /\ \A i \in 1..Len(first) : e[i] = first[i]
          /\ \A j \in 1..Len(rest) : e[Len(first) + j] = rest[j]
      <4>1. first \in Seq(Nat) /\ rest \in Seq(Nat)
        BY <1>4, <2>4
      <4> QED
        BY <2>5, <4>1, PartOfConcat
    <3> QED
      BY <1>4, <2>4, <3>1
  <2>7. /\ e[4] = rest[1] /\ e[5] = rest[2] /\ e[6] = rest[3]
        /\ e[7] = rest[4] /\ e[8] = rest[5] /\ e[9] = rest[6]
        /\ e[1] = first[1] /\ e[2] = first[2] /\ e[3] = first[3]
    <3>1. e[3 + 1] = rest[1] /\ e[3 + 2] = rest[2] /\ e[3 + 3] = rest[3]
          /\ e[3 + 4] = rest[4] /\ e[3 + 5] = rest[5] /\ e[3 + 6] = rest[6]
      BY <2>6
    <3> QED
      BY <2>6, <3>1
  <2> QED
    BY <1>4, <1>5, <2>4, <2>6, <2>7 DEF Width, e, tag, symbol, default
<1>6. CASE c.data_type.kind # "Custom"
  <2>2. EncodedColumn(c) = <<c.name, tag>> \o <<>> \o rest
    BY <1>6 DEF EncodedColumn
  <2> DEFINE first == <<c.name, tag>> \o <<>>
  <2> HIDE DEF tag, rest, default
  <2>3. first = <<c.name, tag>>
    BY <1>1, <1>2
  <2>4. first \in Seq(Nat) /\ Len(first) = 2 /\ first[1] = c.name
        /\ first[2] = tag
    <3> HIDE DEF first
    <3> QED
      BY <1>1, <1>2, <2>3
  <2> DEFINE e == EncodedColumn(c)
  <2>5. IsJoin(e, first, rest)
    BY <2>2 DEF IsJoin
  <2> HIDE DEF first, e
  <2>6. /\ e \in Seq(Nat) /\ Len(e) = 8
        /\ \A i \in 1..2 : e[i] = first[i]
        /\ \A j \in 1..6 : e[2 + j] = rest[j]
    <3>1. /\ e \in Seq(Nat) /\ Len(e) = Len(first) + Len(rest)
          /\ \A i \in 1..Len(first) : e[i] = first[i]
          /\ \A j \in 1..Len(rest) : e[Len(first) + j] = rest[j]
      <4>1. first \in Seq(Nat) /\ rest \in Seq(Nat)
        BY <1>4, <2>4
      <4> QED
        BY <2>5, <4>1, PartOfConcat
    <3> QED
      BY <1>4, <2>4, <3>1
  <2>7. /\ e[3] = rest[1] /\ e[4] = rest[2] /\ e[5] = rest[3]
        /\ e[6] = rest[4] /\ e[7] = rest[5] /\ e[8] = rest[6]
        /\ e[1] = first[1] /\ e[2] = first[2]
    <3>1. e[2 + 1] = rest[1] /\ e[2 + 2] = rest[2] /\ e[2 + 3] = rest[3]
          /\ e[2 + 4] = rest[4] /\ e[2 + 5] = rest[5] /\ e[2 + 6] = rest[6]
      BY <2>6
    <3> QED
      BY <2>6, <3>1
  <2> QED
    BY <1>4, <1>6, <2>4, <2>6, <2>7 DEF Width, e, tag, default
<1> QED
  BY <1>5, <1>6

-----------------------------------------------------------------------------
(* Where the lists are in an encoded schema.                               *)

TableFields(s) == [i \in DOMAIN s.tables |-> EncodedTable(s.tables[i])]

ColumnFields(s) == [i \in DOMAIN s.columns |-> EncodedColumn(s.columns[i])]

ForeignKeyFields(s) ==
    [i \in DOMAIN s.foreign_key_pool |->
        EncodedForeignKey(s.foreign_key_pool[i])]

Singles(list) == [i \in DOMAIN list |-> <<list[i]>>]

\* seqs has n elements, which have w fields.
AreFields(seqs, n, w) ==
    /\ seqs \in Seq(Seq(Nat)) /\ Len(seqs) = n
    /\ \A i \in 1..n : Len(seqs[i]) = w

LEMMA ListOf ==
    ASSUME NEW S, NEW list \in Seq(S), NEW T, NEW seqs,
           DOMAIN seqs = DOMAIN list, seqs = [i \in DOMAIN seqs |-> seqs[i]],
           \A i \in DOMAIN list : seqs[i] \in T
    PROVE  seqs \in Seq(T) /\ Len(seqs) = Len(list) /\ Len(list) \in Nat
<1>1. DOMAIN list = 1..Len(list) /\ Len(list) \in Nat
  OBVIOUS
<1>2. seqs \in [1..Len(list) -> T]
  BY <1>1
<1> QED
  BY <1>1, <1>2

LEMMA SinglesAre ==
    ASSUME NEW list \in Seq(Nat)
    PROVE  /\ AreFields(Singles(list), Len(list), 1)
           /\ \A i \in 1..Len(list) : Singles(list)[i][1] = list[i]
<1> DEFINE seqs == Singles(list)
<1>1. DOMAIN list = 1..Len(list) /\ Len(list) \in Nat
  OBVIOUS
<1>2. DOMAIN seqs = DOMAIN list /\ seqs = [i \in DOMAIN seqs |-> seqs[i]]
  BY DEF Singles
<1>3. ASSUME NEW i \in DOMAIN list
      PROVE  seqs[i] \in Seq(Nat) /\ Len(seqs[i]) = 1 /\ seqs[i][1] = list[i]
  <2>1. list[i] \in Nat /\ seqs[i] = <<list[i]>>
    BY DEF Singles
  <2> HIDE DEF seqs
  <2> QED
    BY <2>1
<1> HIDE DEF seqs
<1>4. seqs \in Seq(Seq(Nat)) /\ Len(seqs) = Len(list)
  BY <1>2, <1>3, ListOf
<1> QED
  BY <1>1, <1>3, <1>4 DEF AreFields, seqs

LEMMA TableFieldsAre ==
    ASSUME NEW s, s.tables \in Seq(TableMeta)
    PROVE  /\ AreFields(TableFields(s), Len(s.tables), 6)
           /\ \A i \in 1..Len(s.tables) :
                 /\ s.tables[i] \in TableMeta
                 /\ TableFields(s)[i] = EncodedTable(s.tables[i])
<1> DEFINE seqs == TableFields(s)
           list == s.tables
<1>1. DOMAIN list = 1..Len(list) /\ Len(list) \in Nat
      /\ \A i \in DOMAIN list : list[i] \in TableMeta
  OBVIOUS
<1>2. DOMAIN seqs = DOMAIN list /\ seqs = [i \in DOMAIN seqs |-> seqs[i]]
      /\ \A i \in DOMAIN list : seqs[i] = EncodedTable(list[i])
  BY DEF TableFields
<1> HIDE DEF seqs
<1>3. ASSUME NEW i \in DOMAIN list
      PROVE  seqs[i] \in Seq(Nat) /\ Len(seqs[i]) = 6
  <2> DEFINE t == list[i]
  <2>1. t \in TableMeta /\ seqs[i] = EncodedTable(t)
    BY <1>1, <1>2
  <2> HIDE DEF t, list
  <2>2. EncodedTable(t) \in Seq(Nat) /\ Len(EncodedTable(t)) = 6
    BY <2>1, EncodedTableIs
  <2> QED
    BY <2>1, <2>2
<1>4. seqs \in Seq(Seq(Nat)) /\ Len(seqs) = Len(list)
  <2> HIDE DEF list
  <2>1. list \in Seq(TableMeta)
    BY DEF list
  <2> QED
    BY <1>2, <1>3, <2>1, ListOf
<1> QED
  BY <1>1, <1>2, <1>3, <1>4 DEF AreFields, seqs

LEMMA ForeignKeyFieldsAre ==
    ASSUME NEW s, s.foreign_key_pool \in Seq(ForeignKey)
    PROVE  /\ AreFields(ForeignKeyFields(s), Len(s.foreign_key_pool), 6)
           /\ \A i \in 1..Len(s.foreign_key_pool) :
                 /\ s.foreign_key_pool[i] \in ForeignKey
                 /\ ForeignKeyFields(s)[i] =
                       EncodedForeignKey(s.foreign_key_pool[i])
<1> DEFINE seqs == ForeignKeyFields(s)
           list == s.foreign_key_pool
<1>1. DOMAIN list = 1..Len(list) /\ Len(list) \in Nat
      /\ \A i \in DOMAIN list : list[i] \in ForeignKey
  OBVIOUS
<1>2. DOMAIN seqs = DOMAIN list /\ seqs = [i \in DOMAIN seqs |-> seqs[i]]
      /\ \A i \in DOMAIN list : seqs[i] = EncodedForeignKey(list[i])
  BY DEF ForeignKeyFields
<1> HIDE DEF seqs
<1>3. ASSUME NEW i \in DOMAIN list
      PROVE  seqs[i] \in Seq(Nat) /\ Len(seqs[i]) = 6
  <2> DEFINE t == list[i]
  <2>1. t \in ForeignKey /\ seqs[i] = EncodedForeignKey(t)
    BY <1>1, <1>2
  <2> HIDE DEF t, list
  <2>2. EncodedForeignKey(t) \in Seq(Nat) /\ Len(EncodedForeignKey(t)) = 6
    BY <2>1, EncodedForeignKeyIs
  <2> QED
    BY <2>1, <2>2
<1>4. seqs \in Seq(Seq(Nat)) /\ Len(seqs) = Len(list)
  <2> HIDE DEF list
  <2>1. list \in Seq(ForeignKey)
    BY DEF list
  <2> QED
    BY <1>2, <1>3, <2>1, ListOf
<1> QED
  BY <1>1, <1>2, <1>3, <1>4 DEF AreFields, seqs

LEMMA ColumnFieldsAre ==
    ASSUME NEW s, s.columns \in Seq(Column)
    PROVE  /\ ColumnFields(s) \in Seq(Seq(Nat))
           /\ Len(ColumnFields(s)) = Len(s.columns)
           /\ Len(s.columns) \in Nat
           /\ \A i \in 1..Len(s.columns) :
                 /\ s.columns[i] \in Column
                 /\ ColumnFields(s)[i] = EncodedColumn(s.columns[i])
                 /\ Len(ColumnFields(s)[i]) = Width(s.columns[i])
<1> DEFINE seqs == ColumnFields(s)
           list == s.columns
<1>1. DOMAIN list = 1..Len(list) /\ Len(list) \in Nat
      /\ \A i \in DOMAIN list : list[i] \in Column
  OBVIOUS
<1>2. DOMAIN seqs = DOMAIN list /\ seqs = [i \in DOMAIN seqs |-> seqs[i]]
      /\ \A i \in DOMAIN list : seqs[i] = EncodedColumn(list[i])
  BY DEF ColumnFields
<1> HIDE DEF seqs
<1>3. \A i \in DOMAIN list : seqs[i] \in Seq(Nat) /\ Len(seqs[i]) = Width(list[i])
  BY <1>1, <1>2, EncodedColumnIs
<1>4. seqs \in Seq(Seq(Nat)) /\ Len(seqs) = Len(list)
  <2> HIDE DEF list
  <2>1. list \in Seq(Column)
    BY DEF list
  <2> QED
    BY <1>2, <1>3, <2>1, ListOf
<1> QED
  BY <1>1, <1>2, <1>3, <1>4 DEF seqs

\* A list whose elements have w fields is in buf from p on.
FixedAt(buf, p, w, seqs) ==
    /\ buf[p] = Len(seqs)
    /\ \A i \in 1..Len(seqs) : \A j \in 1..w :
          buf[p + w * (i - 1) + j] = seqs[i][j]

LEMMA FixedList ==
    ASSUME NEW seqs, NEW n \in Nat, NEW w \in Nat, AreFields(seqs, n, w),
           NEW part, IsLed(part, Len(seqs), FlattenSeq(seqs))
    PROVE  /\ part \in Seq(Nat) /\ Len(part) = 1 + w * n
           /\ \A buf, p : /\ Len(buf) \in Nat /\ p \in Nat \ {0}
                          /\ PartAt(buf, p, part)
                          => FixedAt(buf, p, w, seqs)
<1>1. seqs \in Seq(Seq(Nat)) /\ Len(seqs) = n /\ Len(seqs) \in Nat
      /\ \A i \in 1..Len(seqs) : Len(seqs[i]) = w
  BY DEF AreFields
<1>2. part \in Seq(Nat)
  BY <1>1, ListIs
<1>3. PICK off : /\ IsLayout(off, seqs)
                 /\ Len(part) = 1 + off[Len(seqs)]
                 /\ ListAt(part, 1, seqs, off)
  BY <1>1, ListIs
<1>4. \A i \in 0..Len(seqs) : off[i] = w * i
  BY <1>1, <1>3, FixedLayout
<1>5. Len(part) = 1 + w * n
  <2>1. n \in 0..Len(seqs)
    BY <1>1
  <2> QED
    BY <1>1, <1>3, <1>4, <2>1
<1>6. ASSUME NEW buf, NEW p, Len(buf) \in Nat, p \in Nat \ {0},
             PartAt(buf, p, part)
      PROVE  FixedAt(buf, p, w, seqs)
  <2>1. Len(part) \in Nat
    BY <1>2
  <2>2. ListAt(buf, p, seqs, off)
    BY <1>1, <1>3, <1>6, <2>1, ListInBuf
  <2>3. ASSUME NEW i \in 1..Len(seqs), NEW j \in 1..w
        PROVE  buf[p + w * (i - 1) + j] = seqs[i][j]
    <3>1. i - 1 \in 0..Len(seqs) /\ Len(seqs[i]) = w
      BY <1>1
    <3>2. off[i - 1] = w * (i - 1)
      BY <1>4, <3>1
    <3>3. buf[p + off[i - 1] + j] = seqs[i][j]
      BY <2>2, <3>1 DEF ListAt
    <3> QED
      BY <3>2, <3>3
  <2> QED
    BY <2>2, <2>3 DEF FixedAt, ListAt
<1> QED
  BY <1>2, <1>5, <1>6

LEMMA SeqOfMore ==
    ASSUME NEW S, NEW T, S \subseteq T, NEW s \in Seq(S)
    PROVE  s \in Seq(T)
<1>1. Len(s) \in Nat /\ s \in [1..Len(s) -> S]
  OBVIOUS
<1>2. s \in [1..Len(s) -> T]
  BY <1>1
<1> QED
  BY <1>1, <1>2

\* One list after the other.
LEMMA JoinIn ==
    ASSUME NEW buf, Len(buf) \in Nat, NEW b \in Seq(Fields),
           NEW a \in Seq(Nat), NEW c, IsJoin(c, b, a)
    PROVE  /\ c \in Seq(Fields) /\ Len(c) = Len(b) + Len(a)
           /\ PartAt(buf, 1, c) =>
                 PartAt(buf, 1, b) /\ PartAt(buf, Len(b) + 1, a)
<1>1. a \in Seq(Fields)
  <2>1. Nat \subseteq Fields
    BY DEF Fields
  <2> QED
    BY <2>1, SeqOfMore
<1>2. /\ c \in Seq(Fields) /\ Len(c) = Len(b) + Len(a)
      /\ Len(b) \in Nat /\ Len(a) \in Nat
      /\ PartAt(c, 1, b) /\ PartAt(c, Len(b) + 1, a)
  BY <1>1, PartOfConcat
<1>3. Len(c) \in Nat /\ Len(b) + 1 \in Nat \ {0}
  BY <1>2
<1>4. ASSUME PartAt(buf, 1, c)
      PROVE  PartAt(buf, 1, b) /\ PartAt(buf, Len(b) + 1, a)
  BY <1>2, <1>3, <1>4, PartOfPart
<1> QED
  BY <1>2, <1>4

LEMMA JoinLength ==
    ASSUME NEW b \in Seq(Fields), NEW a \in Seq(Nat), NEW c, IsJoin(c, b, a)
    PROVE  c \in Seq(Fields) /\ Len(c) = Len(b) + Len(a)
<1> DEFINE buf == <<>>
<1>1. Len(buf) \in Nat
  OBVIOUS
<1> HIDE DEF buf
<1>2. /\ c \in Seq(Fields) /\ Len(c) = Len(b) + Len(a)
      /\ PartAt(buf, 1, c) =>
            PartAt(buf, 1, b) /\ PartAt(buf, Len(b) + 1, a)
  BY <1>1, JoinIn
<1> QED
  BY <1>2

\* Where each list starts; n is the number of fields of all columns.
AtByName(s) == 4 + 6 * Len(s.tables)
AtColumns(s) == AtByName(s) + 1 + Len(s.by_name)
AtColumnNames(s, n) == AtColumns(s) + 1 + n
AtConstraints(s, n) == AtColumnNames(s, n) + 1 + Len(s.column_names)
AtForeignKeys(s, n) == AtConstraints(s, n) + 1 + Len(s.constraint_pool)
AtEnd(s, n) == AtForeignKeys(s, n) + 1 + 6 * Len(s.foreign_key_pool)

LaidOut(buf, s, off) ==
    LET n == off[Len(s.columns)]
    IN  /\ buf \in Seq(Fields) /\ Len(buf) + 1 = AtEnd(s, n)
        /\ buf[1] = s.hash /\ buf[2] = s.interner
        /\ FixedAt(buf, TablesAt, 6, TableFields(s))
        /\ FixedAt(buf, AtByName(s), 1, Singles(s.by_name))
        /\ ListAt(buf, AtColumns(s), ColumnFields(s), off)
        /\ FixedAt(buf, AtColumnNames(s, n), 1, Singles(s.column_names))
        /\ FixedAt(buf, AtConstraints(s, n), 1, Singles(s.constraint_pool))
        /\ FixedAt(buf, AtForeignKeys(s, n), 6, ForeignKeyFields(s))

LEMMA OneFurther ==
    ASSUME NEW a \in Nat, NEW d \in Nat
    PROVE  (a + 1) + 1 + d = a + (1 + d) + 1
OBVIOUS

LEMMA SchemaTypes ==
    ASSUME NEW s \in DatabaseSchema
    PROVE  /\ s.hash \in STRING /\ s.interner \in Seq(STRING)
           /\ s.tables \in Seq(TableMeta) /\ s.by_name \in Seq(Nat)
           /\ s.columns \in Seq(Column) /\ s.column_names \in Seq(Symbol)
           /\ s.constraint_pool \in Seq(Symbol)
           /\ s.foreign_key_pool \in Seq(ForeignKey)
           /\ s.column_names \in Seq(Nat) /\ s.constraint_pool \in Seq(Nat)
           /\ Len(s.tables) \in Nat /\ Len(s.by_name) \in Nat
           /\ Len(s.columns) \in Nat /\ Len(s.column_names) \in Nat
           /\ Len(s.constraint_pool) \in Nat /\ Len(s.foreign_key_pool) \in Nat
<1>1. /\ s.hash \in STRING /\ s.interner \in Seq(STRING)
      /\ s.tables \in Seq(TableMeta) /\ s.by_name \in Seq(Nat)
      /\ s.columns \in Seq(Column) /\ s.column_names \in Seq(Symbol)
      /\ s.constraint_pool \in Seq(Symbol)
      /\ s.foreign_key_pool \in Seq(ForeignKey)
  BY DEF DatabaseSchema
<1>2. Symbol \subseteq Nat
  BY DEF Symbol
<1>3. s.column_names \in Seq(Nat) /\ s.constraint_pool \in Seq(Nat)
  BY <1>1, <1>2, SeqOfMore
<1>4. /\ Len(s.tables) \in Nat /\ Len(s.by_name) \in Nat
      /\ Len(s.columns) \in Nat /\ Len(s.column_names) \in Nat
      /\ Len(s.constraint_pool) \in Nat /\ Len(s.foreign_key_pool) \in Nat
  BY <1>1
<1> QED
  BY <1>1, <1>3, <1>4

\* What encode writes is laid out so.
LEMMA EncodeIs ==
    ASSUME NEW s \in DatabaseSchema
    PROVE  \E off : /\ IsLayout(off, ColumnFields(s))
                    /\ LaidOut(Encode(s), s, off)
<1> DEFINE T == TableFields(s)
           B == Singles(s.by_name)
           C == ColumnFields(s)
           N == Singles(s.column_names)
           K == Singles(s.constraint_pool)
           F == ForeignKeyFields(s)
           a1 == EncodedList(s.tables, EncodedTable)
           a2 == EncodedList(s.by_name, LAMBDA i : <<i>>)
           a3 == EncodedList(s.columns, EncodedColumn)
           a4 == EncodedList(s.column_names, LAMBDA x : <<x>>)
           a5 == EncodedList(s.constraint_pool, LAMBDA x : <<x>>)
           a6 == EncodedList(s.foreign_key_pool, EncodedForeignKey)
           b0 == <<s.hash, s.interner>>
           b1 == b0 \o a1
           b2 == b1 \o a2
           b3 == b2 \o a3
           b4 == b3 \o a4
           b5 == b4 \o a5
           b6 == b5 \o a6
<1>1. /\ AreFields(T, Len(s.tables), 6) /\ AreFields(B, Len(s.by_name), 1)
      /\ AreFields(N, Len(s.column_names), 1)
      /\ AreFields(K, Len(s.constraint_pool), 1)
      /\ AreFields(F, Len(s.foreign_key_pool), 6)
  BY SchemaTypes, TableFieldsAre, SinglesAre, ForeignKeyFieldsAre
<1>2. /\ C \in Seq(Seq(Nat)) /\ Len(C) = Len(s.columns) /\ Len(C) \in Nat
  BY SchemaTypes, ColumnFieldsAre
<1>3. Encode(s) = b6
  BY DEF Encode
<1>4. IsLed(a1, Len(T), FlattenSeq(T))
  BY <1>1 DEF AreFields, IsLed, EncodedList, TableFields
<1>5. IsLed(a2, Len(B), FlattenSeq(B))
  BY <1>1 DEF AreFields, IsLed, EncodedList, Singles
<1>6. IsLed(a3, Len(C), FlattenSeq(C))
  BY <1>2 DEF IsLed, EncodedList, ColumnFields
<1>7. IsLed(a4, Len(N), FlattenSeq(N))
  BY <1>1 DEF AreFields, IsLed, EncodedList, Singles
<1>8. IsLed(a5, Len(K), FlattenSeq(K))
  BY <1>1 DEF AreFields, IsLed, EncodedList, Singles
<1>9. IsLed(a6, Len(F), FlattenSeq(F))
  BY <1>1 DEF AreFields, IsLed, EncodedList, ForeignKeyFields
<1>10. /\ IsJoin(b1, b0, a1) /\ IsJoin(b2, b1, a2) /\ IsJoin(b3, b2, a3)
       /\ IsJoin(b4, b3, a4) /\ IsJoin(b5, b4, a5) /\ IsJoin(b6, b5, a6)
  BY DEF IsJoin
<1>11. b0 \in Seq(Fields) /\ Len(b0) = 2 /\ b0[1] = s.hash /\ b0[2] = s.interner
  <2>1. s.hash \in Fields /\ s.interner \in Fields
    BY SchemaTypes DEF Fields
  <2> QED
    BY <2>1
<1> HIDE DEF T, B, C, N, K, F, a1, a2, a3, a4, a5, a6, b0, b1, b2, b3, b4, b5, b6
<1>12. /\ a1 \in Seq(Nat) /\ Len(a1) = 1 + 6 * Len(s.tables)
       /\ a2 \in Seq(Nat) /\ Len(a2) = 1 + Len(s.by_name)
       /\ a4 \in Seq(Nat) /\ Len(a4) = 1 + Len(s.column_names)
       /\ a5 \in Seq(Nat) /\ Len(a5) = 1 + Len(s.constraint_pool)
       /\ a6 \in Seq(Nat) /\ Len(a6) = 1 + 6 * Len(s.foreign_key_pool)
  <2>1. a1 \in Seq(Nat) /\ Len(a1) = 1 + 6 * Len(s.tables)
    BY <1>1, <1>4, SchemaTypes, FixedList
  <2>2. a2 \in Seq(Nat) /\ Len(a2) = 1 + 1 * Len(s.by_name)
    BY <1>1, <1>5, SchemaTypes, FixedList
  <2>3. a4 \in Seq(Nat) /\ Len(a4) = 1 + 1 * Len(s.column_names)
    BY <1>1, <1>7, SchemaTypes, FixedList
  <2>4. a5 \in Seq(Nat) /\ Len(a5) = 1 + 1 * Len(s.constraint_pool)
    BY <1>1, <1>8, SchemaTypes, FixedList
  <2>5. a6 \in Seq(Nat) /\ Len(a6) = 1 + 6 * Len(s.foreign_key_pool)
    BY <1>1, <1>9, SchemaTypes, FixedList
  <2> QED
    BY <2>1, <2>2, <2>3, <2>4, <2>5, SchemaTypes
<1>13. a3 \in Seq(Nat)
  BY <1>2, <1>6, ListIs
<1>14. PICK off : /\ IsLayout(off, C) /\ Len(a3) = 1 + off[Len(C)]
                  /\ ListAt(a3, 1, C, off)
  <2>1. C \in Seq(Seq(Nat)) /\ Len(C) \in Nat
    BY <1>2
  <2>2. \E off : /\ IsLayout(off, C) /\ Len(a3) = 1 + off[Len(C)]
                 /\ ListAt(a3, 1, C, off)
    BY <1>6, <2>1, ListIs
  <2> QED
    BY <2>2
<1> DEFINE n == off[Len(C)]
<1>15. n \in Nat
  BY <1>2, <1>14 DEF IsLayout
<1> HIDE DEF n
<1>16. /\ b1 \in Seq(Fields) /\ Len(b1) = Len(b0) + Len(a1)
       /\ b2 \in Seq(Fields) /\ Len(b2) = Len(b1) + Len(a2)
       /\ b3 \in Seq(Fields) /\ Len(b3) = Len(b2) + Len(a3)
       /\ b4 \in Seq(Fields) /\ Len(b4) = Len(b3) + Len(a4)
       /\ b5 \in Seq(Fields) /\ Len(b5) = Len(b4) + Len(a5)
       /\ b6 \in Seq(Fields) /\ Len(b6) = Len(b5) + Len(a6)
  <2>1. b1 \in Seq(Fields) /\ Len(b1) = Len(b0) + Len(a1)
    <3>1. IsJoin(b1, b0, a1) /\ b0 \in Seq(Fields) /\ a1 \in Seq(Nat)
      BY <1>10, <1>12, <1>11
    <3> QED
      BY <3>1, JoinLength
  <2>2. b2 \in Seq(Fields) /\ Len(b2) = Len(b1) + Len(a2)
    <3>1. IsJoin(b2, b1, a2) /\ b1 \in Seq(Fields) /\ a2 \in Seq(Nat)
      BY <1>10, <1>12, <2>1
    <3> QED
      BY <3>1, JoinLength
  <2>3. b3 \in Seq(Fields) /\ Len(b3) = Len(b2) + Len(a3)
    <3>1. IsJoin(b3, b2, a3) /\ b2 \in Seq(Fields) /\ a3 \in Seq(Nat)
      BY <1>10, <1>13, <2>2
    <3> QED
      BY <3>1, JoinLength
  <2>4. b4 \in Seq(Fields) /\ Len(b4) = Len(b3) + Len(a4)
    <3>1. IsJoin(b4, b3, a4) /\ b3 \in Seq(Fields) /\ a4 \in Seq(Nat)
      BY <1>10, <1>12, <2>3
    <3> QED
      BY <3>1, JoinLength
  <2>5. b5 \in Seq(Fields) /\ Len(b5) = Len(b4) + Len(a5)
    <3>1. IsJoin(b5, b4, a5) /\ b4 \in Seq(Fields) /\ a5 \in Seq(Nat)
      BY <1>10, <1>12, <2>4
    <3> QED
      BY <3>1, JoinLength
  <2>6. b6 \in Seq(Fields) /\ Len(b6) = Len(b5) + Len(a6)
    <3>1. IsJoin(b6, b5, a6) /\ b5 \in Seq(Fields) /\ a6 \in Seq(Nat)
      BY <1>10, <1>12, <2>5
    <3> QED
      BY <3>1, JoinLength
  <2> QED
    BY <2>1, <2>2, <2>3, <2>4, <2>5, <2>6
<1>17. Len(b6) \in Nat
  BY <1>16
<1>18. PartAt(b6, 1, b6)
  <2>1. \A j \in 1..Len(b6) : 1 + j - 1 = j
    BY <1>17
  <2>2. 1 + Len(b6) <= Len(b6) + 1
    BY <1>17
  <2> QED
    BY <2>1, <2>2 DEF PartAt
<1>19. PartAt(b6, 1, b5) /\ PartAt(b6, Len(b5) + 1, a6)
  BY <1>10, <1>12, <1>16, <1>17, <1>18, JoinIn
<1>20. PartAt(b6, 1, b4) /\ PartAt(b6, Len(b4) + 1, a5)
  BY <1>10, <1>12, <1>16, <1>17, <1>19, JoinIn
<1>21. PartAt(b6, 1, b3) /\ PartAt(b6, Len(b3) + 1, a4)
  BY <1>10, <1>12, <1>16, <1>17, <1>20, JoinIn
<1>22. PartAt(b6, 1, b2) /\ PartAt(b6, Len(b2) + 1, a3)
  BY <1>10, <1>13, <1>16, <1>17, <1>21, JoinIn
<1>23. PartAt(b6, 1, b1) /\ PartAt(b6, Len(b1) + 1, a2)
  BY <1>10, <1>12, <1>16, <1>17, <1>22, JoinIn
<1>24. PartAt(b6, 1, b0) /\ PartAt(b6, Len(b0) + 1, a1)
  BY <1>10, <1>11, <1>12, <1>16, <1>17, <1>23, JoinIn
<1>25. /\ Len(b0) + 1 = 3 /\ Len(b1) + 1 = AtByName(s)
       /\ Len(b2) + 1 = AtColumns(s) /\ Len(b3) + 1 = AtColumnNames(s, n)
       /\ Len(b4) + 1 = AtConstraints(s, n)
       /\ Len(b5) + 1 = AtForeignKeys(s, n) /\ Len(b6) + 1 = AtEnd(s, n)
  <2>1. Len(a3) = 1 + n
    BY <1>14 DEF n
  <2>2. Len(b0) + 1 = 3
    BY <1>11
  <2>3. Len(b1) + 1 = AtByName(s)
    BY <1>11, <1>12, <1>16, SchemaTypes DEF AtByName
  <2>4. Len(b2) + 1 = AtColumns(s)
    <3>1. Len(b1) \in Nat /\ Len(s.by_name) \in Nat
      BY <1>16, SchemaTypes
    <3>2. (Len(b1) + 1) + 1 + Len(s.by_name) = Len(b1) + (1 + Len(s.by_name)) + 1
      BY <3>1, OneFurther, Zenon
    <3>3. Len(b2) = Len(b1) + (1 + Len(s.by_name))
      BY <1>16, <1>12
    <3> QED
      BY <2>3, <3>2, <3>3 DEF AtColumns
  <2>5. Len(b3) + 1 = AtColumnNames(s, n)
    <3>1. Len(b2) \in Nat /\ n \in Nat
      BY <1>15, <1>16, SchemaTypes
    <3>2. (Len(b2) + 1) + 1 + n = Len(b2) + (1 + n) + 1
      BY <3>1, OneFurther, Zenon
    <3>3. Len(b3) = Len(b2) + (1 + n)
      BY <1>16, <2>1
    <3> QED
      BY <2>4, <3>2, <3>3 DEF AtColumnNames
  <2>6. Len(b4) + 1 = AtConstraints(s, n)
    <3>1. Len(b3) \in Nat /\ Len(s.column_names) \in Nat
      BY <1>16, SchemaTypes
    <3>2. (Len(b3) + 1) + 1 + Len(s.column_names) = Len(b3) + (1 + Len(s.column_names)) + 1
      BY <3>1, OneFurther, Zenon
    <3>3. Len(b4) = Len(b3) + (1 + Len(s.column_names))
      BY <1>16, <1>12
    <3> QED
      BY <2>5, <3>2, <3>3 DEF AtConstraints
  <2>7. Len(b5) + 1 = AtForeignKeys(s, n)
    <3>1. Len(b4) \in Nat /\ Len(s.constraint_pool) \in Nat
      BY <1>16, SchemaTypes
    <3>2. (Len(b4) + 1) + 1 + Len(s.constraint_pool) = Len(b4) + (1 + Len(s.constraint_pool)) + 1
      BY <3>1, OneFurther, Zenon
    <3>3. Len(b5) = Len(b4) + (1 + Len(s.constraint_pool))
      BY <1>16, <1>12
    <3> QED
      BY <2>6, <3>2, <3>3 DEF AtForeignKeys
  <2>8. Len(b6) + 1 = AtEnd(s, n)
    <3>1. Len(b5) \in Nat /\ 6 * Len(s.foreign_key_pool) \in Nat
      BY <1>16, SchemaTypes
    <3>2. (Len(b5) + 1) + 1 + 6 * Len(s.foreign_key_pool) = Len(b5) + (1 + 6 * Len(s.foreign_key_pool)) + 1
      BY <3>1, OneFurther, Zenon
    <3>3. Len(b6) = Len(b5) + (1 + 6 * Len(s.foreign_key_pool))
      BY <1>16, <1>12
    <3> QED
      BY <2>7, <3>2, <3>3 DEF AtEnd
  <2> QED
    BY <2>2, <2>3, <2>4, <2>5, <2>6, <2>7, <2>8
<1>26. /\ Len(b0) + 1 \in Nat \ {0} /\ Len(b1) + 1 \in Nat \ {0}
       /\ Len(b2) + 1 \in Nat \ {0} /\ Len(b3) + 1 \in Nat \ {0}
       /\ Len(b4) + 1 \in Nat \ {0} /\ Len(b5) + 1 \in Nat \ {0}
  BY SMTT(30), <1>11, <1>16
<1>27. b6[1] = s.hash /\ b6[2] = s.interner
  <2>1. b6[1 + 1 - 1] = b0[1] /\ b6[1 + 2 - 1] = b0[2]
    BY <1>11, <1>24 DEF PartAt
  <2> QED
    BY <1>11, <2>1
<1>28. FixedAt(b6, Len(b0) + 1, 6, T)
  BY <1>1, <1>4, <1>17, <1>24, <1>26, SchemaTypes, FixedList
<1>29. FixedAt(b6, Len(b1) + 1, 1, B)
  BY <1>1, <1>5, <1>17, <1>23, <1>26, SchemaTypes, FixedList
<1>30. ListAt(b6, Len(b2) + 1, C, off)
  <2>1. Len(a3) \in Nat
    BY <1>13
  <2> QED
    BY <1>2, <1>14, <1>17, <1>22, <1>26, <2>1, ListInBuf
<1>31. FixedAt(b6, Len(b3) + 1, 1, N)
  BY <1>1, <1>7, <1>17, <1>21, <1>26, SchemaTypes, FixedList
<1>32. FixedAt(b6, Len(b4) + 1, 1, K)
  BY <1>1, <1>8, <1>17, <1>20, <1>26, SchemaTypes, FixedList
<1>33. FixedAt(b6, Len(b5) + 1, 6, F)
  BY <1>1, <1>9, <1>17, <1>19, <1>26, SchemaTypes, FixedList
<1>34. LaidOut(b6, s, off)
  <2>1. n = off[Len(s.columns)]
    BY <1>2 DEF n
  <2> QED
    BY <1>16, <1>25, <1>27, <1>28, <1>29, <1>30, <1>31, <1>32, <1>33, <2>1
       DEF LaidOut, TablesAt, T, B, C, N, K, F
<1> QED
  BY <1>3, <1>14, <1>34 DEF C

-----------------------------------------------------------------------------
(* The walk.                                                               *)

LEMMA WidthIs ==
    ASSUME NEW buf, NEW p
    PROVE  ColumnWidth(buf, p) \in {8, 9} /\ ColumnWidth(buf, p) \in Nat
BY DEF ColumnWidth

\* The function that ColumnStarts defines.
LEMMA ColumnStartsAre ==
    ASSUME NEW buf, ColumnsAt(buf) \in Nat,
           NEW n \in Nat, Field(buf, ColumnsAt(buf)) = n
    PROVE  LET start == ColumnStarts(buf)
           IN  /\ start[0] = ColumnsAt(buf) + 1
               /\ \A i \in 1..n :
                     start[i] = start[i - 1] + ColumnWidth(buf, start[i - 1])
<1> DEFINE base == ColumnsAt(buf) + 1
           H == [p \in Nat \X Nat |-> p[1] + ColumnWidth(buf, p[1])]
<1>1. base \in Nat
  OBVIOUS
<1>2. H \in [Nat \X Nat -> Nat]
  <2> SUFFICES ASSUME NEW p \in Nat \X Nat
               PROVE  p[1] + ColumnWidth(buf, p[1]) \in Nat
    OBVIOUS
  <2>1. p[1] \in Nat /\ ColumnWidth(buf, p[1]) \in Nat
    BY WidthIs
  <2> QED
    BY <2>1
<1>3. PICK g \in [0..n -> Nat] : IsRecursive(g, n, base, H)
  <2> HIDE DEF base, H
  <2> QED
    BY <1>1, <1>2, RecursiveFunction
<1>4. g[0] = base
  BY <1>3 DEF IsRecursive
<1>5. ASSUME NEW i \in 1..n
      PROVE  g[i] = g[i - 1] + ColumnWidth(buf, g[i - 1])
  <2>1. i - 1 \in 0..n /\ i \in Nat
    OBVIOUS
  <2>2. <<g[i - 1], i>> \in Nat \X Nat
    BY <2>1
  <2>3. H[<<g[i - 1], i>>] = g[i - 1] + ColumnWidth(buf, g[i - 1])
    BY <2>2
  <2> HIDE DEF H
  <2> QED
    BY <1>3, <2>3 DEF IsRecursive
<1> DEFINE Body(f, i) ==
              IF i = 0 THEN base
              ELSE f[i - 1] + ColumnWidth(buf, f[i - 1])
           Def(f) == f = [i \in 0..n |-> Body(f, i)]
<1>6. Def(g)
  <2>1. ASSUME NEW i \in 0..n PROVE g[i] = Body(g, i)
    <3>1. CASE i = 0
      BY <1>4, <3>1
    <3>2. CASE i # 0
      <4>1. i \in 1..n
        BY <3>2
      <4> QED
        BY <1>5, <3>2, <4>1
    <3> QED
      BY <3>1, <3>2
  <2> HIDE DEF Body, base
  <2> QED
    BY <2>1
<1> DEFINE start == CHOOSE f : Def(f)
<1>7. Def(start)
  <2> HIDE DEF Def
  <2> QED
    BY <1>6
<1>8. ColumnStarts(buf) = start
  BY DEF ColumnStarts
<1>9. start[0] = base /\ \A i \in 1..n : start[i] = Body(start, i)
  <2>1. 0 \in 0..n /\ \A i \in 1..n : i \in 0..n /\ i # 0
    OBVIOUS
  <2> HIDE DEF Body, start, base
  <2>2. \A i \in 0..n : start[i] = Body(start, i)
    BY <1>7
  <2>3. Body(start, 0) = base
    BY DEF Body
  <2> QED
    BY <2>1, <2>2, <2>3
<1>10. ASSUME NEW i \in 1..n
       PROVE  start[i] = start[i - 1] + ColumnWidth(buf, start[i - 1])
  <2>1. i # 0
    OBVIOUS
  <2> HIDE DEF start
  <2> QED
    BY <1>9, <2>1
<1> HIDE DEF start
<1> QED
  BY <1>8, <1>9, <1>10

\* Where the walk over fields of which n are left comes to, when it would come
\* to q if none were missing: there, or past the end as well.
Agrees(n, q, p) == /\ q \in Nat /\ p \in Nat
                   /\ q <= n => p = q
                   /\ q > n => p > n

\* What steers the walk is in buf, unless it is missing: the lengths of the
\* lists and the types of the columns.
FieldIs(buf, n, q, x) == q <= n => Field(buf, q) = x

Steered(buf, n, s, off) ==
    LET m == off[Len(s.columns)]
    IN  /\ \A q \in Nat : q > n => Field(buf, q) = 0
        /\ FieldIs(buf, n, TablesAt, Len(s.tables))
        /\ FieldIs(buf, n, AtByName(s), Len(s.by_name))
        /\ FieldIs(buf, n, AtColumns(s), Len(s.columns))
        /\ \A i \in 1..Len(s.columns) :
              FieldIs(buf, n, AtColumns(s) + 1 + off[i - 1] + 1,
                      ToU8(s.columns[i].data_type))
        /\ FieldIs(buf, n, AtColumnNames(s, m), Len(s.column_names))
        /\ FieldIs(buf, n, AtConstraints(s, m), Len(s.constraint_pool))
        /\ FieldIs(buf, n, AtForeignKeys(s, m), Len(s.foreign_key_pool))

\* From one list to the next.
LEMMA NextList ==
    ASSUME NEW buf, NEW n \in Nat, NEW q, NEW p, NEW w \in Nat, NEW l \in Nat,
           Agrees(n, q, p), FieldIs(buf, n, q, l),
           \A r \in Nat : r > n => Field(buf, r) = 0
    PROVE  /\ Agrees(n, q + 1 + w * l, AfterList(buf, p, w))
           /\ q <= n => AfterList(buf, p, w) = q + 1 + w * l
           /\ q > n => AfterList(buf, p, w) > n + 1
<1>1. q \in Nat /\ p \in Nat /\ w * l \in Nat
  BY DEF Agrees
<1>2. CASE q <= n
  <2>1. p = q /\ Field(buf, p) = l
    BY <1>2 DEF Agrees, FieldIs
  <2>2. AfterList(buf, p, w) = q + 1 + w * l
    BY <2>1 DEF AfterList
  <2> DEFINE k == w * l
  <2>3. k \in Nat
    BY <1>1
  <2>4. AfterList(buf, p, w) = q + 1 + k
    BY <2>2
  <2> HIDE DEF k
  <2>5. q + 1 + k \in Nat
    BY <1>1, <2>3
  <2>6. Agrees(n, q + 1 + k, AfterList(buf, p, w))
    BY <2>4, <2>5 DEF Agrees
  <2> QED
    BY <1>1, <1>2, <2>2, <2>6 DEF k
<1>3. CASE q > n
  <2>1. p > n /\ Field(buf, p) = 0
    BY <1>1, <1>3 DEF Agrees
  <2>2. w * 0 = 0
    OBVIOUS
  <2>3. AfterList(buf, p, w) = p + 1
    BY <1>1, <2>1, <2>2 DEF AfterList
  <2> DEFINE k == w * l
  <2>4. k \in Nat
    BY <1>1
  <2> HIDE DEF k
  <2>5. q + 1 + k \in Nat /\ q + 1 + k > n /\ p + 1 \in Nat /\ p + 1 > n + 1
    BY <1>1, <1>3, <2>1, <2>4
  <2>6. Agrees(n, q + 1 + k, AfterList(buf, p, w))
    BY <2>3, <2>5 DEF Agrees
  <2> QED
    BY <1>1, <1>3, <2>3, <2>5, <2>6 DEF k
<1> QED
  BY <1>1, <1>2, <1>3

\* The offsets of the columns.
LEMMA ColumnLayout ==
    ASSUME NEW s \in DatabaseSchema, NEW off,
           IsLayout(off, ColumnFields(s))
    PROVE  /\ Len(s.columns) \in Nat /\ off[0] = 0
           /\ \A i \in 0..Len(s.columns) : off[i] \in Nat
           /\ \A i \in 1..Len(s.columns) :
                 /\ s.columns[i] \in Column
                 /\ Width(s.columns[i]) \in {8, 9}
                 /\ off[i] = off[i - 1] + Width(s.columns[i])
<1> DEFINE C == ColumnFields(s)
           m == Len(s.columns)
<1>1. s.columns \in Seq(Column)
  BY SchemaTypes
<1>2. /\ Len(C) = m /\ m \in Nat
      /\ \A i \in 1..m : /\ s.columns[i] \in Column
                         /\ Len(C[i]) = Width(s.columns[i])
  BY <1>1, ColumnFieldsAre
<1> HIDE DEF C
<1>3. /\ off \in [0..m -> Nat] /\ off[0] = 0
      /\ \A i \in 1..m : off[i] = off[i - 1] + Len(C[i])
  BY <1>2 DEF IsLayout, C
<1> HIDE DEF m
<1> QED
  BY <1>2, <1>3 DEF Width, m

\* The columns.
LEMMA WalkOfColumns ==
    ASSUME NEW s \in DatabaseSchema, NEW off, NEW buf, NEW n \in Nat,
           IsLayout(off, ColumnFields(s)), Steered(buf, n, s, off),
           Agrees(n, AtColumns(s), ColumnsAt(buf)), AtColumns(s) <= n
    PROVE  /\ Field(buf, ColumnsAt(buf)) = Len(s.columns)
           /\ \A i \in 0..Len(s.columns) :
                 Agrees(n, AtColumns(s) + 1 + off[i], ColumnStarts(buf)[i])
<1> DEFINE m == Len(s.columns)
           at == AtColumns(s)
           start == ColumnStarts(buf)
<1>1. /\ m \in Nat /\ off[0] = 0
      /\ \A i \in 0..m : off[i] \in Nat
      /\ \A i \in 1..m : /\ s.columns[i] \in Column
                         /\ Width(s.columns[i]) \in {8, 9}
                         /\ off[i] = off[i - 1] + Width(s.columns[i])
  BY ColumnLayout
<1>2. at \in Nat /\ ColumnsAt(buf) = at /\ at <= n
  BY DEF Agrees
<1>3. Field(buf, ColumnsAt(buf)) = m
  BY <1>2 DEF Steered, FieldIs
<1>4. /\ start[0] = at + 1
      /\ \A i \in 1..m :
            start[i] = start[i - 1] + ColumnWidth(buf, start[i - 1])
  <2>1. ColumnsAt(buf) \in Nat
    BY <1>2
  <2> HIDE DEF m, at, start
  <2> QED
    BY <1>1, <1>2, <1>3, <2>1, ColumnStartsAre DEF start
<1>5. ASSUME NEW i \in 1..m
      PROVE  FieldIs(buf, n, at + 1 + off[i - 1] + 1,
                     ToU8(s.columns[i].data_type))
  BY DEF Steered
<1>6. \A q \in Nat : q > n => Field(buf, q) = 0
  BY DEF Steered
<1> HIDE DEF m, at, start
<1> DEFINE P == {k \in Nat : k <= m => Agrees(n, at + 1 + off[k], start[k])}
<1>7. 0 \in P
  <2>1. at + 1 + off[0] = at + 1 /\ at + 1 \in Nat
    BY <1>1, <1>2
  <2> QED
    BY <1>4, <2>1 DEF Agrees
<1>8. ASSUME NEW k \in Nat, k < m, k \in P PROVE k + 1 \in P
  <2> DEFINE o == off[k]
             c == s.columns[k + 1]
             q == at + 1 + o
             p == start[k]
             w == Width(c)
             v == ColumnWidth(buf, p)
  <2>1. k + 1 \in 1..m /\ (k + 1) - 1 = k /\ k \in 0..m /\ k + 1 \in 0..m
    BY <1>1, <1>8
  <2>2. o \in Nat /\ w \in {8, 9} /\ v \in {8, 9} /\ c \in Column
    BY <1>1, <2>1, WidthIs
  <2>3. off[k + 1] = o + w /\ start[k + 1] = p + v
    <3>1. off[k + 1] = off[(k + 1) - 1] + Width(s.columns[k + 1])
      BY <1>1, <2>1
    <3>2. start[k + 1] = start[(k + 1) - 1]
                         + ColumnWidth(buf, start[(k + 1) - 1])
      BY <1>4, <2>1
    <3> QED
      BY <2>1, <3>1, <3>2
  <2>4. Agrees(n, q, p)
    BY <1>1, <1>8
  <2>5. FieldIs(buf, n, q + 1, ToU8(c.data_type))
    BY <1>5, <2>1
  <2>6. q + 1 <= n => v = w
    <3>1. SUFFICES ASSUME q + 1 <= n PROVE v = w
      OBVIOUS
    <3>2. q \in Nat /\ p = q
      <4>1. q <= n
        <5> HIDE DEF q
        <5> QED
          BY <2>4, <3>1 DEF Agrees
      <4> QED
        BY <2>4, <4>1 DEF Agrees
    <3>3. Field(buf, p + 1) = ToU8(c.data_type)
      BY <2>5, <3>1, <3>2 DEF FieldIs
    <3>4. c.data_type \in ValueType
      BY <2>2 DEF Column
    <3>5. ToU8(c.data_type) = CustomTag <=> c.data_type.kind = "Custom"
      BY <3>4, ToU8Is
    <3> QED
      BY <3>3, <3>5 DEF ColumnWidth, Width
  <2>7. at + 1 + off[k + 1] = q + w
    BY <1>2, <2>2, <2>3
  <2> HIDE DEF q, p, w, v, c, o
  <2>8. q \in Nat /\ p \in Nat
    BY <2>4 DEF Agrees
  <2>9. Agrees(n, q + w, p + v)
    <3>1. q + w \in Nat /\ p + v \in Nat
      BY <2>2, <2>8
    <3>2. q + w <= n => p + v = q + w
      <4>1. SUFFICES ASSUME q + w <= n PROVE p + v = q + w
        OBVIOUS
      <4>2. q + 1 <= n /\ q <= n
        BY <2>2, <2>8, <4>1
      <4> QED
        BY <2>4, <2>6, <4>2 DEF Agrees
    <3>3. q + w > n => p + v > n
      <4>1. CASE q > n
        BY <2>2, <2>4, <2>8, <4>1 DEF Agrees
      <4>2. CASE q <= n /\ q + 1 > n
        <5>1. p = q
          BY <2>4, <4>2 DEF Agrees
        <5> QED
          BY <2>2, <2>8, <4>2, <5>1
      <4>3. CASE q + 1 <= n
        <5>1. p = q /\ v = w
          <6>1. q <= n
            BY <2>8, <4>3
          <6> QED
            BY <2>4, <2>6, <4>3, <6>1 DEF Agrees
        <5> QED
          BY <5>1
      <4> QED
        BY <2>8, <4>1, <4>2, <4>3
    <3> QED
      BY <3>1, <3>2, <3>3 DEF Agrees
  <2>10. Agrees(n, at + 1 + off[k + 1], start[k + 1])
    BY <2>3, <2>7, <2>9
  <2> QED
    BY <2>10
<1>9. \A k \in 0..m : k \in P
  <2> HIDE DEF P
  <2> QED
    BY <1>1, <1>7, <1>8, UpTo
<1>10. \A k \in 0..m : Agrees(n, at + 1 + off[k], start[k])
  BY <1>1, <1>9
<1> QED
  BY <1>3, <1>10 DEF m, at, start

Walked(buf, n, s, off) ==
    LET m == off[Len(s.columns)]
    IN  /\ Agrees(n, AtByName(s), ByNameAt(buf))
        /\ Agrees(n, AtColumns(s), ColumnsAt(buf))
        /\ AtColumns(s) <= n =>
              \A i \in 0..Len(s.columns) :
                  Agrees(n, AtColumns(s) + 1 + off[i], ColumnStarts(buf)[i])
        /\ Agrees(n, AtColumnNames(s, m), ColumnNamesAt(buf))
        /\ Agrees(n, AtConstraints(s, m), ConstraintsAt(buf))
        /\ Agrees(n, AtForeignKeys(s, m), ForeignKeysAt(buf))
        /\ AtForeignKeys(s, m) <= n => End(buf) = AtEnd(s, m)
        /\ AtForeignKeys(s, m) > n => End(buf) > n + 1

\* When there are no columns to walk over, the walk goes on behind their
\* length.
LEMMA NoColumns ==
    ASSUME NEW buf, ColumnsAt(buf) \in Nat, Field(buf, ColumnsAt(buf)) = 0
    PROVE  ColumnNamesAt(buf) = ColumnsAt(buf) + 1
<1>1. ColumnStarts(buf)[0] = ColumnsAt(buf) + 1
  BY ColumnStartsAre
<1> QED
  BY <1>1 DEF ColumnNamesAt

LEMMA WalkIs ==
    ASSUME NEW s \in DatabaseSchema, NEW off, NEW buf, NEW n \in Nat,
           IsLayout(off, ColumnFields(s)), Steered(buf, n, s, off)
    PROVE  Walked(buf, n, s, off)
<1> DEFINE m == off[Len(s.columns)]
<1>1. \A r \in Nat : r > n => Field(buf, r) = 0
  BY DEF Steered
<1>2. /\ FieldIs(buf, n, TablesAt, Len(s.tables))
      /\ FieldIs(buf, n, AtByName(s), Len(s.by_name))
      /\ FieldIs(buf, n, AtColumns(s), Len(s.columns))
      /\ FieldIs(buf, n, AtColumnNames(s, m), Len(s.column_names))
      /\ FieldIs(buf, n, AtConstraints(s, m), Len(s.constraint_pool))
      /\ FieldIs(buf, n, AtForeignKeys(s, m), Len(s.foreign_key_pool))
  BY DEF Steered
<1>3. /\ Len(s.tables) \in Nat /\ Len(s.by_name) \in Nat
      /\ Len(s.columns) \in Nat /\ Len(s.column_names) \in Nat
      /\ Len(s.constraint_pool) \in Nat /\ Len(s.foreign_key_pool) \in Nat
  BY SchemaTypes
<1>4. m \in Nat
  <2>1. Len(s.columns) \in 0..Len(s.columns)
    BY <1>3
  <2> QED
    BY <2>1, ColumnLayout
<1>5. Agrees(n, TablesAt, TablesAt)
  BY DEF Agrees, TablesAt
<1>6. Agrees(n, AtByName(s), ByNameAt(buf))
  <2>1. AtByName(s) = TablesAt + 1 + 6 * Len(s.tables)
    BY <1>3 DEF AtByName, TablesAt
  <2>2. Agrees(n, TablesAt + 1 + 6 * Len(s.tables), AfterList(buf, TablesAt, 6))
    BY <1>1, <1>2, <1>3, <1>5, NextList
  <2> QED
    BY <2>1, <2>2 DEF ByNameAt
<1>7. Agrees(n, AtColumns(s), ColumnsAt(buf))
  <2>1. AtColumns(s) = AtByName(s) + 1 + 1 * Len(s.by_name)
    BY <1>3 DEF AtColumns
  <2>2. Agrees(n, AtByName(s) + 1 + 1 * Len(s.by_name),
               AfterList(buf, ByNameAt(buf), 1))
    BY <1>1, <1>2, <1>3, <1>6, NextList
  <2> QED
    BY <2>1, <2>2 DEF ColumnsAt
<1>8. AtColumns(s) <= n =>
        /\ Field(buf, ColumnsAt(buf)) = Len(s.columns)
        /\ \A i \in 0..Len(s.columns) :
              Agrees(n, AtColumns(s) + 1 + off[i], ColumnStarts(buf)[i])
  BY <1>7, WalkOfColumns
<1>9. AtColumns(s) \in Nat /\ ColumnsAt(buf) \in Nat
  BY <1>7 DEF Agrees
<1> HIDE DEF m
<1>10. Agrees(n, AtColumnNames(s, m), ColumnNamesAt(buf))
  <2>1. CASE AtColumns(s) <= n
    <3>1. Len(s.columns) \in 0..Len(s.columns)
      BY <1>3
    <3>2. Agrees(n, AtColumns(s) + 1 + m,
                 ColumnStarts(buf)[Len(s.columns)])
      BY <1>8, <2>1, <3>1 DEF m
    <3> QED
      BY <1>8, <2>1, <3>2 DEF AtColumnNames, ColumnNamesAt
  <2>2. CASE AtColumns(s) > n
    <3>1. ColumnsAt(buf) > n
      BY <1>7, <2>2 DEF Agrees
    <3>2. Field(buf, ColumnsAt(buf)) = 0
      BY <1>1, <1>9, <3>1
    <3>3. ColumnNamesAt(buf) = ColumnsAt(buf) + 1
      BY <1>9, <3>2, NoColumns
    <3>4. AtColumns(s) + 1 + m \in Nat /\ AtColumns(s) + 1 + m > n
      BY <1>4, <1>9, <2>2
    <3>5. ColumnsAt(buf) + 1 \in Nat /\ ColumnsAt(buf) + 1 > n
      BY <1>9, <3>1
    <3> QED
      BY <3>3, <3>4, <3>5 DEF Agrees, AtColumnNames
  <2> QED
    BY <1>9, <2>1, <2>2
<1>11. Agrees(n, AtConstraints(s, m), ConstraintsAt(buf))
  <2>1. AtConstraints(s, m)
          = AtColumnNames(s, m) + 1 + 1 * Len(s.column_names)
    BY <1>3 DEF AtConstraints
  <2>2. Agrees(n, AtColumnNames(s, m) + 1 + 1 * Len(s.column_names),
               AfterList(buf, ColumnNamesAt(buf), 1))
    BY <1>1, <1>2, <1>3, <1>10, NextList DEF m
  <2> QED
    BY <2>1, <2>2 DEF ConstraintsAt
<1>12. Agrees(n, AtForeignKeys(s, m), ForeignKeysAt(buf))
  <2>1. AtForeignKeys(s, m)
          = AtConstraints(s, m) + 1 + 1 * Len(s.constraint_pool)
    BY <1>3 DEF AtForeignKeys
  <2>2. Agrees(n, AtConstraints(s, m) + 1 + 1 * Len(s.constraint_pool),
               AfterList(buf, ConstraintsAt(buf), 1))
    BY <1>1, <1>2, <1>3, <1>11, NextList DEF m
  <2> QED
    BY <2>1, <2>2 DEF ForeignKeysAt
<1>13. /\ AtForeignKeys(s, m) <= n =>
             AfterList(buf, ForeignKeysAt(buf), 6)
               = AtForeignKeys(s, m) + 1 + 6 * Len(s.foreign_key_pool)
       /\ AtForeignKeys(s, m) > n =>
             AfterList(buf, ForeignKeysAt(buf), 6) > n + 1
  <2> DEFINE q == AtForeignKeys(s, m)
             p == ForeignKeysAt(buf)
             l == Len(s.foreign_key_pool)
  <2>1. Agrees(n, q, p) /\ FieldIs(buf, n, q, l) /\ l \in Nat /\ 6 \in Nat
    BY <1>2, <1>3, <1>12 DEF m
  <2> HIDE DEF q, p, l
  <2>2. q <= n => AfterList(buf, p, 6) = q + 1 + 6 * l
    BY <1>1, <2>1, NextList
  <2>3. q > n => AfterList(buf, p, 6) > n + 1
    BY <1>1, <2>1, NextList
  <2> QED
    BY <2>2, <2>3 DEF q, p, l
<1> QED
  BY <1>6, <1>7, <1>8, <1>10, <1>11, <1>12, <1>13
     DEF Walked, End, AtEnd, m

\* Where the lists are, the numbers of the positions.
LEMMA PlacesAscend ==
    ASSUME NEW s \in DatabaseSchema, NEW m \in Nat
    PROVE  /\ AtByName(s) \in Nat /\ AtColumns(s) \in Nat
           /\ AtColumnNames(s, m) \in Nat /\ AtConstraints(s, m) \in Nat
           /\ AtForeignKeys(s, m) \in Nat /\ AtEnd(s, m) \in Nat
           /\ 3 < AtByName(s) /\ AtByName(s) < AtColumns(s)
           /\ AtColumns(s) < AtColumnNames(s, m)
           /\ AtColumnNames(s, m) < AtConstraints(s, m)
           /\ AtConstraints(s, m) < AtForeignKeys(s, m)
           /\ AtForeignKeys(s, m) < AtEnd(s, m)
<1>1. /\ Len(s.tables) \in Nat /\ Len(s.by_name) \in Nat
      /\ Len(s.column_names) \in Nat
      /\ Len(s.constraint_pool) \in Nat /\ Len(s.foreign_key_pool) \in Nat
  BY SchemaTypes
<1>2. AtByName(s) \in Nat /\ 3 < AtByName(s)
  BY <1>1 DEF AtByName
<1>3. AtColumns(s) \in Nat /\ AtByName(s) < AtColumns(s)
  BY <1>1, <1>2 DEF AtColumns
<1>4. AtColumnNames(s, m) \in Nat /\ AtColumns(s) < AtColumnNames(s, m)
  BY <1>3 DEF AtColumnNames
<1>5. /\ AtConstraints(s, m) \in Nat
      /\ AtColumnNames(s, m) < AtConstraints(s, m)
  BY <1>1, <1>4 DEF AtConstraints
<1>6. /\ AtForeignKeys(s, m) \in Nat
      /\ AtConstraints(s, m) < AtForeignKeys(s, m)
  BY <1>1, <1>5 DEF AtForeignKeys
<1>7. AtEnd(s, m) \in Nat /\ AtForeignKeys(s, m) < AtEnd(s, m)
  BY <1>1, <1>6 DEF AtEnd
<1> QED
  BY <1>2, <1>3, <1>4, <1>5, <1>6, <1>7

-----------------------------------------------------------------------------
(* What is in an encoded schema, list by list.                             *)

SteeringFields(s, off) ==
    LET m == off[Len(s.columns)]
    IN  {TablesAt, AtByName(s), AtColumns(s), AtColumnNames(s, m),
         AtConstraints(s, m), AtForeignKeys(s, m)}
        \cup {AtColumns(s) + 1 + off[i - 1] + 1 : i \in 1..Len(s.columns)}

\* Lengths of the lists.
LEMMA LengthsAre ==
    ASSUME NEW s \in DatabaseSchema
    PROVE  /\ Len(TableFields(s)) = Len(s.tables)
           /\ Len(Singles(s.by_name)) = Len(s.by_name)
           /\ Len(ColumnFields(s)) = Len(s.columns)
           /\ Len(Singles(s.column_names)) = Len(s.column_names)
           /\ Len(Singles(s.constraint_pool)) = Len(s.constraint_pool)
           /\ Len(ForeignKeyFields(s)) = Len(s.foreign_key_pool)
<1>1. Len(TableFields(s)) = Len(s.tables)
  BY SchemaTypes, TableFieldsAre DEF AreFields
<1>2. Len(Singles(s.by_name)) = Len(s.by_name)
  BY SchemaTypes, SinglesAre DEF AreFields
<1>3. Len(ColumnFields(s)) = Len(s.columns)
  BY SchemaTypes, ColumnFieldsAre
<1>4. Len(Singles(s.column_names)) = Len(s.column_names)
  BY SchemaTypes, SinglesAre DEF AreFields
<1>5. Len(Singles(s.constraint_pool)) = Len(s.constraint_pool)
  BY SchemaTypes, SinglesAre DEF AreFields
<1>6. Len(ForeignKeyFields(s)) = Len(s.foreign_key_pool)
  BY SchemaTypes, ForeignKeyFieldsAre DEF AreFields
<1> QED
  BY <1>1, <1>2, <1>3, <1>4, <1>5, <1>6

\* The fields of the i-th column, which begin behind p.
LEMMA ColumnInBuf ==
    ASSUME NEW s \in DatabaseSchema, NEW off, NEW buf,
           IsLayout(off, ColumnFields(s)), LaidOut(buf, s, off),
           NEW i \in 1..Len(s.columns)
    PROVE  \A j \in 1..Width(s.columns[i]) :
              buf[AtColumns(s) + off[i - 1] + j]
                 = EncodedColumn(s.columns[i])[j]
<1>1. ListAt(buf, AtColumns(s), ColumnFields(s), off)
  BY DEF LaidOut
<1>2. /\ Len(ColumnFields(s)) = Len(s.columns)
      /\ ColumnFields(s)[i] = EncodedColumn(s.columns[i])
      /\ Len(ColumnFields(s)[i]) = Width(s.columns[i])
  BY SchemaTypes, ColumnFieldsAre
<1> QED
  BY <1>1, <1>2 DEF ListAt

LEMMA SteeredBy ==
    ASSUME NEW s \in DatabaseSchema, NEW off, NEW buf,
           IsLayout(off, ColumnFields(s)), LaidOut(buf, s, off),
           NEW c, NEW n \in Nat,
           \A q \in SteeringFields(s, off) : q <= n => Field(c, q) = buf[q],
           \A q \in Nat : q > n => Field(c, q) = 0
    PROVE  Steered(c, n, s, off)
<1> DEFINE m == off[Len(s.columns)]
<1>1. /\ buf[TablesAt] = Len(s.tables)
      /\ buf[AtByName(s)] = Len(s.by_name)
      /\ buf[AtColumns(s)] = Len(s.columns)
      /\ buf[AtColumnNames(s, m)] = Len(s.column_names)
      /\ buf[AtConstraints(s, m)] = Len(s.constraint_pool)
      /\ buf[AtForeignKeys(s, m)] = Len(s.foreign_key_pool)
  BY LengthsAre DEF LaidOut, FixedAt, ListAt
<1>2. ASSUME NEW i \in 1..Len(s.columns)
      PROVE  buf[AtColumns(s) + 1 + off[i - 1] + 1]
                = ToU8(s.columns[i].data_type)
  <2>1. s.columns[i] \in Column /\ i - 1 \in 0..Len(s.columns)
    BY SchemaTypes, ColumnFieldsAre
  <2>2. off[i - 1] \in Nat
    BY <2>1, ColumnLayout
  <2>3. /\ 2 \in 1..Width(s.columns[i])
        /\ EncodedColumn(s.columns[i])[2] = ToU8(s.columns[i].data_type)
    BY <2>1, EncodedColumnIs DEF Width
  <2>4. buf[AtColumns(s) + off[i - 1] + 2] = ToU8(s.columns[i].data_type)
    BY <2>3, ColumnInBuf
  <2>5. AtColumns(s) \in Nat
    BY <2>2, PlacesAscend
  <2>6. AtColumns(s) + 1 + off[i - 1] + 1 = AtColumns(s) + off[i - 1] + 2
    <3> DEFINE o == off[i - 1]
               a == AtColumns(s)
    <3>1. o \in Nat /\ a \in Nat
      BY <2>2, <2>5
    <3> HIDE DEF o, a
    <3>2. a + 1 + o + 1 = a + o + 2
      BY <3>1
    <3> QED
      BY <3>2 DEF o, a
  <2> QED
    BY <2>4, <2>6
<1>3. /\ TablesAt \in SteeringFields(s, off)
      /\ AtByName(s) \in SteeringFields(s, off)
      /\ AtColumns(s) \in SteeringFields(s, off)
      /\ AtColumnNames(s, m) \in SteeringFields(s, off)
      /\ AtConstraints(s, m) \in SteeringFields(s, off)
      /\ AtForeignKeys(s, m) \in SteeringFields(s, off)
      /\ \A i \in 1..Len(s.columns) :
            AtColumns(s) + 1 + off[i - 1] + 1 \in SteeringFields(s, off)
  BY DEF SteeringFields
<1> HIDE DEF m
<1>4. /\ FieldIs(c, n, TablesAt, Len(s.tables))
      /\ FieldIs(c, n, AtByName(s), Len(s.by_name))
      /\ FieldIs(c, n, AtColumns(s), Len(s.columns))
      /\ FieldIs(c, n, AtColumnNames(s, m), Len(s.column_names))
      /\ FieldIs(c, n, AtConstraints(s, m), Len(s.constraint_pool))
      /\ FieldIs(c, n, AtForeignKeys(s, m), Len(s.foreign_key_pool))
  BY <1>1, <1>3 DEF FieldIs
<1>5. ASSUME NEW i \in 1..Len(s.columns)
      PROVE  FieldIs(c, n, AtColumns(s) + 1 + off[i - 1] + 1,
                     ToU8(s.columns[i].data_type))
  BY <1>2, <1>3 DEF FieldIs
<1> QED
  BY <1>4, <1>5 DEF Steered, m

\* Of what is there whole, the walk comes where encode wrote.
LEMMA WalkOfWhole ==
    ASSUME NEW s \in DatabaseSchema, NEW off, NEW buf, NEW c,
           IsLayout(off, ColumnFields(s)), LaidOut(buf, s, off),
           c \in Seq(Fields), Len(c) = Len(buf),
           \A q \in SteeringFields(s, off) : c[q] = buf[q]
    PROVE  LET m == off[Len(s.columns)]
           IN  /\ ByNameAt(c) = AtByName(s) /\ ColumnsAt(c) = AtColumns(s)
               /\ \A i \in 0..Len(s.columns) :
                     ColumnStarts(c)[i] = AtColumns(s) + 1 + off[i]
               /\ ColumnNamesAt(c) = AtColumnNames(s, m)
               /\ ConstraintsAt(c) = AtConstraints(s, m)
               /\ ForeignKeysAt(c) = AtForeignKeys(s, m)
               /\ End(c) = AtEnd(s, m) /\ End(c) = Len(c) + 1
<1> DEFINE m == off[Len(s.columns)]
           n == Len(buf)
<1>1. m \in Nat /\ Len(s.columns) \in Nat
      /\ \A i \in 0..Len(s.columns) : off[i] \in Nat
  <2>1. Len(s.columns) \in 0..Len(s.columns)
    BY SchemaTypes
  <2> QED
    BY <2>1, ColumnLayout
<1>2. n \in Nat /\ n + 1 = AtEnd(s, m) /\ DOMAIN c = 1..n
  BY DEF LaidOut
<1> HIDE DEF m, n
<1>3. /\ AtByName(s) \in Nat /\ AtColumns(s) \in Nat
      /\ AtColumnNames(s, m) \in Nat /\ AtConstraints(s, m) \in Nat
      /\ AtForeignKeys(s, m) \in Nat
      /\ 3 < AtByName(s) /\ AtByName(s) < AtColumns(s)
      /\ AtColumns(s) < AtColumnNames(s, m)
      /\ AtColumnNames(s, m) < AtConstraints(s, m)
      /\ AtConstraints(s, m) < AtForeignKeys(s, m)
      /\ AtForeignKeys(s, m) < AtEnd(s, m)
  BY <1>1, PlacesAscend
<1>4. /\ AtByName(s) <= n /\ AtColumns(s) <= n
      /\ AtColumnNames(s, m) <= n /\ AtConstraints(s, m) <= n
      /\ AtForeignKeys(s, m) <= n
  BY <1>2, <1>3
<1>5. ASSUME NEW q \in SteeringFields(s, off), q <= n
      PROVE  Field(c, q) = buf[q]
  <2>1. q \in Nat \ {0}
    <3>1. CASE q \in {TablesAt, AtByName(s), AtColumns(s),
                      AtColumnNames(s, m), AtConstraints(s, m),
                      AtForeignKeys(s, m)}
      BY <1>3, <3>1 DEF TablesAt
    <3>2. ASSUME NEW i \in 1..Len(s.columns),
                 q = AtColumns(s) + 1 + off[i - 1] + 1
          PROVE  q \in Nat \ {0}
      <4>1. off[i - 1] \in Nat
        BY <1>1
      <4> QED
        BY SMTT(30), <1>3, <3>2, <4>1
    <3> QED
      BY <3>1, <3>2 DEF SteeringFields, m
  <2>2. q \in DOMAIN c
    BY <1>2, <1>5, <2>1
  <2> QED
    BY <2>2 DEF Field
<1>6. ASSUME NEW q \in Nat, q > n PROVE Field(c, q) = 0
  <2>1. q \notin DOMAIN c
    BY <1>2, <1>6
  <2> QED
    BY <2>1 DEF Field
<1>7. Walked(c, n, s, off)
  <2>1. Steered(c, n, s, off)
    BY <1>2, <1>5, <1>6, SteeredBy
  <2> QED
    BY <1>2, <2>1, WalkIs
<1>8. /\ ByNameAt(c) = AtByName(s) /\ ColumnsAt(c) = AtColumns(s)
      /\ ColumnNamesAt(c) = AtColumnNames(s, m)
      /\ ConstraintsAt(c) = AtConstraints(s, m)
      /\ ForeignKeysAt(c) = AtForeignKeys(s, m)
      /\ End(c) = AtEnd(s, m)
  BY <1>4, <1>7 DEF Walked, Agrees, m
<1>9. ASSUME NEW i \in 0..Len(s.columns)
      PROVE  ColumnStarts(c)[i] = AtColumns(s) + 1 + off[i]
  <2>1. Agrees(n, AtColumns(s) + 1 + off[i], ColumnStarts(c)[i])
    BY <1>4, <1>7 DEF Walked
  <2>2. off[i] \in Nat /\ off[i] <= m
    <3>1. off[i] \in Nat
      BY <1>1
    <3>2. off[i] <= m
      <4>1. CASE i = Len(s.columns)
        BY <1>1, <4>1 DEF m
      <4>2. CASE i < Len(s.columns)
        <5> DEFINE C == ColumnFields(s)
        <5>1. /\ C \in Seq(Seq(Nat)) /\ Len(C) = Len(s.columns)
              /\ i + 1 \in 1..Len(s.columns) /\ (i + 1) - 1 = i
          BY <1>1, <4>2, SchemaTypes, ColumnFieldsAre
        <5>2. Len(C[i + 1]) = Width(s.columns[i + 1])
          BY <5>1, SchemaTypes, ColumnFieldsAre
        <5>3. 1 \in 1..Len(C[i + 1])
          BY <5>2 DEF Width
        <5> HIDE DEF C
        <5>4. off[(i + 1) - 1] + 1 <= off[Len(C)]
          <6>1. IsLayout(off, C) /\ i + 1 \in 1..Len(C)
            BY <5>1 DEF C
          <6> QED
            BY <5>1, <5>3, <6>1, LayoutAscends
        <5>5. off[i] + 1 <= m
          BY <5>1, <5>4 DEF m
        <5> QED
          BY <1>1, <3>1, <5>5
      <4> QED
        BY <1>1, <4>1, <4>2
    <3> QED
      BY <3>1, <3>2
  <2>3. AtColumns(s) + 1 + off[i] <= n
    <3>1. AtColumnNames(s, m) = AtColumns(s) + 1 + m
      BY DEF AtColumnNames
    <3> QED
      BY <1>1, <1>2, <1>3, <1>4, <2>2, <3>1
  <2> QED
    BY <2>1, <2>3 DEF Agrees
<1> QED
  BY <1>2, <1>8, <1>9 DEF m, n

\* The key of a table is not the number that stands for None.
KeysFit(s) ==
    \A i \in 1..Len(s.tables) : s.tables[i].primary_key # U16 - 1

LEMMA ReadTable ==
    ASSUME NEW t \in TableMeta, t.primary_key # U16 - 1, NEW buf, NEW a,
           a \in Nat,
           \A j \in 1..6 : buf[a + j] = EncodedTable(t)[j]
    PROVE  DecodedTable(buf, a + 1) = t
<1> DEFINE e == EncodedTable(t)
<1>1. /\ e[1] = t.name /\ e[2] = t.columns_start /\ e[3] = t.columns_len
      /\ e[4] = IF t.primary_key = None THEN U16 - 1 ELSE t.primary_key
      /\ e[5] = t.fk_start /\ e[6] = t.fk_len
  BY EncodedTableIs
<1> HIDE DEF e
<1>2. /\ buf[a + 1] = e[1] /\ buf[a + 2] = e[2] /\ buf[a + 3] = e[3]
      /\ buf[a + 4] = e[4] /\ buf[a + 5] = e[5] /\ buf[a + 6] = e[6]
  BY DEF e
<1>3. /\ a + 1 + 1 = a + 2 /\ a + 1 + 2 = a + 3 /\ a + 1 + 3 = a + 4
      /\ a + 1 + 4 = a + 5 /\ a + 1 + 5 = a + 6
  OBVIOUS
<1> DEFINE d == DecodedTable(buf, a + 1)
<1>4. d = [name |-> e[1], columns_start |-> e[2], columns_len |-> e[3],
           primary_key |-> IF e[4] = U16 - 1 THEN None ELSE e[4],
           fk_start |-> e[5], fk_len |-> e[6]]
  BY <1>2, <1>3 DEF DecodedTable
<1> HIDE DEF d
<1>5. (IF e[4] = U16 - 1 THEN None ELSE e[4]) = t.primary_key
  BY <1>1
<1>6. d = [name |-> t.name, columns_start |-> t.columns_start,
           columns_len |-> t.columns_len, primary_key |-> t.primary_key,
           fk_start |-> t.fk_start, fk_len |-> t.fk_len]
  BY <1>1, <1>4, <1>5
<1>7. t = [name |-> t.name, columns_start |-> t.columns_start,
           columns_len |-> t.columns_len, primary_key |-> t.primary_key,
           fk_start |-> t.fk_start, fk_len |-> t.fk_len]
  BY DEF TableMeta
<1> QED
  BY <1>6, <1>7 DEF d

LEMMA ReadForeignKey ==
    ASSUME NEW fk \in ForeignKey, NEW buf, NEW a \in Nat,
           \A j \in 1..6 : buf[a + j] = EncodedForeignKey(fk)[j]
    PROVE  DecodedForeignKey(buf, a + 1) = fk
<1> DEFINE e == EncodedForeignKey(fk)
<1>1. /\ e[1] = fk.constraint_name /\ e[2] = fk.namespace
      /\ e[3] = fk.table /\ e[4] = fk.column
      /\ At(Actions, e[5]) = fk.on_update
      /\ At(Actions, e[6]) = fk.on_delete
  BY EncodedForeignKeyIs
<1> HIDE DEF e
<1>2. /\ buf[a + 1] = e[1] /\ buf[a + 2] = e[2] /\ buf[a + 3] = e[3]
      /\ buf[a + 4] = e[4] /\ buf[a + 5] = e[5] /\ buf[a + 6] = e[6]
  BY DEF e
<1>3. /\ a + 1 + 1 = a + 2 /\ a + 1 + 2 = a + 3 /\ a + 1 + 3 = a + 4
      /\ a + 1 + 4 = a + 5 /\ a + 1 + 5 = a + 6
  OBVIOUS
<1> DEFINE d == DecodedForeignKey(buf, a + 1)
<1>4. d = [constraint_name |-> e[1], namespace |-> e[2], table |-> e[3],
           column |-> e[4], on_update |-> At(Actions, e[5]),
           on_delete |-> At(Actions, e[6])]
  BY <1>2, <1>3 DEF DecodedForeignKey
<1> HIDE DEF d
<1>5. fk = [constraint_name |-> fk.constraint_name,
            namespace |-> fk.namespace, table |-> fk.table,
            column |-> fk.column, on_update |-> fk.on_update,
            on_delete |-> fk.on_delete]
  BY DEF ForeignKey
<1> QED
  BY <1>1, <1>4, <1>5 DEF d

LEMMA TypeOfKind ==
    ASSUME NEW type \in ValueType
    PROVE  type = IF type.kind = "Custom"
                  THEN [kind |-> type.kind, symbol |-> type.symbol]
                  ELSE [kind |-> type.kind]
<1>1. CASE type \in [kind : Range(ValueTypes) \ {"Custom"}]
  <2>1. type.kind # "Custom" /\ type = [kind |-> type.kind]
    BY <1>1
  <2> QED
    BY <2>1
<1>2. CASE type \in [kind : {"Custom"}, symbol : Symbol]
  <2>1. /\ type.kind = "Custom"
        /\ type = [kind |-> type.kind, symbol |-> type.symbol]
    BY <1>2
  <2> QED
    BY <2>1
<1> QED
  BY <1>1, <1>2 DEF ValueType

LEMMA ReadColumn ==
    ASSUME NEW c \in Column, NEW buf, NEW a \in Nat,
           DOMAIN buf \in SUBSET Nat, a + 2 \in DOMAIN buf,
           \A j \in 1..Width(c) : buf[a + j] = EncodedColumn(c)[j]
    PROVE  DecodedColumn(buf, a + 1) = c
<1> DEFINE e == EncodedColumn(c)
           w == Width(c)
<1>1. /\ w \in {8, 9} /\ e[1] = c.name /\ e[2] = ToU8(c.data_type)
      /\ c.data_type.kind = "Custom" => e[3] = c.data_type.symbol
      /\ e[(w - 6) + 1] = IF c.default_value = None THEN 0
                          ELSE c.default_value
      /\ e[(w - 6) + 2] = c.flags
      /\ e[(w - 6) + 3] = c.constraints.start
      /\ e[(w - 6) + 4] = c.constraints.len
      /\ e[(w - 6) + 5] = c.foreign_keys.start
      /\ e[(w - 6) + 6] = c.foreign_keys.len
  BY EncodedColumnIs
<1>2. /\ c.data_type \in ValueType
      /\ c.default_value \in {None} \cup (Nat \ {0})
      /\ c.constraints = PoolRange(c.constraints.start, c.constraints.len)
      /\ c.foreign_keys = PoolRange(c.foreign_keys.start, c.foreign_keys.len)
  BY DEF Column, PoolRanges, PoolRange, Symbol
<1>3. /\ ToU8(c.data_type) = CustomTag <=> c.data_type.kind = "Custom"
      /\ At(ValueTypes, ToU8(c.data_type)) = c.data_type.kind
  BY <1>2, ToU8Is
<1>4. \A j \in 1..w : buf[a + j] = e[j]
  OBVIOUS
<1>5. a + 1 + 1 = a + 2 /\ a + 1 + 2 = a + 3
  OBVIOUS
<1>6. buf[a + 1] = c.name /\ buf[a + 2] = ToU8(c.data_type)
  <2>1. 1 \in 1..w /\ 2 \in 1..w
    BY <1>1
  <2> QED
    BY <1>1, <1>4, <2>1
<1>7. ColumnWidth(buf, a + 1) = w
  <2>1. Field(buf, a + 1 + 1) = ToU8(c.data_type)
    BY <1>5, <1>6 DEF Field
  <2> QED
    BY <1>3, <2>1 DEF ColumnWidth, Width
<1> DEFINE q == a + 1 + w - 6
<1> HIDE DEF e, w
<1>8. /\ buf[q] = e[(w - 6) + 1] /\ buf[q + 1] = e[(w - 6) + 2]
      /\ buf[q + 2] = e[(w - 6) + 3] /\ buf[q + 3] = e[(w - 6) + 4]
      /\ buf[q + 4] = e[(w - 6) + 5] /\ buf[q + 5] = e[(w - 6) + 6]
  <2>1. ASSUME NEW k \in 0..5 PROVE buf[q + k] = e[(w - 6) + (k + 1)]
    <3>1. (w - 6) + (k + 1) \in 1..w /\ a + ((w - 6) + (k + 1)) = q + k
      BY <1>1
    <3> HIDE DEF q
    <3> QED
      BY <1>4, <3>1
  <2>2. q \in Int /\ w \in Int
    BY <1>1
  <2> HIDE DEF q
  <2>3. /\ buf[q + 0] = e[(w - 6) + (0 + 1)]
        /\ buf[q + 1] = e[(w - 6) + (1 + 1)]
        /\ buf[q + 2] = e[(w - 6) + (2 + 1)]
        /\ buf[q + 3] = e[(w - 6) + (3 + 1)]
        /\ buf[q + 4] = e[(w - 6) + (4 + 1)]
        /\ buf[q + 5] = e[(w - 6) + (5 + 1)]
    BY <2>1
  <2> QED
    BY <2>2, <2>3
<1>9. (IF buf[q] = 0 THEN None ELSE buf[q]) = c.default_value
  <2> HIDE DEF q
  <2> QED
    BY <1>1, <1>2, <1>8
<1>10. PoolRange(buf[q + 2], buf[q + 3]) = c.constraints
       /\ PoolRange(buf[q + 4], buf[q + 5]) = c.foreign_keys
       /\ buf[q + 1] = c.flags
  <2> HIDE DEF q
  <2> QED
    BY <1>1, <1>2, <1>8
<1>11. (IF At(ValueTypes, buf[a + 1 + 1]) = "Custom"
        THEN [kind |-> At(ValueTypes, buf[a + 1 + 1]),
              symbol |-> buf[a + 1 + 2]]
        ELSE [kind |-> At(ValueTypes, buf[a + 1 + 1])]) = c.data_type
  <2>1. At(ValueTypes, buf[a + 1 + 1]) = c.data_type.kind
    BY <1>3, <1>5, <1>6
  <2>2. c.data_type.kind = "Custom" => buf[a + 1 + 2] = c.data_type.symbol
    <3>1. SUFFICES ASSUME c.data_type.kind = "Custom"
                   PROVE  buf[a + 1 + 2] = c.data_type.symbol
      OBVIOUS
    <3>2. 3 \in 1..w
      BY <1>1
    <3> QED
      BY <1>1, <1>4, <1>5, <3>1, <3>2
  <2> QED
    BY <1>2, <2>1, <2>2, TypeOfKind
<1>12. a + 1 + ColumnWidth(buf, a + 1) - 6 = q
  BY <1>7
<1> HIDE DEF q
<1>13. DecodedColumn(buf, a + 1) =
         [name |-> c.name, data_type |-> c.data_type,
          default_value |-> c.default_value, flags |-> c.flags,
          constraints |-> c.constraints, foreign_keys |-> c.foreign_keys]
  BY <1>6, <1>9, <1>10, <1>11, <1>12 DEF DecodedColumn
<1>14. c = [name |-> c.name, data_type |-> c.data_type,
            default_value |-> c.default_value, flags |-> c.flags,
            constraints |-> c.constraints, foreign_keys |-> c.foreign_keys]
  BY DEF Column
<1> QED
  BY <1>13, <1>14

-----------------------------------------------------------------------------
(* decode after encode.                                                    *)

LEMMA SameList ==
    ASSUME NEW S, NEW list \in Seq(S), NEW n, NEW f,
           n = Len(list), f = [i \in 1..n |-> f[i]],
           \A i \in 1..Len(list) : f[i] = list[i]
    PROVE  f = list
OBVIOUS

\* What decode reads of each kind of list, at p.
SinglesIn(buf, p) == [i \in 1..buf[p] |-> buf[p + 1 + (i - 1)]]

TablesIn(buf, p) ==
    [i \in 1..buf[p] |-> DecodedTable(buf, p + 1 + 6 * (i - 1))]

ColumnsIn(buf, p, starts) ==
    [i \in 1..buf[p] |-> DecodedColumn(buf, starts[i - 1])]

ForeignKeysIn(buf, p) ==
    [i \in 1..buf[p] |-> DecodedForeignKey(buf, p + 1 + 6 * (i - 1))]

LEMMA ReadSingles ==
    ASSUME NEW list \in Seq(Nat), NEW buf, NEW p \in Nat,
           FixedAt(buf, p, 1, Singles(list))
    PROVE  SinglesIn(buf, p) = list
<1> DEFINE f == SinglesIn(buf, p)
<1>1. /\ Len(Singles(list)) = Len(list) /\ Len(list) \in Nat
      /\ \A i \in 1..Len(list) : Singles(list)[i][1] = list[i]
  BY SinglesAre DEF AreFields
<1>2. buf[p] = Len(list)
  BY <1>1 DEF FixedAt
<1>3. ASSUME NEW i \in 1..Len(list) PROVE buf[p + 1 + (i - 1)] = list[i]
  <2>1. 1 \in 1..1 /\ i \in Nat
    BY <1>1
  <2>2. buf[p + 1 * (i - 1) + 1] = list[i]
    BY <1>1, <2>1 DEF FixedAt
  <2>3. p + 1 * (i - 1) + 1 = p + 1 + (i - 1)
    BY <2>1
  <2> QED
    BY <2>2, <2>3
<1>4. f = [i \in 1..Len(list) |-> buf[p + 1 + (i - 1)]]
  BY <1>2 DEF SinglesIn
<1> HIDE DEF f
<1>5. /\ f = [i \in 1..Len(list) |-> f[i]]
      /\ \A i \in 1..Len(list) : f[i] = list[i]
  BY <1>3, <1>4
<1>6. f = list
  BY <1>5, SameList
<1> QED
  BY <1>6 DEF f

LEMMA ReadTables ==
    ASSUME NEW s \in DatabaseSchema, KeysFit(s), NEW buf,
           FixedAt(buf, TablesAt, 6, TableFields(s))
    PROVE  TablesIn(buf, TablesAt) = s.tables
<1> DEFINE list == s.tables
           Read(i) == DecodedTable(buf, TablesAt + 1 + 6 * i)
           f == TablesIn(buf, TablesAt)
<1>1. /\ list \in Seq(TableMeta) /\ Len(list) \in Nat
      /\ Len(TableFields(s)) = Len(list)
      /\ \A i \in 1..Len(list) :
            /\ list[i] \in TableMeta
            /\ TableFields(s)[i] = EncodedTable(list[i])
  BY SchemaTypes, TableFieldsAre DEF AreFields
<1>2. buf[TablesAt] = Len(list)
  BY <1>1 DEF FixedAt
<1>3. ASSUME NEW i \in 1..Len(list) PROVE Read(i - 1) = list[i]
  <2> DEFINE t == list[i]
             a == TablesAt + 6 * (i - 1)
  <2>1. t \in TableMeta /\ t.primary_key # U16 - 1
    BY <1>1 DEF KeysFit
  <2>2. i \in Nat /\ a \in Nat
    BY <1>1 DEF TablesAt
  <2>3. \A j \in 1..6 : buf[a + j] = EncodedTable(t)[j]
    BY <1>1 DEF FixedAt
  <2>4. TablesAt + 1 + 6 * (i - 1) = a + 1
    BY <2>2 DEF TablesAt
  <2> HIDE DEF t, a
  <2>5. DecodedTable(buf, a + 1) = t
    BY <2>1, <2>2, <2>3, ReadTable
  <2> QED
    BY <2>4, <2>5 DEF t
<1>4. f = [i \in 1..Len(list) |-> Read(i - 1)]
  BY <1>2 DEF TablesIn
<1> HIDE DEF f, Read, list
<1>5. /\ f = [i \in 1..Len(list) |-> f[i]]
      /\ \A i \in 1..Len(list) : f[i] = list[i]
  BY <1>3, <1>4
<1>6. f = list
  BY <1>1, <1>5, SameList
<1> QED
  BY <1>6 DEF f, list, Read

LEMMA ReadForeignKeys ==
    ASSUME NEW s \in DatabaseSchema, NEW buf, NEW p \in Nat,
           FixedAt(buf, p, 6, ForeignKeyFields(s))
    PROVE  ForeignKeysIn(buf, p) = s.foreign_key_pool
<1> DEFINE list == s.foreign_key_pool
           Read(i) == DecodedForeignKey(buf, p + 1 + 6 * i)
           f == ForeignKeysIn(buf, p)
<1>1. /\ list \in Seq(ForeignKey) /\ Len(list) \in Nat
      /\ Len(ForeignKeyFields(s)) = Len(list)
      /\ \A i \in 1..Len(list) :
            /\ list[i] \in ForeignKey
            /\ ForeignKeyFields(s)[i] = EncodedForeignKey(list[i])
  BY SchemaTypes, ForeignKeyFieldsAre DEF AreFields
<1>2. buf[p] = Len(list)
  BY <1>1 DEF FixedAt
<1>3. ASSUME NEW i \in 1..Len(list) PROVE Read(i - 1) = list[i]
  <2> DEFINE fk == list[i]
             a == p + 6 * (i - 1)
  <2>1. fk \in ForeignKey
    BY <1>1
  <2>2. i \in Nat /\ a \in Nat
    BY <1>1
  <2>3. \A j \in 1..6 : buf[a + j] = EncodedForeignKey(fk)[j]
    BY <1>1 DEF FixedAt
  <2>4. p + 1 + 6 * (i - 1) = a + 1
    BY <2>2
  <2> HIDE DEF fk, a
  <2>5. DecodedForeignKey(buf, a + 1) = fk
    BY <2>1, <2>2, <2>3, ReadForeignKey
  <2> QED
    BY <2>4, <2>5 DEF fk
<1>4. f = [i \in 1..Len(list) |-> Read(i - 1)]
  BY <1>2 DEF ForeignKeysIn
<1> HIDE DEF f, Read, list
<1>5. /\ f = [i \in 1..Len(list) |-> f[i]]
      /\ \A i \in 1..Len(list) : f[i] = list[i]
  BY <1>3, <1>4
<1>6. f = list
  BY <1>1, <1>5, SameList
<1> QED
  BY <1>6 DEF f, list, Read

LEMMA ReadColumns ==
    ASSUME NEW s \in DatabaseSchema, NEW off, NEW buf,
           IsLayout(off, ColumnFields(s)), LaidOut(buf, s, off),
           NEW p, buf[p] = Len(s.columns), NEW starts,
           \A i \in 0..Len(s.columns) :
               starts[i] = AtColumns(s) + 1 + off[i]
    PROVE  ColumnsIn(buf, p, starts) = s.columns
<1> DEFINE list == s.columns
           Read(i) == DecodedColumn(buf, starts[i])
           f == ColumnsIn(buf, p, starts)
<1>1. /\ list \in Seq(Column) /\ Len(list) \in Nat
      /\ \A i \in 1..Len(list) : list[i] \in Column
      /\ \A i \in 0..Len(list) : off[i] \in Nat
  BY SchemaTypes, ColumnFieldsAre, ColumnLayout
<1>2. buf[p] = Len(list)
  OBVIOUS
<1>3. ASSUME NEW i \in 1..Len(list) PROVE Read(i - 1) = list[i]
  <2> DEFINE c == list[i]
             o == off[i - 1]
             at == AtColumns(s)
  <2>1. c \in Column
    BY <1>1
  <2>2. o \in Nat /\ at \in Nat
    <3>1. i - 1 \in 0..Len(list)
      BY <1>1
    <3>2. o \in Nat
      BY <1>1, <3>1
    <3> QED
      BY <3>2, PlacesAscend
  <2>3. \A j \in 1..Width(c) : buf[(at + o) + j] = EncodedColumn(c)[j]
    BY ColumnInBuf
  <2>4. starts[i - 1] = at + 1 + o
    <3>1. i - 1 \in 0..Len(list)
      BY <1>1
    <3> QED
      BY <3>1
  <2>5. (at + o) + 2 \in DOMAIN buf
    <3>1. /\ buf \in Seq(Fields) /\ Len(buf) + 1 = AtEnd(s, off[Len(list)])
          /\ ListAt(buf, at, ColumnFields(s), off)
      BY DEF LaidOut
    <3>2. /\ ColumnFields(s) \in Seq(Seq(Nat))
          /\ Len(ColumnFields(s)) = Len(list)
          /\ Len(ColumnFields(s)[i]) = Width(c)
      BY SchemaTypes, ColumnFieldsAre
    <3>3. 2 \in 1..Len(ColumnFields(s)[i]) /\ i \in 1..Len(ColumnFields(s))
      BY <3>2 DEF Width
    <3> DEFINE m == off[Len(list)]
    <3>4. o + 2 <= m
      <4> DEFINE C == ColumnFields(s)
      <4>1. C \in Seq(Seq(Nat)) /\ IsLayout(off, C) /\ i \in 1..Len(C)
            /\ 2 \in 1..Len(C[i]) /\ Len(C) = Len(list)
        BY <3>2, <3>3
      <4> HIDE DEF C
      <4>2. off[i - 1] + 2 <= off[Len(C)]
        BY <4>1, LayoutAscends
      <4> QED
        BY <4>1, <4>2
    <3>5. at + 1 + off[Len(ColumnFields(s))] <= Len(buf) + 1
      BY <3>1 DEF ListAt
    <3>6. at + 1 + m <= Len(buf) + 1
      BY <3>2, <3>5
    <3>7. m \in Nat /\ Len(buf) \in Nat /\ DOMAIN buf = 1..Len(buf)
      BY <1>1, <3>1
    <3> HIDE DEF m, o, at
    <3>8. (at + o) + 2 \in 1..Len(buf)
      BY <2>2, <3>4, <3>6, <3>7
    <3> QED
      BY <3>7, <3>8
  <2>6. DOMAIN buf \in SUBSET Nat
    <3>1. buf \in Seq(Fields)
      BY DEF LaidOut
    <3> QED
      BY <3>1
  <2> HIDE DEF c, o, at
  <2> DEFINE a == at + o
  <2>7. a \in Nat /\ at + 1 + o = a + 1
    BY <2>2
  <2>8. DecodedColumn(buf, a + 1) = c
    <3>1. /\ \A j \in 1..Width(c) : buf[a + j] = EncodedColumn(c)[j]
          /\ a + 2 \in DOMAIN buf
      BY <2>3, <2>5
    <3> HIDE DEF a
    <3> QED
      BY <2>1, <2>6, <2>7, <3>1, ReadColumn
  <2> QED
    BY <2>4, <2>7, <2>8 DEF c
<1>4. f = [i \in 1..Len(list) |-> Read(i - 1)]
  BY <1>2 DEF ColumnsIn
<1> HIDE DEF f, Read, list
<1>5. /\ f = [i \in 1..Len(list) |-> f[i]]
      /\ \A i \in 1..Len(list) : f[i] = list[i]
  BY <1>3, <1>4
<1>6. f = list
  BY <1>1, <1>5, SameList
<1> QED
  BY <1>6 DEF f, list, Read

\* Each column begins at least eight fields behind the one before.
LEMMA OffsetsAscend ==
    ASSUME NEW s \in DatabaseSchema, NEW off, IsLayout(off, ColumnFields(s)),
           NEW i \in 0..Len(s.columns), NEW k \in 0..Len(s.columns), k < i
    PROVE  off[k] + 8 <= off[i]
<1> DEFINE n == Len(s.columns)
           P == {h \in Nat : h <= n =>
                    \A g \in 0..n : g < h => off[g] + 8 <= off[h]}
<1>1. /\ n \in Nat /\ \A h \in 0..n : off[h] \in Nat
      /\ \A h \in 1..n : /\ Width(s.columns[h]) \in {8, 9}
                         /\ off[h] = off[h - 1] + Width(s.columns[h])
  BY ColumnLayout
<1> HIDE DEF n
<1>2. 0 \in P
  BY <1>1
<1>3. ASSUME NEW h \in Nat, h < n, h \in P PROVE h + 1 \in P
  <2>1. h + 1 \in 1..n /\ (h + 1) - 1 = h /\ h \in 0..n /\ h + 1 \in 0..n
    BY <1>1, <1>3
  <2>2. off[h + 1] >= off[h] + 8
    <3>1. /\ off[h + 1] = off[h] + Width(s.columns[h + 1])
          /\ Width(s.columns[h + 1]) \in {8, 9}
      BY <1>1, <2>1
    <3>2. off[h] \in Nat
      BY <1>1, <2>1
    <3> QED
      BY <3>1, <3>2
  <2>3. ASSUME NEW g \in 0..n, g < h + 1 PROVE off[g] + 8 <= off[h + 1]
    <3>1. off[g] \in Nat /\ off[h] \in Nat /\ off[h + 1] \in Nat
      BY <1>1, <2>1
    <3>2. CASE g = h
      BY <2>2, <3>2
    <3>3. CASE g < h
      <4>1. off[g] + 8 <= off[h]
        BY <1>1, <1>3, <3>3
      <4> QED
        BY <2>2, <3>1, <4>1
    <3> QED
      BY <1>1, <2>3, <3>2, <3>3
  <2> QED
    BY <2>3
<1>4. \A h \in 0..n : h \in P
  <2> HIDE DEF P
  <2> QED
    BY <1>1, <1>2, <1>3, UpTo
<1>5. i \in P /\ i \in Nat /\ i <= n /\ k \in 0..n
  BY <1>1, <1>4 DEF n
<1> QED
  BY <1>5

\* A place among the fields that is not one of those that steer the walk.
Harmless(s, off, p) ==
    p \in Nat \ {0} /\ p \notin SteeringFields(s, off)

\* Fields of the lists other than that of the columns.
LEMMA OtherLists ==
    ASSUME NEW s \in DatabaseSchema, NEW off, IsLayout(off, ColumnFields(s)),
           NEW p \in Nat,
           LET m == off[Len(s.columns)]
           IN  \/ 3 < p /\ p < AtByName(s)
               \/ AtColumnNames(s, m) < p /\ p < AtConstraints(s, m)
               \/ AtConstraints(s, m) < p /\ p < AtForeignKeys(s, m)
               \/ AtForeignKeys(s, m) < p /\ p < AtEnd(s, m)
    PROVE  Harmless(s, off, p) /\ p < AtEnd(s, off[Len(s.columns)])
<1> DEFINE m == off[Len(s.columns)]
<1>1. /\ m \in Nat /\ Len(s.columns) \in Nat
      /\ \A i \in 0..Len(s.columns) : off[i] \in Nat
  <2>1. Len(s.columns) \in 0..Len(s.columns)
    BY SchemaTypes
  <2> QED
    BY <2>1, ColumnLayout
<1>2. /\ AtByName(s) \in Nat /\ AtColumns(s) \in Nat
      /\ AtColumnNames(s, m) \in Nat /\ AtConstraints(s, m) \in Nat
      /\ AtForeignKeys(s, m) \in Nat /\ AtEnd(s, m) \in Nat
      /\ 3 < AtByName(s) /\ AtByName(s) < AtColumns(s)
      /\ AtColumns(s) < AtColumnNames(s, m)
      /\ AtColumnNames(s, m) < AtConstraints(s, m)
      /\ AtConstraints(s, m) < AtForeignKeys(s, m)
      /\ AtForeignKeys(s, m) < AtEnd(s, m)
  BY <1>1, PlacesAscend
<1>0. \/ 3 < p /\ p < AtByName(s)
      \/ AtColumnNames(s, m) < p /\ p < AtConstraints(s, m)
      \/ AtConstraints(s, m) < p /\ p < AtForeignKeys(s, m)
      \/ AtForeignKeys(s, m) < p /\ p < AtEnd(s, m)
  OBVIOUS
<1>3. p < AtEnd(s, m) /\ p # 0
      /\ p \notin {TablesAt, AtByName(s), AtColumns(s), AtColumnNames(s, m),
                   AtConstraints(s, m), AtForeignKeys(s, m)}
      /\ (p < AtColumns(s) \/ p > AtColumnNames(s, m))
  <2> HIDE DEF m
  <2> QED
    BY <1>0, <1>2 DEF TablesAt
<1>4. ASSUME NEW i \in 1..Len(s.columns)
      PROVE  p # AtColumns(s) + 1 + off[i - 1] + 1
  <2>1. off[i - 1] + 8 <= m /\ off[i - 1] \in Nat
    <3>1. /\ i - 1 \in 0..Len(s.columns)
          /\ Len(s.columns) \in 0..Len(s.columns)
          /\ i - 1 < Len(s.columns)
      BY <1>1
    <3> QED
      BY <1>1, <3>1, OffsetsAscend
  <2>2. AtColumnNames(s, m) = AtColumns(s) + 1 + m
    BY DEF AtColumnNames
  <2> DEFINE o == off[i - 1]
             at == AtColumns(s)
             next == AtColumnNames(s, m)
  <2>3. /\ o \in Nat /\ o + 8 <= m /\ m \in Nat /\ at \in Nat
        /\ next = at + 1 + m /\ (p < at \/ p > next)
    BY <1>1, <1>2, <1>3, <2>1, <2>2
  <2> HIDE DEF o, at, next, m
  <2>4. p # at + 1 + o + 1
    BY <2>3
  <2> QED
    BY <2>4 DEF o, at
<1> QED
  BY <1>3, <1>4 DEF Harmless, SteeringFields

LEMMA Apart ==
    ASSUME NEW a \in Nat, NEW o \in Nat, NEW h \in Nat, NEW j \in {0, 2},
           o = h \/ h + 8 <= o \/ o + 8 <= h
    PROVE  a + 1 + o + j # a + 1 + h + 1
<1>1. CASE j = 0
  BY <1>1
<1>2. CASE j = 2
  BY <1>2
<1> QED
  BY <1>1, <1>2

\* The name of a column, and the symbol of its type.
LEMMA InColumn ==
    ASSUME NEW s \in DatabaseSchema, NEW off, IsLayout(off, ColumnFields(s)),
           NEW i \in 0..(Len(s.columns) - 1), NEW j \in {0, 2}
    PROVE  /\ Harmless(s, off, AtColumns(s) + 1 + off[i] + j)
           /\ AtColumns(s) + 1 + off[i] + j < AtEnd(s, off[Len(s.columns)])
<1> DEFINE m == off[Len(s.columns)]
           at == AtColumns(s)
           p == at + 1 + off[i] + j
<1>1. /\ m \in Nat /\ Len(s.columns) \in Nat
      /\ \A h \in 0..Len(s.columns) : off[h] \in Nat
  <2>1. Len(s.columns) \in 0..Len(s.columns)
    BY SchemaTypes
  <2> QED
    BY <2>1, ColumnLayout
<1>2. off[i] \in Nat /\ off[i] + 8 <= m
  <2>1. /\ i \in 0..Len(s.columns) /\ Len(s.columns) \in 0..Len(s.columns)
        /\ i < Len(s.columns)
    BY <1>1
  <2> QED
    BY <1>1, <2>1, OffsetsAscend
<1>3. /\ AtByName(s) \in Nat /\ at \in Nat
      /\ AtColumnNames(s, m) \in Nat /\ AtConstraints(s, m) \in Nat
      /\ AtForeignKeys(s, m) \in Nat /\ AtEnd(s, m) \in Nat
      /\ 3 < AtByName(s) /\ AtByName(s) < at
      /\ at < AtColumnNames(s, m)
      /\ AtColumnNames(s, m) < AtConstraints(s, m)
      /\ AtConstraints(s, m) < AtForeignKeys(s, m)
      /\ AtForeignKeys(s, m) < AtEnd(s, m)
  BY <1>1, PlacesAscend
<1>4. AtColumnNames(s, m) = at + 1 + m
  BY DEF AtColumnNames
<1> HIDE DEF m, at
<1>5. p \in Nat /\ at < p /\ p < AtColumnNames(s, m)
  <2> DEFINE o == off[i]
             next == AtColumnNames(s, m)
  <2>1. /\ o \in Nat /\ o + 8 <= m /\ m \in Nat /\ at \in Nat
        /\ next = at + 1 + m /\ p = at + 1 + o + j
    BY <1>1, <1>2, <1>3, <1>4
  <2> HIDE DEF o, next, p
  <2>2. p \in Nat /\ at < p /\ p < next
    BY <2>1
  <2> QED
    BY <2>2 DEF next
<1>6. ASSUME NEW k \in 1..Len(s.columns) PROVE p # at + 1 + off[k - 1] + 1
  <2> DEFINE h == k - 1
  <2>1. h \in 0..Len(s.columns) /\ i \in 0..Len(s.columns)
    BY <1>1
  <2>2. off[h] \in Nat
    BY <1>1, <2>1
  <2> HIDE DEF h
  <2>3. off[i] = off[h] \/ off[h] + 8 <= off[i] \/ off[i] + 8 <= off[h]
    <3>1. CASE h = i
      BY <3>1
    <3>2. CASE h < i
      BY <2>1, <3>2, OffsetsAscend
    <3>3. CASE i < h
      BY <2>1, <3>3, OffsetsAscend
    <3> QED
      BY <1>1, <2>1, <3>1, <3>2, <3>3
  <2>4. at + 1 + off[i] + j # at + 1 + off[h] + 1
    BY <1>2, <1>3, <2>2, <2>3, Apart
  <2> QED
    BY <2>4 DEF h
<1> HIDE DEF p
<1>7. /\ p \notin {TablesAt, AtByName(s), at, AtColumnNames(s, m),
                   AtConstraints(s, m), AtForeignKeys(s, m)}
      /\ p # 0 /\ p < AtEnd(s, m)
  BY <1>3, <1>5 DEF TablesAt
<1>8. Harmless(s, off, p)
  BY <1>5, <1>6, <1>7 DEF Harmless, SteeringFields, m, at
<1> QED
  BY <1>7, <1>8 DEF p, m, at

\* The first fields of n elements of w fields, of the list at p.
Firsts(p, w, n) == {p + 1 + w * i : i \in 0..(n - 1)}

SymbolPlaces(s, off) ==
    LET m == off[Len(s.columns)]
        fks == Firsts(AtForeignKeys(s, m), 6, Len(s.foreign_key_pool))
        last == Len(s.columns) - 1
    IN  Firsts(TablesAt, 6, Len(s.tables))
        \cup {AtColumns(s) + 1 + off[i] : i \in 0..last}
        \cup {AtColumns(s) + 1 + off[i] + 2 : i \in
                 {k \in 0..last : s.columns[k + 1].data_type.kind = "Custom"}}
        \cup Firsts(AtColumnNames(s, m), 1, Len(s.column_names))
        \cup Firsts(AtConstraints(s, m), 1, Len(s.constraint_pool))
        \cup fks
        \cup {p + 1 : p \in fks}

TagPlaces(s, off) ==
    {AtColumns(s) + 1 + off[i] + 1 : i \in 0..(Len(s.columns) - 1)}

LEMMA SteeringValues ==
    ASSUME NEW s \in DatabaseSchema, NEW off, NEW buf,
           IsLayout(off, ColumnFields(s)), LaidOut(buf, s, off)
    PROVE  LET m == off[Len(s.columns)]
           IN  /\ buf[TablesAt] = Len(s.tables)
               /\ buf[AtByName(s)] = Len(s.by_name)
               /\ buf[AtColumns(s)] = Len(s.columns)
               /\ buf[AtColumnNames(s, m)] = Len(s.column_names)
               /\ buf[AtConstraints(s, m)] = Len(s.constraint_pool)
               /\ buf[AtForeignKeys(s, m)] = Len(s.foreign_key_pool)
               /\ \A i \in 0..(Len(s.columns) - 1) :
                     /\ s.columns[i + 1] \in Column
                     /\ AtColumns(s) + 1 + off[i] + 1
                           \in SteeringFields(s, off)
                     /\ buf[AtColumns(s) + 1 + off[i] + 1]
                           = ToU8(s.columns[i + 1].data_type)
<1> DEFINE m == off[Len(s.columns)]
<1>1. /\ buf[TablesAt] = Len(s.tables)
      /\ buf[AtByName(s)] = Len(s.by_name)
      /\ buf[AtColumns(s)] = Len(s.columns)
      /\ buf[AtColumnNames(s, m)] = Len(s.column_names)
      /\ buf[AtConstraints(s, m)] = Len(s.constraint_pool)
      /\ buf[AtForeignKeys(s, m)] = Len(s.foreign_key_pool)
  BY LengthsAre DEF LaidOut, FixedAt, ListAt
<1>2. ASSUME NEW i \in 0..(Len(s.columns) - 1)
      PROVE  /\ s.columns[i + 1] \in Column
             /\ AtColumns(s) + 1 + off[i] + 1 \in SteeringFields(s, off)
             /\ buf[AtColumns(s) + 1 + off[i] + 1]
                   = ToU8(s.columns[i + 1].data_type)
  <2> DEFINE c == s.columns[i + 1]
  <2>1. /\ i + 1 \in 1..Len(s.columns) /\ (i + 1) - 1 = i
        /\ i \in 0..Len(s.columns)
    BY SchemaTypes
  <2>2. c \in Column
    BY <2>1, SchemaTypes, ColumnFieldsAre
  <2>3. off[i] \in Nat
    BY <2>1, ColumnLayout
  <2>4. AtColumns(s) + 1 + off[(i + 1) - 1] + 1 \in SteeringFields(s, off)
    BY <2>1 DEF SteeringFields
  <2>5. 2 \in 1..Width(c) /\ EncodedColumn(c)[2] = ToU8(c.data_type)
    BY <2>2, EncodedColumnIs DEF Width
  <2>6. buf[AtColumns(s) + off[(i + 1) - 1] + 2] = ToU8(c.data_type)
    BY <2>1, <2>5, ColumnInBuf
  <2>7. AtColumns(s) + 1 + off[i] + 1 = AtColumns(s) + off[i] + 2
    <3> DEFINE o == off[i]
               a == AtColumns(s)
    <3>1. o \in Nat /\ a \in Nat
      BY <2>3, PlacesAscend
    <3> HIDE DEF o, a
    <3>2. a + 1 + o + 1 = a + o + 2
      BY <3>1
    <3> QED
      BY <3>2 DEF o, a
  <2> QED
    BY <2>1, <2>2, <2>4, <2>6, <2>7
<1> QED
  BY <1>1, <1>2

LEMMA SymbolFieldsAre ==
    ASSUME NEW s \in DatabaseSchema, NEW off, NEW buf, NEW c,
           IsLayout(off, ColumnFields(s)), LaidOut(buf, s, off),
           c \in Seq(Fields), Len(c) = Len(buf),
           \A q \in SteeringFields(s, off) : c[q] = buf[q]
    PROVE  /\ SymbolFields(c) = SymbolPlaces(s, off)
           /\ TagFields(c) = TagPlaces(s, off)
<1> DEFINE m == off[Len(s.columns)]
           last == Len(s.columns) - 1
           at == AtColumns(s)
<1>1. /\ ByNameAt(c) = AtByName(s) /\ ColumnsAt(c) = at
      /\ \A i \in 0..Len(s.columns) : ColumnStarts(c)[i] = at + 1 + off[i]
      /\ ColumnNamesAt(c) = AtColumnNames(s, m)
      /\ ConstraintsAt(c) = AtConstraints(s, m)
      /\ ForeignKeysAt(c) = AtForeignKeys(s, m)
  BY WalkOfWhole
<1>2. /\ c[TablesAt] = Len(s.tables) /\ c[at] = Len(s.columns)
      /\ c[AtColumnNames(s, m)] = Len(s.column_names)
      /\ c[AtConstraints(s, m)] = Len(s.constraint_pool)
      /\ c[AtForeignKeys(s, m)] = Len(s.foreign_key_pool)
  <2>1. /\ TablesAt \in SteeringFields(s, off)
        /\ at \in SteeringFields(s, off)
        /\ AtColumnNames(s, m) \in SteeringFields(s, off)
        /\ AtConstraints(s, m) \in SteeringFields(s, off)
        /\ AtForeignKeys(s, m) \in SteeringFields(s, off)
    BY DEF SteeringFields
  <2> QED
    BY SMTT(30), <2>1, SteeringValues
<1>3. ASSUME NEW i \in 0..last
      PROVE  /\ ColumnStarts(c)[i] = at + 1 + off[i]
             /\ c[at + 1 + off[i] + 1] = CustomTag
                   <=> s.columns[i + 1].data_type.kind = "Custom"
  <2>1. i \in 0..Len(s.columns)
    BY SchemaTypes
  <2>2. /\ s.columns[i + 1] \in Column
        /\ c[at + 1 + off[i] + 1] = ToU8(s.columns[i + 1].data_type)
    BY SteeringValues
  <2>3. s.columns[i + 1].data_type \in ValueType
    BY <2>2 DEF Column
  <2> QED
    BY <1>1, <2>1, <2>2, <2>3, ToU8Is
<1> DEFINE columns == {ColumnStarts(c)[i] : i \in 0..last}
           begins == {at + 1 + off[i] : i \in 0..last}
           customs == {p + 2 : p \in {q \in columns : c[q + 1] = CustomTag}}
           symbols == {at + 1 + off[i] + 2 : i \in
               {k \in 0..last : s.columns[k + 1].data_type.kind = "Custom"}}
<1>4. columns = begins
  BY <1>3
<1>5. customs = symbols
  <2>1. ASSUME NEW p \in customs PROVE p \in symbols
    <3>1. PICK i \in 0..last : /\ c[ColumnStarts(c)[i] + 1] = CustomTag
                               /\ p = ColumnStarts(c)[i] + 2
      OBVIOUS
    <3> QED
      BY <1>3, <3>1
  <2>2. ASSUME NEW p \in symbols PROVE p \in customs
    <3>1. PICK i \in 0..last :
             /\ s.columns[i + 1].data_type.kind = "Custom"
             /\ p = at + 1 + off[i] + 2
      OBVIOUS
    <3> QED
      BY <1>3, <3>1
  <2> QED
    BY <2>1, <2>2
<1>6. SymbolFields(c) =
        Firsts(TablesAt, 6, Len(s.tables)) \cup columns \cup customs
        \cup Firsts(AtColumnNames(s, m), 1, Len(s.column_names))
        \cup Firsts(AtConstraints(s, m), 1, Len(s.constraint_pool))
        \cup Firsts(AtForeignKeys(s, m), 6, Len(s.foreign_key_pool))
        \cup {p + 1 : p \in Firsts(AtForeignKeys(s, m), 6,
                                   Len(s.foreign_key_pool))}
  <2> HIDE DEF m, at
  <2> QED
    BY <1>1, <1>2 DEF SymbolFields, Firsts
<1>7. TagFields(c) = {ColumnStarts(c)[i] + 1 : i \in 0..last}
  BY <1>1, <1>2 DEF TagFields
<1>8. TagFields(c) = TagPlaces(s, off)
  BY <1>3, <1>7 DEF TagPlaces
<1> HIDE DEF columns, customs
<1> QED
  BY <1>4, <1>5, <1>6, <1>8 DEF SymbolPlaces

\* In an encoded schema no symbol is 0, and none of them steers the walk.
GoodPlace(buf, s, off, p) ==
    Harmless(s, off, p) /\ p \in 1..Len(buf) /\ buf[p] # 0

ElementAt(buf, seqs, n, w, p, x) ==
    \E i \in 1..n : /\ x = p + w * (i - 1) + 1
                    /\ \A j \in 1..w : buf[x + (j - 1)] = seqs[i][j]

LEMMA FirstsOfList ==
    ASSUME NEW seqs, NEW w \in Nat, w >= 1, NEW n \in Nat, AreFields(seqs, n, w),
           NEW buf, NEW p \in Nat, FixedAt(buf, p, w, seqs),
           NEW x \in Firsts(p, w, n)
    PROVE  ElementAt(buf, seqs, n, w, p, x)
<1>1. PICK k \in 0..(n - 1) : x = p + 1 + w * k
  BY DEF Firsts
<1> DEFINE i == k + 1
<1>2. i \in 1..n /\ i - 1 = k /\ k \in Nat
  OBVIOUS
<1>3. w * k \in Nat
  BY <1>2
<1>4. x = p + w * (i - 1) + 1
  BY <1>1, <1>2, <1>3
<1>5. ASSUME NEW j \in 1..w PROVE buf[x + (j - 1)] = seqs[i][j]
  <2>1. buf[p + w * (i - 1) + j] = seqs[i][j]
    BY <1>2 DEF FixedAt, AreFields
  <2>2. x + (j - 1) = p + w * (i - 1) + j
    <3> DEFINE u == w * k
    <3>1. u \in Nat /\ x = p + 1 + u /\ j \in Nat
      BY <1>1, <1>3
    <3> HIDE DEF u
    <3>2. x + (j - 1) = p + u + j
      BY <3>1
    <3> QED
      BY <1>2, <3>2 DEF u
  <2> QED
    BY <2>1, <2>2
<1> HIDE DEF i
<1> QED
  BY <1>2, <1>4, <1>5 DEF ElementAt

LEMMA SymbolsAreGood ==
    ASSUME NEW s \in DatabaseSchema, NEW off, NEW buf,
           IsLayout(off, ColumnFields(s)), LaidOut(buf, s, off),
           NEW p \in SymbolPlaces(s, off)
    PROVE  GoodPlace(buf, s, off, p)
<1> DEFINE m == off[Len(s.columns)]
           at == AtColumns(s)
<1>1. /\ m \in Nat /\ Len(s.columns) \in Nat
      /\ \A h \in 0..Len(s.columns) : off[h] \in Nat
  <2>1. Len(s.columns) \in 0..Len(s.columns)
    BY SchemaTypes
  <2> QED
    BY <2>1, ColumnLayout
<1>2. /\ AtByName(s) \in Nat /\ at \in Nat
      /\ AtColumnNames(s, m) \in Nat /\ AtConstraints(s, m) \in Nat
      /\ AtForeignKeys(s, m) \in Nat /\ AtEnd(s, m) \in Nat
      /\ 3 < AtByName(s) /\ AtByName(s) < at
      /\ at < AtColumnNames(s, m)
      /\ AtColumnNames(s, m) < AtConstraints(s, m)
      /\ AtConstraints(s, m) < AtForeignKeys(s, m)
      /\ AtForeignKeys(s, m) < AtEnd(s, m)
  BY <1>1, PlacesAscend
<1>3. Len(buf) \in Nat /\ Len(buf) + 1 = AtEnd(s, m)
  BY DEF LaidOut
<1>4. ASSUME NEW x, Harmless(s, off, x), x < AtEnd(s, m), buf[x] \in Symbol
      PROVE  GoodPlace(buf, s, off, x)
  <2>1. x \in 1..Len(buf)
    <3>1. x \in Nat \ {0}
      BY <1>4 DEF Harmless
    <3> HIDE DEF m
    <3> QED
      BY <1>2, <1>3, <1>4, <3>1
  <2> QED
    BY <1>4, <2>1 DEF GoodPlace, Symbol
<1>5. /\ FixedAt(buf, TablesAt, 6, TableFields(s))
      /\ FixedAt(buf, AtColumnNames(s, m), 1, Singles(s.column_names))
      /\ FixedAt(buf, AtConstraints(s, m), 1, Singles(s.constraint_pool))
      /\ FixedAt(buf, AtForeignKeys(s, m), 6, ForeignKeyFields(s))
  BY DEF LaidOut
<1>6. ASSUME NEW x \in Firsts(TablesAt, 6, Len(s.tables))
      PROVE  GoodPlace(buf, s, off, x)
  <2>1. AreFields(TableFields(s), Len(s.tables), 6) /\ Len(s.tables) \in Nat
    BY SchemaTypes, TableFieldsAre
  <2>2. PICK i \in 1..Len(s.tables) :
           /\ x = TablesAt + 6 * (i - 1) + 1
           /\ \A j \in 1..6 : buf[x + (j - 1)] = TableFields(s)[i][j]
    <3> DEFINE seqs == TableFields(s)
               n == Len(s.tables)
               a == TablesAt
    <3>1. /\ a \in Nat /\ n \in Nat /\ AreFields(seqs, n, 6)
          /\ FixedAt(buf, a, 6, seqs) /\ x \in Firsts(a, 6, n)
      BY <1>5, <2>1 DEF TablesAt
    <3> HIDE DEF seqs, n, a
    <3>2. ElementAt(buf, seqs, n, 6, a, x)
      BY <3>1, FirstsOfList
    <3> QED
      BY <3>2 DEF ElementAt, seqs, n, a
  <2>3. s.tables[i] \in TableMeta
        /\ TableFields(s)[i] = EncodedTable(s.tables[i])
    BY SchemaTypes, TableFieldsAre
  <2>4. TableFields(s)[i][1] \in Symbol
    BY <2>3, EncodedTableIs DEF TableMeta
  <2>5. x \in Nat /\ 3 < x /\ x < AtByName(s)
    BY <2>1, <2>2 DEF AtByName, TablesAt
  <2>6. buf[x + (1 - 1)] = TableFields(s)[i][1] /\ x + (1 - 1) = x
    BY <2>2, <2>5
  <2>7. Harmless(s, off, x) /\ x < AtEnd(s, m)
    BY <2>5, OtherLists
  <2> QED
    BY <1>4, <2>4, <2>6, <2>7
<1>7. ASSUME NEW i \in 0..(Len(s.columns) - 1)
      PROVE  /\ GoodPlace(buf, s, off, at + 1 + off[i])
             /\ s.columns[i + 1].data_type.kind = "Custom" =>
                   GoodPlace(buf, s, off, at + 1 + off[i] + 2)
  <2> DEFINE c == s.columns[i + 1]
             o == off[i]
  <2>1. /\ i + 1 \in 1..Len(s.columns) /\ (i + 1) - 1 = i
        /\ i \in 0..Len(s.columns)
    BY <1>1
  <2>2. c \in Column /\ o \in Nat
    BY <1>1, <2>1, SchemaTypes, ColumnFieldsAre
  <2>3. /\ EncodedColumn(c)[1] = c.name /\ c.name \in Symbol
        /\ Width(c) \in {8, 9}
        /\ c.data_type.kind = "Custom" =>
              /\ EncodedColumn(c)[3] = c.data_type.symbol
              /\ c.data_type.symbol \in Symbol
    <3>1. c.data_type \in ValueType /\ c.name \in Symbol
      BY <2>2 DEF Column
    <3> HIDE DEF c
    <3> QED
      BY <2>2, <3>1, EncodedColumnIs, ToU8Is
  <2>4. \A j \in 1..Width(c) : buf[at + o + j] = EncodedColumn(c)[j]
    BY <2>1, ColumnInBuf
  <2>5. /\ buf[at + o + 1] \in Symbol
        /\ c.data_type.kind = "Custom" => buf[at + o + 3] \in Symbol
    <3>1. 1 \in 1..Width(c) /\ 3 \in 1..Width(c)
      BY <2>3
    <3> QED
      BY <2>3, <2>4, <3>1
  <2>6. /\ Harmless(s, off, at + 1 + o + 0) /\ at + 1 + o + 0 < AtEnd(s, m)
        /\ Harmless(s, off, at + 1 + o + 2) /\ at + 1 + o + 2 < AtEnd(s, m)
    BY InColumn
  <2> DEFINE x == at + 1 + o
             y == at + 1 + o + 2
  <2>7. /\ at + o + 1 = x /\ at + 1 + o + 0 = x
        /\ at + o + 3 = y /\ at + 1 + o + 2 = y
    <3> HIDE DEF o, at
    <3> QED
      BY <1>2, <2>2
  <2> HIDE DEF x, y, c, o, at, m
  <2>8. GoodPlace(buf, s, off, x)
    <3>1. Harmless(s, off, x) /\ x < AtEnd(s, m) /\ buf[x] \in Symbol
      BY <2>5, <2>6, <2>7
    <3> HIDE DEF x, m
    <3> QED
      BY <1>4, <3>1
  <2>9. ASSUME c.data_type.kind = "Custom" PROVE GoodPlace(buf, s, off, y)
    <3>1. Harmless(s, off, y) /\ y < AtEnd(s, m) /\ buf[y] \in Symbol
      BY <2>5, <2>6, <2>7, <2>9
    <3> HIDE DEF y, m
    <3> QED
      BY <1>4, <3>1
  <2> QED
    BY <2>8, <2>9 DEF x, y, c, o, at, m
<1>8. ASSUME NEW list \in Seq(Symbol), list \in Seq(Nat), NEW a \in Nat,
             FixedAt(buf, a, 1, Singles(list)),
             NEW x \in Firsts(a, 1, Len(list))
      PROVE  x \in Nat /\ a < x /\ x < a + 1 + Len(list) /\ buf[x] \in Symbol
  <2>1. AreFields(Singles(list), Len(list), 1) /\ Len(list) \in Nat
        /\ \A i \in 1..Len(list) : Singles(list)[i][1] = list[i]
    BY <1>8, SinglesAre
  <2>2. PICK i \in 1..Len(list) :
           /\ x = a + 1 * (i - 1) + 1
           /\ \A j \in 1..1 : buf[x + (j - 1)] = Singles(list)[i][j]
    <3>1. ElementAt(buf, Singles(list), Len(list), 1, a, x)
      BY <1>8, <2>1, FirstsOfList
    <3> QED
      BY <3>1 DEF ElementAt
  <2>3. x \in Nat /\ a < x /\ x < a + 1 + Len(list)
    BY <2>1, <2>2
  <2>4. x + (1 - 1) = x /\ list[i] \in Symbol
    BY <2>3
  <2> QED
    BY <2>1, <2>2, <2>3, <2>4
<1>9. ASSUME NEW x \in Firsts(AtColumnNames(s, m), 1, Len(s.column_names))
      PROVE  GoodPlace(buf, s, off, x)
  <2>1. /\ x \in Nat /\ AtColumnNames(s, m) < x /\ buf[x] \in Symbol
        /\ x < AtColumnNames(s, m) + 1 + Len(s.column_names)
    BY <1>2, <1>5, <1>8, SchemaTypes
  <2>2. Harmless(s, off, x) /\ x < AtEnd(s, m)
    BY <2>1, OtherLists DEF AtConstraints
  <2> QED
    BY <1>4, <2>1, <2>2
<1>10. ASSUME NEW x \in Firsts(AtConstraints(s, m), 1, Len(s.constraint_pool))
      PROVE  GoodPlace(buf, s, off, x)
  <2>1. /\ x \in Nat /\ AtConstraints(s, m) < x /\ buf[x] \in Symbol
        /\ x < AtConstraints(s, m) + 1 + Len(s.constraint_pool)
    BY <1>2, <1>5, <1>8, SchemaTypes
  <2>2. Harmless(s, off, x) /\ x < AtEnd(s, m)
    BY <2>1, OtherLists DEF AtForeignKeys
  <2> QED
    BY <1>4, <2>1, <2>2
<1>11. ASSUME NEW x \in Firsts(AtForeignKeys(s, m), 6,
                               Len(s.foreign_key_pool))
       PROVE  GoodPlace(buf, s, off, x) /\ GoodPlace(buf, s, off, x + 1)
  <2> DEFINE a == AtForeignKeys(s, m)
             n == Len(s.foreign_key_pool)
  <2>1. AreFields(ForeignKeyFields(s), n, 6) /\ n \in Nat
    BY SchemaTypes, ForeignKeyFieldsAre
  <2>2. PICK i \in 1..n :
           /\ x = a + 6 * (i - 1) + 1
           /\ \A j \in 1..6 : buf[x + (j - 1)] = ForeignKeyFields(s)[i][j]
    <3> DEFINE seqs == ForeignKeyFields(s)
    <3>1. /\ a \in Nat /\ n \in Nat /\ AreFields(seqs, n, 6)
          /\ FixedAt(buf, a, 6, seqs) /\ x \in Firsts(a, 6, n)
      BY <1>2, <1>5, <2>1
    <3>2. 6 \in Nat /\ 6 >= 1
      OBVIOUS
    <3> HIDE DEF seqs, n, a
    <3>3. ElementAt(buf, seqs, n, 6, a, x)
      BY <3>1, <3>2, FirstsOfList
    <3> QED
      BY <3>3 DEF ElementAt, seqs
  <2>3. s.foreign_key_pool[i] \in ForeignKey
        /\ ForeignKeyFields(s)[i] = EncodedForeignKey(s.foreign_key_pool[i])
    BY SchemaTypes, ForeignKeyFieldsAre
  <2>4. /\ ForeignKeyFields(s)[i][1] \in Symbol
        /\ ForeignKeyFields(s)[i][2] \in Symbol
    BY <2>3, EncodedForeignKeyIs DEF ForeignKey
  <2>5. AtEnd(s, m) = a + 1 + 6 * n
    BY DEF AtEnd
  <2> HIDE DEF a, n
  <2>6. /\ x \in Nat /\ x + 1 \in Nat /\ a < x /\ a < x + 1
        /\ x + 1 < a + 1 + 6 * n /\ x < a + 1 + 6 * n
        /\ x + (1 - 1) = x /\ x + (2 - 1) = x + 1
    <3>1. a \in Nat /\ n \in Nat /\ x = a + 6 * (i - 1) + 1
      BY <1>2, <2>1, <2>2 DEF a
    <3>2. x \in Nat /\ a < x /\ x < a + 6 * n
      BY <3>1
    <3> QED
      BY <3>1, <3>2
  <2>7. buf[x] \in Symbol /\ buf[x + 1] \in Symbol
    <3>1. 1 \in 1..6 /\ 2 \in 1..6
      OBVIOUS
    <3>2. /\ buf[x + (1 - 1)] = ForeignKeyFields(s)[i][1]
          /\ buf[x + (2 - 1)] = ForeignKeyFields(s)[i][2]
      BY <2>2, <3>1
    <3> QED
      BY <2>4, <2>6, <3>2
  <2>8. /\ Harmless(s, off, x) /\ x < AtEnd(s, m)
        /\ Harmless(s, off, x + 1) /\ x + 1 < AtEnd(s, m)
    BY <2>5, <2>6, OtherLists DEF a
  <2> QED
    BY <1>4, <2>7, <2>8
<1> QED
  BY <1>6, <1>7, <1>9, <1>10, <1>11 DEF SymbolPlaces

LEMMA SteeringFieldsAreNumbers ==
    ASSUME NEW s \in DatabaseSchema, NEW off, IsLayout(off, ColumnFields(s)),
           NEW q \in SteeringFields(s, off)
    PROVE  q \in Nat \ {0}
<1> DEFINE m == off[Len(s.columns)]
<1>1. /\ m \in Nat /\ Len(s.columns) \in Nat
      /\ \A i \in 0..Len(s.columns) : off[i] \in Nat
  <2>1. Len(s.columns) \in 0..Len(s.columns)
    BY SchemaTypes
  <2> QED
    BY <2>1, ColumnLayout
<1>2. /\ AtByName(s) \in Nat \ {0} /\ AtColumns(s) \in Nat \ {0}
      /\ AtColumnNames(s, m) \in Nat \ {0}
      /\ AtConstraints(s, m) \in Nat \ {0}
      /\ AtForeignKeys(s, m) \in Nat \ {0}
  <2> HIDE DEF m
  <2>1. /\ AtByName(s) \in Nat /\ AtColumns(s) \in Nat
        /\ AtColumnNames(s, m) \in Nat /\ AtConstraints(s, m) \in Nat
        /\ AtForeignKeys(s, m) \in Nat
        /\ 3 < AtByName(s) /\ AtByName(s) < AtColumns(s)
        /\ AtColumns(s) < AtColumnNames(s, m)
        /\ AtColumnNames(s, m) < AtConstraints(s, m)
        /\ AtConstraints(s, m) < AtForeignKeys(s, m)
    BY <1>1, PlacesAscend
  <2> QED
    BY <2>1
<1>3. ASSUME NEW i \in 1..Len(s.columns)
      PROVE  AtColumns(s) + 1 + off[i - 1] + 1 \in Nat \ {0}
  <2>1. off[i - 1] \in Nat
    BY <1>1
  <2> QED
    BY SMTT(30), <1>2, <2>1
<1> QED
  BY <1>2, <1>3 DEF SteeringFields, TablesAt

\* decode and decode_unchecked give back what encode wrote, as long as no
\* table has the number of a key that stands for None.
THEOREM DecodeInverts ==
    ASSUME NEW s \in DatabaseSchema, KeysFit(s)
    PROVE  Decode(Encode(s)) = s /\ DecodeUnchecked(Encode(s)) = s
<1> DEFINE buf == Encode(s)
<1>1. PICK off : IsLayout(off, ColumnFields(s)) /\ LaidOut(buf, s, off)
  BY EncodeIs
<1> DEFINE m == off[Len(s.columns)]
<1> HIDE DEF buf
<1>2. buf \in Seq(Fields)
  BY <1>1 DEF LaidOut
<1>3. /\ ByNameAt(buf) = AtByName(s) /\ ColumnsAt(buf) = AtColumns(s)
      /\ \A i \in 0..Len(s.columns) :
            ColumnStarts(buf)[i] = AtColumns(s) + 1 + off[i]
      /\ ColumnNamesAt(buf) = AtColumnNames(s, m)
      /\ ConstraintsAt(buf) = AtConstraints(s, m)
      /\ ForeignKeysAt(buf) = AtForeignKeys(s, m)
      /\ End(buf) = Len(buf) + 1
  BY <1>1, <1>2, WalkOfWhole
<1>4. /\ SymbolFields(buf) = SymbolPlaces(s, off)
      /\ TagFields(buf) = TagPlaces(s, off)
  BY <1>1, <1>2, SymbolFieldsAre
<1>5. \A p \in SymbolFields(buf) : buf[p] # 0
  BY <1>1, <1>4, SymbolsAreGood DEF GoodPlace
<1>6. ASSUME NEW p \in TagFields(buf) PROVE buf[p] \in Indices(ValueTypes)
  <2>1. PICK i \in 0..(Len(s.columns) - 1) : p = AtColumns(s) + 1 + off[i] + 1
    BY <1>4 DEF TagPlaces
  <2>2. /\ s.columns[i + 1] \in Column
        /\ buf[p] = ToU8(s.columns[i + 1].data_type)
    BY <1>1, <2>1, SteeringValues
  <2>3. s.columns[i + 1].data_type \in ValueType
    BY <2>2 DEF Column
  <2> QED
    BY <2>2, <2>3, ToU8Is
<1>7. DecodeUnchecked(buf) = s
  <2>1. m \in Nat
    <3>1. Len(s.columns) \in 0..Len(s.columns)
      BY SchemaTypes
    <3> QED
      BY <1>1, <3>1, ColumnLayout
  <2>2. /\ AtByName(s) \in Nat /\ AtColumnNames(s, m) \in Nat
        /\ AtConstraints(s, m) \in Nat /\ AtForeignKeys(s, m) \in Nat
    BY <2>1, PlacesAscend
  <2>3. /\ buf[1] = s.hash /\ buf[2] = s.interner
        /\ FixedAt(buf, TablesAt, 6, TableFields(s))
        /\ FixedAt(buf, AtByName(s), 1, Singles(s.by_name))
        /\ FixedAt(buf, AtColumnNames(s, m), 1, Singles(s.column_names))
        /\ FixedAt(buf, AtConstraints(s, m), 1, Singles(s.constraint_pool))
        /\ FixedAt(buf, AtForeignKeys(s, m), 6, ForeignKeyFields(s))
    BY <1>1 DEF LaidOut
  <2> HIDE DEF m
  <2> DEFINE a1 == TablesIn(buf, TablesAt)
             a2 == SinglesIn(buf, ByNameAt(buf))
             a3 == ColumnsIn(buf, ColumnsAt(buf), ColumnStarts(buf))
             a4 == SinglesIn(buf, ColumnNamesAt(buf))
             a5 == SinglesIn(buf, ConstraintsAt(buf))
             a6 == ForeignKeysIn(buf, ForeignKeysAt(buf))
  <2>4. a1 = s.tables
    BY <2>3, ReadTables
  <2>5. a2 = s.by_name
    BY <1>3, <2>2, <2>3, SchemaTypes, ReadSingles
  <2>6. a3 = s.columns
    <3>1. buf[ColumnsAt(buf)] = Len(s.columns)
      BY <1>1, <1>3, SteeringValues
    <3> QED
      BY <1>1, <1>3, <3>1, ReadColumns
  <2>7. a4 = s.column_names
    BY <1>3, <2>2, <2>3, SchemaTypes, ReadSingles
  <2>8. a5 = s.constraint_pool
    BY <1>3, <2>2, <2>3, SchemaTypes, ReadSingles
  <2>9. a6 = s.foreign_key_pool
    BY <1>3, <2>2, <2>3, ReadForeignKeys
  <2>10. DecodeUnchecked(buf) =
            [hash |-> buf[1], interner |-> buf[2], tables |-> a1,
             by_name |-> a2, columns |-> a3, column_names |-> a4,
             constraint_pool |-> a5, foreign_key_pool |-> a6]
    BY DEF DecodeUnchecked, DecodedList, TablesIn, SinglesIn, ColumnsIn,
           ForeignKeysIn
  <2> HIDE DEF a1, a2, a3, a4, a5, a6
  <2>11. s = [hash |-> s.hash, interner |-> s.interner, tables |-> s.tables,
              by_name |-> s.by_name, columns |-> s.columns,
              column_names |-> s.column_names,
              constraint_pool |-> s.constraint_pool,
              foreign_key_pool |-> s.foreign_key_pool]
    BY DEF DatabaseSchema
  <2> QED
    BY <2>3, <2>4, <2>5, <2>6, <2>7, <2>8, <2>9, <2>10, <2>11
<1>8. End(buf) <= Len(buf) + 1
  BY <1>2, <1>3
<1>9. Decode(buf) = DecodeUnchecked(buf)
  BY <1>5, <1>6, <1>8 DEF Decode
<1> QED
  BY <1>7, <1>9 DEF buf

-----------------------------------------------------------------------------
(* decode of what is damaged.                                              *)

\* decode refuses what is cut short anywhere.
THEOREM CutsAreRefused ==
    ASSUME NEW s \in DatabaseSchema, NEW n \in 0..(Len(Encode(s)) - 1)
    PROVE  Decode(SubSeq(Encode(s), 1, n)) = None
<1> DEFINE buf == Encode(s)
           c == SubSeq(buf, 1, n)
<1>1. PICK off : IsLayout(off, ColumnFields(s)) /\ LaidOut(buf, s, off)
  BY EncodeIs
<1> DEFINE m == off[Len(s.columns)]
<1>2. /\ buf \in Seq(Fields) /\ Len(buf) \in Nat
      /\ Len(buf) + 1 = AtEnd(s, m) /\ n \in Nat /\ n < Len(buf)
  <2>1. buf \in Seq(Fields) /\ Len(buf) + 1 = AtEnd(s, m)
    BY <1>1 DEF LaidOut
  <2>2. Len(buf) \in Nat
    BY <2>1
  <2> QED
    BY <2>1, <2>2
<1> HIDE DEF buf
<1>3. Len(c) = n /\ DOMAIN c = 1..n /\ \A q \in 1..n : c[q] = buf[q]
  <2>1. c = [q \in 1..n |-> buf[q]]
    BY <1>2
  <2>2. n <= Len(buf)
    BY <1>2
  <2> QED
    BY <1>2, <2>1, <2>2
<1> HIDE DEF c
<1>4. ASSUME NEW q \in SteeringFields(s, off), q <= n
      PROVE  Field(c, q) = buf[q]
  <2>1. q \in 1..n
    BY <1>1, <1>2, <1>4, SteeringFieldsAreNumbers
  <2> QED
    BY <1>3, <2>1 DEF Field
<1>5. ASSUME NEW q \in Nat, q > n PROVE Field(c, q) = 0
  <2>1. q \notin DOMAIN c
    BY <1>2, <1>3, <1>5
  <2> QED
    BY <2>1 DEF Field
<1>6. Walked(c, n, s, off)
  <2>1. Steered(c, n, s, off)
    BY <1>1, <1>2, <1>4, <1>5, SteeredBy
  <2> QED
    BY <1>1, <1>2, <2>1, WalkIs
<1>7. /\ AtForeignKeys(s, m) <= n => End(c) = AtEnd(s, m)
      /\ AtForeignKeys(s, m) > n => End(c) > n + 1
  BY <1>6 DEF Walked
<1>8. AtForeignKeys(s, m) \in Nat
  <2>1. m \in Nat
    <3>1. Len(s.columns) \in 0..Len(s.columns)
      BY SchemaTypes
    <3> QED
      BY <1>1, <3>1, ColumnLayout
  <2> HIDE DEF m
  <2> QED
    BY <2>1, PlacesAscend
<1> HIDE DEF m
<1>9. End(c) > n + 1
  <2>1. CASE AtForeignKeys(s, m) <= n
    <3>1. AtEnd(s, m) > n + 1
      BY <1>2
    <3> QED
      BY <1>7, <2>1, <3>1
  <2>2. CASE AtForeignKeys(s, m) > n
    BY <1>7, <2>2
  <2> QED
    BY <1>2, <1>8, <2>1, <2>2
<1>10. ~ (End(c) <= Len(c) + 1)
  <2>1. End(c) \in Int
    <3>1. ForeignKeysAt(c) \in Nat
      BY <1>6 DEF Walked, Agrees
    <3>2. CASE AtForeignKeys(s, m) <= n
      BY <1>2, <1>7, <3>2
    <3>3. CASE AtForeignKeys(s, m) > n
      <4>1. ForeignKeysAt(c) > n
        BY <1>6, <3>3 DEF Walked, Agrees, m
      <4>2. Field(c, ForeignKeysAt(c)) = 0
        BY <1>5, <3>1, <4>1
      <4> QED
        BY <3>1, <4>2 DEF End, AfterList
    <3> QED
      BY <1>2, <1>8, <3>2, <3>3
  <2> QED
    BY <1>2, <1>3, <1>9, <2>1
<1>11. Decode(c) = None
  BY <1>10 DEF Decode
<1> QED
  BY <1>11 DEF c, buf

\* decode refuses a symbol that is 0.
THEOREM ZeroSymbolsAreRefused ==
    ASSUME NEW s \in DatabaseSchema, NEW p \in SymbolFields(Encode(s))
    PROVE  Decode([Encode(s) EXCEPT ![p] = 0]) = None
<1> DEFINE buf == Encode(s)
           c == [buf EXCEPT ![p] = 0]
<1>1. PICK off : IsLayout(off, ColumnFields(s)) /\ LaidOut(buf, s, off)
  BY EncodeIs
<1>2. buf \in Seq(Fields) /\ Len(buf) \in Nat /\ p \in SymbolFields(buf)
  <2>1. buf \in Seq(Fields)
    BY <1>1 DEF LaidOut
  <2> QED
    BY <2>1
<1> HIDE DEF buf
<1>3. GoodPlace(buf, s, off, p)
  <2>1. SymbolFields(buf) = SymbolPlaces(s, off)
    BY <1>1, <1>2, SymbolFieldsAre
  <2> QED
    BY <1>1, <1>2, <2>1, SymbolsAreGood
<1>4. p \in 1..Len(buf) /\ p \notin SteeringFields(s, off)
  BY <1>3 DEF GoodPlace, Harmless
<1>5. /\ c \in Seq(Fields) /\ Len(c) = Len(buf) /\ c[p] = 0
      /\ \A q \in SteeringFields(s, off) : c[q] = buf[q]
  <2>1. 0 \in Fields
    BY DEF Fields
  <2>2. c \in Seq(Fields) /\ Len(c) = Len(buf) /\ c[p] = 0
    BY <1>2, <1>4, <2>1
  <2>3. ASSUME NEW q \in SteeringFields(s, off) PROVE c[q] = buf[q]
    BY <1>2, <1>4
  <2> QED
    BY <2>2, <2>3
<1>6. SymbolFields(c) = SymbolPlaces(s, off)
      /\ SymbolFields(buf) = SymbolPlaces(s, off)
  <2> HIDE DEF c
  <2> QED
    BY <1>1, <1>2, <1>5, SymbolFieldsAre
<1>7. p \in SymbolFields(c)
  BY <1>2, <1>6
<1> HIDE DEF c
<1>8. Decode(c) = None
  BY <1>5, <1>7 DEF Decode
<1> QED
  BY <1>8 DEF c, buf
=============================================================================
