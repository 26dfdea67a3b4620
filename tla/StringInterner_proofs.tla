----------------------- MODULE StringInterner_proofs -----------------------
(***************************************************************************)
(* Proofs about the interner of module StringInterner, for any number of   *)
(* threads, strings and shards, any hash and any size of the arena.        *)
(*                                                                         *)
(* The inductive invariant IInv says how far the one writer of a shard has *)
(* got, what the lock-free array holds meanwhile, and that every answer    *)
(* ever given is backed by a stored slot.                                  *)
(***************************************************************************)
EXTENDS StringInterner, FiniteSetTheorems, WellFoundedInduction, TLAPS

-----------------------------------------------------------------------------
(* The inductive invariant.                                                *)

WriterSteps == {"alloc", "len", "chunk", "slot", "insert"}

PushSteps == {"chunk", "slot", "insert"}

StringSteps == {"find", "get", "lock"} \cup WriterSteps

ResolveSteps == {"rlen", "rchunk", "rslot"}

\* A call has the argument its steps work on.
CallsHaveArguments ==
    \A t \in Threads :
        /\ pc[t] \in StringSteps => t \in Interning /\ val[t] \in Values
        /\ pc[t] \in ResolveSteps => sym[t] \in Symbols

\* A shard's write lock is held exactly by the thread in its write section.
LockIsHeld ==
    \A t \in Threads, s \in Shards :
        writer[s] = t <=> pc[t] \in WriterSteps /\ ShardOf[val[t]] = s

\* Records and array grow together: at most one record is not counted yet.
\* The records are of strings that hash to the shard.
RecordsAreCounted ==
    \A s \in Shards :
        /\ \A n \in 1..Len(pool[s]) : ShardOf[pool[s][n]] = s
        /\ writer[s] # None /\ pc[writer[s]] = "len" =>
              /\ Len(pool[s]) = len[s] + 1
              /\ pool[s][Len(pool[s])] = val[writer[s]]
        /\ writer[s] # None /\ pc[writer[s]] \in PushSteps =>
              /\ len[s] = idx[writer[s]] + 1
              /\ Len(pool[s]) = len[s]
              /\ pool[s][len[s]] = val[writer[s]]
        /\ writer[s] = None \/ pc[writer[s]] # "len" => Len(pool[s]) = len[s]

\* A stored slot names the record of its index, in a published chunk.
SlotsAreRight ==
    \A s \in Shards :
        /\ \A i \in Indices : slots[s][i] # 0 =>
              /\ slots[s][i] = i + 1
              /\ i < len[s]
              /\ ChunkOf(i) \in chunks[s]
        /\ writer[s] # None /\ pc[writer[s]] \in {"slot", "insert"} =>
              /\ idx[writer[s]] \in Indices
              /\ ChunkOf(idx[writer[s]]) \in chunks[s]
        /\ writer[s] # None /\ pc[writer[s]] = "insert" =>
              slots[s][idx[writer[s]]] # 0

\* The table holds the stored slots, up to the one being pushed.
EntriesAreStored ==
    \A s \in Shards :
        /\ \A i \in entries[s] : slots[s][i] # 0
        /\ \A i \in 0..(MaxIndex - 1) : i < len[s] /\ i \notin entries[s] =>
              writer[s] # None /\ pc[writer[s]] \in PushSteps
                /\ idx[writer[s]] = i

\* No string is in a table twice, or pushed while it is in the table.
EntriesAreDistinct ==
    \A s \in Shards :
        /\ \A i, j \in entries[s] : pool[s][i + 1] = pool[s][j + 1] => i = j
        /\ writer[s] # None =>
              \A i \in entries[s] : pool[s][i + 1] # val[writer[s]]

\* An answer is backed by a stored slot in the shard of its string.
Backed(v, y) ==
    /\ v \in Values /\ y \in Symbols
    /\ y[1] = ShardOf[v]
    /\ slots[y[1]][y[2]] # 0
    /\ pool[y[1]][y[2] + 1] = v

AnswersAreBacked == \A p \in observed : Backed(p[1], p[2])

\* What a thread has cached for this interner is an answer it was given.
CachesAreRight ==
    \A t \in Threads, l \in {LineOf[v] : v \in Values} \X Ways :
        cache[t][l] # None /\ cache[t][l].own =>
            \E v \in Values : /\ cache[t][l].key = CacheKey[v]
                              /\ <<v, cache[t][l].symbol>> \in observed

\* What was known when a call began is still on record.
KnownIsObserved ==
    \A t \in Threads : known[t] =>
        /\ pc[t] \in StringSteps => \E y \in Symbols : <<val[t], y>> \in observed
        /\ pc[t] \in ResolveSteps => \E v \in Values : <<v, sym[t]>> \in observed

IInv ==
    /\ TypeOK
    /\ CallsHaveArguments
    /\ LockIsHeld
    /\ RecordsAreCounted
    /\ SlotsAreRight
    /\ EntriesAreStored
    /\ EntriesAreDistinct
    /\ AnswersAreBacked
    /\ CachesAreRight
    /\ KnownIsObserved
    /\ NeverDenied

-----------------------------------------------------------------------------
(* Indices, chunks and shards.                                             *)

LEMMA MaxIndexType == MaxIndex \in Nat
BY SizesAssumption DEF MaxIndex

\* The chunk array covers the indices up to MaxIndex and no more.
LEMMA ChunkBound ==
    ASSUME NEW i \in Nat
    PROVE  /\ ChunkOf(i) \in Nat
           /\ ChunkOf(i) < NumChunks <=> i \in Indices
<1> DEFINE q == i \div ChunkSize
           r == i % ChunkSize
<1>1. q \in Nat /\ r \in 0..(ChunkSize - 1) /\ i = q * ChunkSize + r
  BY SizesAssumption
<1>2. ChunkSize \in Nat /\ NumChunks \in Nat /\ ChunkSize > 0
  BY SizesAssumption
<1> HIDE DEF q, r
<1>3. q < NumChunks => q * ChunkSize + ChunkSize <= NumChunks * ChunkSize
  <2>1. \A a, b, c \in Nat : a + 1 <= b => (a + 1) * c <= b * c
    OBVIOUS
  <2>2. q < NumChunks => (q + 1) * ChunkSize <= NumChunks * ChunkSize
    BY <1>1, <1>2, <2>1
  <2>3. (q + 1) * ChunkSize = q * ChunkSize + ChunkSize
    BY <1>1, <1>2
  <2> QED
    BY <2>2, <2>3
<1>4. q >= NumChunks => q * ChunkSize >= NumChunks * ChunkSize
  <2>1. \A a, b, c \in Nat : a <= b => a * c <= b * c
    OBVIOUS
  <2> QED
    BY <1>1, <1>2, <2>1
<1>5. q * ChunkSize \in Nat /\ NumChunks * ChunkSize \in Nat
  BY <1>1, <1>2
<1> QED
  BY <1>1, <1>2, <1>3, <1>4, <1>5 DEF ChunkOf, Indices, MaxIndex, q

\* A set of ways has a first one.
LEMMA SmallestWay ==
    ASSUME NEW C, C \subseteq Ways, C # {}
    PROVE  Smallest(C) \in C
<1>1. C \subseteq Nat
  BY DEF Ways
<1>2. \E R : /\ IsWellFoundedOn(R, Nat)
             /\ \A a, b \in Nat : a < b => <<a, b>> \in R
  BY NatLessThanWellFounded DEF OpToRel
<1>3. PICK R : /\ IsWellFoundedOn(R, Nat)
               /\ \A a, b \in Nat : a < b => <<a, b>> \in R
  BY <1>2
<1>4. IsWellFoundedOn(R, Nat)
  BY <1>3
<1>5. PICK i \in C : \A j \in C : ~ (<<j, i>> \in R)
  BY <1>1, <1>4, WFMin, Zenon
<1>6. \A j \in C : ~ (j < i)
  BY <1>1, <1>3, <1>5
<1>7. \A j \in C : i <= j
  BY <1>1, <1>6
<1> QED
  BY <1>7 DEF Smallest

LEMMA ShardsOfValues ==
    ASSUME NEW v \in Values
    PROVE  ShardOf[v] \in Shards
BY HashAssumption

-----------------------------------------------------------------------------
(* What the invariant says in a state.                                     *)

\* A stored slot is in the table, or it is the one being pushed.
LEMMA StoredSlot ==
    ASSUME IInv, NEW s \in Shards, NEW i \in 0..(MaxIndex - 1),
           slots[s][i] # 0
    PROVE  /\ i \in Indices /\ i < len[s] /\ ChunkOf(i) \in chunks[s]
           /\ slots[s][i] = i + 1
           /\ slots[s][i] \in 1..Len(pool[s])
           /\ StringAt(s, i) = pool[s][i + 1]
           /\ \/ i \in entries[s]
              \/ /\ writer[s] # None /\ pc[writer[s]] \in PushSteps
                 /\ idx[writer[s]] = i
                 /\ pool[s][i + 1] = val[writer[s]]
<1> USE DEF IInv
<1>1. i \in Indices /\ i \in Nat
  BY MaxIndexType DEF Indices
<1>2. slots[s][i] = i + 1 /\ i < len[s] /\ ChunkOf(i) \in chunks[s]
  BY <1>1 DEF SlotsAreRight
<1>3. len[s] \in Nat /\ Len(pool[s]) \in Nat /\ len[s] <= Len(pool[s])
  <2>1. len[s] \in Nat /\ pool[s] \in Seq(Values)
    BY DEF TypeOK
  <2>2. Len(pool[s]) = len[s] + 1 \/ Len(pool[s]) = len[s]
    BY DEF RecordsAreCounted
  <2> QED
    BY <2>1, <2>2
<1>4. \/ i \in entries[s]
      \/ /\ writer[s] # None /\ pc[writer[s]] \in PushSteps
         /\ idx[writer[s]] = i
         /\ pool[s][i + 1] = val[writer[s]]
  BY <1>2 DEF EntriesAreStored, RecordsAreCounted
<1> QED
  BY <1>1, <1>2, <1>3, <1>4 DEF StringAt

\* A table entry is a stored slot.
LEMMA TableEntry ==
    ASSUME IInv, NEW s \in Shards, NEW i \in entries[s]
    PROVE  /\ i \in 0..(MaxIndex - 1)
           /\ slots[s][i] # 0
           /\ StringAt(s, i) = pool[s][i + 1]
<1>1. i \in 0..(MaxIndex - 1) /\ slots[s][i] # 0
  BY DEF IInv, TypeOK, EntriesAreStored
<1> QED
  BY <1>1, StoredSlot

\* What a lookup finds may be answered.
LEMMA MatchIsBacked ==
    ASSUME IInv, NEW v \in Values, NEW i \in Matches(v)
    PROVE  Backed(v, <<ShardOf[v], i>>)
<1>1. ShardOf[v] \in Shards /\ i \in entries[ShardOf[v]]
      /\ StringAt(ShardOf[v], i) = v
  BY ShardsOfValues DEF Matches
<1> QED
  BY <1>1, TableEntry DEF Backed, Symbols

\* What has been answered is found by a lookup, once no writer is active.
LEMMA AnsweredIsFound ==
    ASSUME IInv, NEW v \in Values, NEW y, <<v, y>> \in observed,
           writer[ShardOf[v]] = None
    PROVE  Matches(v) # {}
<1>1. Backed(v, y)
  BY DEF IInv, AnswersAreBacked
<1> DEFINE s == y[1]
           i == y[2]
<1>2. s \in Shards /\ i \in 0..(MaxIndex - 1) /\ slots[s][i] # 0
      /\ s = ShardOf[v] /\ pool[s][i + 1] = v
  BY <1>1 DEF Backed, Symbols
<1> HIDE DEF s, i
<1>3. i \in entries[s] /\ StringAt(s, i) = v
  BY <1>2, StoredSlot
<1> QED
  BY <1>2, <1>3 DEF Matches

\* The answers of the cache have been given before.
LEMMA CachedIsObserved ==
    ASSUME IInv, NEW t \in Threads, NEW v \in Values, Cached(t, v) # None
    PROVE  <<v, Cached(t, v)>> \in observed
<1> DEFINE C == Candidates(t, v)
           w == Smallest(C)
           e == cache[t][<<LineOf[v], w>>]
           y == e.symbol
           a == StringAt(y[1], y[2])
<1>0. C \subseteq Ways
  BY DEF Candidates
<1>1. C # {}
  BY DEF Cached
<1>2. w \in C
  BY <1>0, <1>1, SmallestWay
<1>3. e # None /\ e.own /\ e.key = CacheKey[v]
  BY <1>2 DEF Candidates
<1>4. PICK u \in Values : CacheKey[u] = CacheKey[v] /\ <<u, y>> \in observed
  <2>1. <<LineOf[v], w>> \in {LineOf[x] : x \in Values} \X Ways
    BY <1>0, <1>2
  <2> QED
    BY <1>3, <2>1 DEF IInv, CachesAreRight
<1>5. Cached(t, v) = y /\ (v \in Long => <<a, v>> \in ShiftedEqual)
  BY <1>1 DEF Cached
<1>6. Backed(u, y)
  BY <1>4 DEF IInv, AnswersAreBacked
<1>7. a = u
  BY <1>6, StoredSlot DEF Backed, Symbols
<1> HIDE DEF e, y, a
<1>8. CASE v \notin Long
  BY <1>4, <1>5, <1>8, ShortKeyAssumption
<1>9. CASE v \in Long
  <2>1. <<u, v>> \in ShiftedEqual
    BY <1>5, <1>7, <1>9
  <2>2. u = v
    BY <1>4, <2>1, ShiftAssumption
  <2> QED
    BY <1>4, <1>5, <2>2
<1> QED
  BY <1>8, <1>9

\* The answers given so far are canonical.
LEMMA IInvCanonical == IInv => Canonical
<1> SUFFICES ASSUME IInv, NEW p \in observed, NEW q \in observed
             PROVE  p[1] = q[1] <=> p[2] = q[2]
  BY DEF Canonical, Agree
<1> DEFINE s == p[2][1]
           i == p[2][2]
           r == q[2][1]
           j == q[2][2]
<1>1. /\ s \in Shards /\ i \in 0..(MaxIndex - 1) /\ p[2] = <<s, i>>
      /\ s = ShardOf[p[1]] /\ slots[s][i] # 0 /\ pool[s][i + 1] = p[1]
  BY DEF IInv, AnswersAreBacked, Backed, Symbols
<1>2. /\ r \in Shards /\ j \in 0..(MaxIndex - 1) /\ q[2] = <<r, j>>
      /\ r = ShardOf[q[1]] /\ slots[r][j] # 0 /\ pool[r][j + 1] = q[1]
  BY DEF IInv, AnswersAreBacked, Backed, Symbols
<1> HIDE DEF s, i, r, j
<1>3. ASSUME p[2] = q[2] PROVE p[1] = q[1]
  BY <1>1, <1>2, <1>3
<1>4. ASSUME p[1] = q[1] PROVE p[2] = q[2]
  <2>1. r = s
    BY <1>1, <1>2, <1>4
  <2>2. \/ i \in entries[s]
        \/ /\ writer[s] # None /\ idx[writer[s]] = i
           /\ pool[s][i + 1] = val[writer[s]]
    BY <1>1, StoredSlot
  <2>3. \/ j \in entries[s]
        \/ /\ writer[s] # None /\ idx[writer[s]] = j
           /\ pool[s][j + 1] = val[writer[s]]
    BY <1>2, <2>1, StoredSlot
  <2>4. i = j
    BY <1>1, <1>2, <1>4, <2>1, <2>2, <2>3 DEF IInv, EntriesAreDistinct
  <2> QED
    BY <1>1, <1>2, <2>1, <2>4
<1> QED
  BY <1>3, <1>4

LEMMA IInvUnchecked == IInv => UncheckedIsSafe
BY TableEntry, StoredSlot DEF UncheckedIsSafe

LEMMA InitIInv == Init => IInv
<1> SUFFICES ASSUME Init PROVE IInv
  OBVIOUS
<1>1. TypeOK
  <2>1. /\ entries \in [Shards -> SUBSET (0..(MaxIndex - 1))]
        /\ writer \in [Shards -> Interning \cup {None}]
        /\ cursor \in [Shards -> Nat] /\ len \in [Shards -> Nat]
        /\ poisoned \subseteq Shards
        /\ chunks \in [Shards -> SUBSET (0..(NumChunks - 1))]
    BY DEF Init
  <2>2. pool \in [Shards -> Seq(Values)]
    BY DEF Init
  <2>3. slots \in [Shards -> [Indices -> Nat]]
    BY DEF Init
  <2>4. cache \in [Threads -> [{LineOf[v] : v \in Values} \X Ways
                                 -> CacheEntry \cup {None}]]
    BY DEF Init
  <2>5. /\ pc \in [Threads -> Steps] /\ idx \in [Threads -> Nat]
        /\ val \in [Threads -> Values \cup {None}]
        /\ sym \in [Threads -> Symbols \cup {None}]
    BY DEF Init, Steps
  <2>6. used \in [Threads -> Seq(Nat)]
    BY DEF Init
  <2>7. /\ known \in [Threads -> BOOLEAN] /\ denied \in BOOLEAN
        /\ before \in [Threads -> SUBSET (Values \X Symbols)]
        /\ observed \subseteq Values \X Symbols
    BY DEF Init
  <2> QED
    BY <2>1, <2>2, <2>3, <2>4, <2>5, <2>6, <2>7 DEF TypeOK
<1>2. CallsHaveArguments /\ KnownIsObserved /\ NeverDenied
  BY DEF Init, CallsHaveArguments, StringSteps, WriterSteps, ResolveSteps,
         KnownIsObserved, NeverDenied
<1>3. LockIsHeld
  BY NoneAssumption DEF Init, LockIsHeld, WriterSteps
<1>4. RecordsAreCounted /\ SlotsAreRight /\ EntriesAreStored
      /\ EntriesAreDistinct
  BY DEF Init, RecordsAreCounted, SlotsAreRight, EntriesAreStored,
         EntriesAreDistinct
<1>5. AnswersAreBacked /\ CachesAreRight
  BY DEF Init, AnswersAreBacked, CachesAreRight
<1> QED
  BY <1>1, <1>2, <1>3, <1>4, <1>5 DEF IInv

-----------------------------------------------------------------------------
(* What a step leaves alone.                                               *)

\* The write sections of the others do not notice a thread outside its own.
LEMMA SharedKept ==
    ASSUME IInv, UNCHANGED shared, NEW t \in Threads, NEW step,
           pc[t] \notin WriterSteps, step \notin WriterSteps,
           pc' = [pc EXCEPT ![t] = step],
           \A u \in Threads \ {t} : val'[u] = val[u] /\ idx'[u] = idx[u]
    PROVE  /\ LockIsHeld' /\ RecordsAreCounted' /\ SlotsAreRight'
           /\ EntriesAreStored' /\ EntriesAreDistinct'
<1> USE DEF IInv
<1>1. UNCHANGED <<entries, writer, pool, cursor, poisoned, len, chunks, slots>>
  BY DEF shared
<1>2. \A s \in Shards : writer[s] # t
  BY DEF LockIsHeld
<1>3. \A s \in Shards : writer[s] # None => writer[s] \in Threads \ {t}
  BY <1>2 DEF TypeOK, Threads
<1>4. /\ \A u \in Threads \ {t} : pc'[u] = pc[u]
      /\ pc'[t] = step
  BY DEF TypeOK
<1>5. \A s \in Shards : writer[s] # None =>
         /\ pc'[writer[s]] = pc[writer[s]]
         /\ val'[writer[s]] = val[writer[s]]
         /\ idx'[writer[s]] = idx[writer[s]]
  BY <1>3, <1>4
<1>6. LockIsHeld'
  BY <1>1, <1>2, <1>4 DEF LockIsHeld
<1>7. RecordsAreCounted'
  BY <1>1, <1>5 DEF RecordsAreCounted
<1>8. SlotsAreRight'
  BY <1>1, <1>5 DEF SlotsAreRight
<1>9. EntriesAreStored'
  BY <1>1, <1>5 DEF EntriesAreStored
<1>10. EntriesAreDistinct'
  BY <1>1, <1>5 DEF EntriesAreDistinct
<1> QED
  BY <1>6, <1>7, <1>8, <1>9, <1>10

\* The arguments of the other calls are still there.
LEMMA CallsKept ==
    ASSUME IInv, NEW t \in Threads, observed \subseteq observed',
           \A u \in Threads \ {t} :
               /\ pc'[u] = pc[u] /\ val'[u] = val[u] /\ sym'[u] = sym[u]
               /\ known'[u] = known[u],
           pc'[t] \in StringSteps => t \in Interning /\ val'[t] \in Values,
           pc'[t] \in ResolveSteps => sym'[t] \in Symbols,
           known'[t] =>
             /\ pc'[t] \in StringSteps =>
                  \E y \in Symbols : <<val'[t], y>> \in observed
             /\ pc'[t] \in ResolveSteps =>
                  \E v \in Values : <<v, sym'[t]>> \in observed
    PROVE  CallsHaveArguments' /\ KnownIsObserved'
<1>1. CallsHaveArguments'
  BY DEF IInv, CallsHaveArguments
<1>2. KnownIsObserved'
  BY DEF IInv, KnownIsObserved
<1> QED
  BY <1>1, <1>2

\* Stored slots and their records are never changed.
LEMMA BackedKept ==
    ASSUME IInv, NEW v, NEW y, Backed(v, y),
           \A s \in Shards, i \in Indices :
               slots[s][i] # 0 => slots'[s][i] # 0,
           \A s \in Shards : \A n \in 1..Len(pool[s]) : pool'[s][n] = pool[s][n]
    PROVE  Backed(v, y)'
<1> DEFINE s == y[1]
           i == y[2]
<1>1. /\ s \in Shards /\ i \in 0..(MaxIndex - 1)
      /\ slots[s][i] # 0 /\ pool[s][i + 1] = v
  BY DEF Backed, Symbols
<1>2. i \in Indices /\ slots[s][i] = i + 1 /\ slots[s][i] \in 1..Len(pool[s])
  BY <1>1, StoredSlot
<1> QED
  BY <1>1, <1>2 DEF Backed

LEMMA AnswersKept ==
    ASSUME IInv,
           \A s \in Shards, i \in Indices :
               slots[s][i] # 0 => slots'[s][i] # 0,
           \A s \in Shards : \A n \in 1..Len(pool[s]) : pool'[s][n] = pool[s][n],
           \A p \in observed' \ observed : Backed(p[1], p[2])
    PROVE  AnswersAreBacked'
<1>1. \A p \in observed' : Backed(p[1], p[2])
  BY DEF IInv, AnswersAreBacked
<1>2. \A p \in observed' : Backed(p[1], p[2])'
  BY <1>1, BackedKept
<1> QED
  BY <1>2 DEF AnswersAreBacked

LEMMA CachesKept ==
    ASSUME IInv, UNCHANGED cache, observed \subseteq observed'
    PROVE  CachesAreRight'
BY DEF IInv, CachesAreRight

\* CacheInsert keeps the cache right if what it inserts has been answered.
LEMMA CachesAfterInsert ==
    ASSUME IInv, NEW t \in Threads, NEW v \in Values, NEW own \in BOOLEAN,
           NEW y \in Shards \X Nat, CacheInsert(t, v, own, y),
           observed \subseteq observed', own => <<v, y>> \in observed'
    PROVE  /\ CachesAreRight'
           /\ cache' \in [Threads -> [{LineOf[x] : x \in Values} \X Ways
                                        -> CacheEntry \cup {None}]]
<1> DEFINE Lines == {LineOf[x] : x \in Values} \X Ways
           w == InsertWay(t, v)
           e == [own |-> own, key |-> CacheKey[v], symbol |-> y]
           new == [cache EXCEPT ![t][<<LineOf[v], w>>] = e]
<1>1. w \in Ways
  <2> DEFINE empty == {x \in Ways : cache[t][<<LineOf[v], x>>] = None}
  <2>1. empty \subseteq Ways
    OBVIOUS
  <2> HIDE DEF empty
  <2>2. empty # {} => Smallest(empty) \in Ways
    BY <2>1, SmallestWay
  <2>3. WayOf[v] \in Ways
    BY HashAssumption
  <2>4. w = IF empty = {} THEN WayOf[v] ELSE Smallest(empty)
    BY DEF InsertWay, empty
  <2> QED
    BY <2>2, <2>3, <2>4
<1>2. <<LineOf[v], w>> \in Lines
  BY <1>1
<1>3. e \in CacheEntry /\ e.own = own /\ e.key = CacheKey[v] /\ e.symbol = y
  BY DEF CacheEntry
<1>4. cache' = new
  BY DEF CacheInsert
<1>5. cache \in [Threads -> [Lines -> CacheEntry \cup {None}]]
  BY DEF IInv, TypeOK
<1> HIDE DEF Lines, w, e
<1>6. new \in [Threads -> [Lines -> CacheEntry \cup {None}]]
  BY <1>2, <1>3, <1>5
<1>7. \A u \in Threads, l \in Lines :
         new[u][l] = cache[u][l] \/ new[u][l] = e
  BY <1>2, <1>5
<1>8. CachesAreRight'
  <2> SUFFICES ASSUME NEW u \in Threads, NEW l \in Lines,
                      new[u][l] # None, new[u][l].own
               PROVE  \E x \in Values : /\ new[u][l].key = CacheKey[x]
                                        /\ <<x, new[u][l].symbol>> \in observed'
    BY <1>4 DEF CachesAreRight, Lines
  <2>1. CASE new[u][l] = cache[u][l]
    BY <2>1 DEF IInv, CachesAreRight, Lines
  <2>2. CASE new[u][l] = e
    BY <1>3, <2>2
  <2> QED
    BY <1>7, <2>1, <2>2
<1> QED
  BY <1>4, <1>6, <1>8 DEF Lines

-----------------------------------------------------------------------------
(* Steps of a thread outside the write section.                            *)

\* What the end of a call does to the locals of the threads.
LEMMA Left ==
    ASSUME IInv, NEW t \in Threads, Leave(t)
    PROVE  /\ pc' \in [Threads -> Steps]
           /\ val' \in [Threads -> Values \cup {None}]
           /\ sym' \in [Threads -> Symbols \cup {None}]
           /\ idx' \in [Threads -> Nat]
           /\ used' \in [Threads -> Seq(Nat)]
           /\ known' \in [Threads -> BOOLEAN]
           /\ pc' = [pc EXCEPT ![t] = "idle"]
           /\ pc'[t] = "idle" /\ known'[t] = FALSE
           /\ \A u \in Threads \ {t} :
                 /\ pc'[u] = pc[u] /\ val'[u] = val[u] /\ sym'[u] = sym[u]
                 /\ idx'[u] = idx[u] /\ known'[u] = known[u]
<1> USE DEF Leave, IInv, TypeOK
<1>1. pc' \in [Threads -> Steps] /\ pc'[t] = "idle"
  BY DEF Steps
<1>2. /\ val' \in [Threads -> Values \cup {None}]
      /\ sym' \in [Threads -> Symbols \cup {None}]
      /\ idx' \in [Threads -> Nat]
  OBVIOUS
<1>3. used' \in [Threads -> Seq(Nat)]
  OBVIOUS
<1>4. known' \in [Threads -> BOOLEAN] /\ known'[t] = FALSE
  OBVIOUS
<1>5. \A u \in Threads \ {t} :
         /\ pc'[u] = pc[u] /\ val'[u] = val[u] /\ sym'[u] = sym[u]
         /\ idx'[u] = idx[u] /\ known'[u] = known[u]
  OBVIOUS
<1> QED
  BY <1>1, <1>2, <1>3, <1>4, <1>5

\* An end of a call has no argument to keep.
LEMMA CallsLeft ==
    ASSUME IInv, NEW t \in Threads, Leave(t), observed \subseteq observed'
    PROVE  CallsHaveArguments' /\ KnownIsObserved'
<1>1. pc'[t] = "idle" /\ known'[t] = FALSE
  BY Left
<1>2. pc'[t] \notin StringSteps /\ pc'[t] \notin ResolveSteps
  BY <1>1 DEF StringSteps, WriterSteps, ResolveSteps
<1> QED
  BY <1>1, <1>2, CallsKept, Left

\* A call that does not write ends with an answer that is backed.
LEMMA Answered ==
    ASSUME IInv, NEW t \in Threads, NEW v \in Values, NEW y \in Symbols,
           pc[t] \notin WriterSteps, Answer(t, v, y), Backed(v, y),
           UNCHANGED shared,
           UNCHANGED cache \/ CacheInsert(t, v, TRUE, y)
    PROVE  IInv'
<1>1. Leave(t) /\ observed' = observed \cup {<<v, y>>}
      /\ UNCHANGED <<before, denied>>
  BY DEF Answer
<1>2. UNCHANGED <<entries, writer, pool, cursor, poisoned, len, chunks, slots>>
  BY DEF shared
<1>3. y \in Shards \X Nat
  BY MaxIndexType DEF Symbols
<1>4. CachesAreRight' /\ cache' \in [Threads ->
         [{LineOf[x] : x \in Values} \X Ways -> CacheEntry \cup {None}]]
  <2>1. CASE UNCHANGED cache
    BY <1>1, <2>1, CachesKept DEF IInv, TypeOK
  <2>2. CASE CacheInsert(t, v, TRUE, y)
    BY <1>1, <1>3, <2>2, CachesAfterInsert
  <2> QED
    BY <2>1, <2>2
<1>5. AnswersAreBacked'
  BY <1>1, <1>2, AnswersKept
<1>6. CallsHaveArguments' /\ KnownIsObserved'
  BY <1>1, CallsLeft
<1>7. /\ LockIsHeld' /\ RecordsAreCounted' /\ SlotsAreRight'
      /\ EntriesAreStored' /\ EntriesAreDistinct'
  <2>1. "idle" \notin WriterSteps
    BY DEF WriterSteps
  <2> QED
    BY <1>1, <2>1, Left, SharedKept
<1>8. TypeOK'
  <2>1. observed' \subseteq Values \X Symbols
    BY <1>1 DEF IInv, TypeOK
  <2> QED
    BY <1>1, <1>2, <1>4, <2>1, Left DEF IInv, TypeOK
<1>9. NeverDenied'
  BY <1>1 DEF IInv, NeverDenied
<1> QED
  BY <1>4, <1>5, <1>6, <1>7, <1>8, <1>9 DEF IInv

\* A call that does not write may answer None to what was not known.
LEMMA AnsweredNone ==
    ASSUME IInv, NEW t \in Threads, pc[t] \notin WriterSteps,
           AnswerNone(t), known[t] = FALSE, UNCHANGED <<shared, cache>>
    PROVE  IInv'
<1>0. denied \in BOOLEAN /\ ~ denied /\ denied' = (denied \/ known[t])
  BY DEF AnswerNone, IInv, TypeOK, NeverDenied
<1>1. Leave(t) /\ denied' = denied /\ UNCHANGED <<before, observed>>
  <2>1. denied' = FALSE /\ denied = FALSE
    BY <1>0, Zenon
  <2> QED
    BY <2>1 DEF AnswerNone
<1>2. UNCHANGED <<entries, writer, pool, cursor, poisoned, len, chunks, slots>>
  BY DEF shared
<1>3. AnswersAreBacked' /\ CachesAreRight'
  BY <1>1, <1>2, AnswersKept, CachesKept
<1>4. CallsHaveArguments' /\ KnownIsObserved'
  BY <1>1, CallsLeft
<1>5. /\ LockIsHeld' /\ RecordsAreCounted' /\ SlotsAreRight'
      /\ EntriesAreStored' /\ EntriesAreDistinct'
  <2>1. "idle" \notin WriterSteps
    BY DEF WriterSteps
  <2> QED
    BY <1>1, <2>1, Left, SharedKept
<1>6. TypeOK'
  BY <1>1, <1>2, Left DEF IInv, TypeOK
<1>7. NeverDenied'
  BY <1>1 DEF IInv, NeverDenied
<1> QED
  BY <1>3, <1>4, <1>5, <1>6, <1>7 DEF IInv

\* A call goes on, with the argument it has or the one it begins with.
LEMMA Moved ==
    ASSUME IInv, NEW t \in Threads, NEW step \in Steps \ WriterSteps,
           pc[t] \notin WriterSteps, Goto(t, step),
           UNCHANGED <<shared, cache, idx, used, history>>,
           NEW v \in Values \cup {None}, val' = [val EXCEPT ![t] = v],
           NEW y \in Symbols \cup {None}, sym' = [sym EXCEPT ![t] = y],
           NEW k \in BOOLEAN, known' = [known EXCEPT ![t] = k],
           step \in StringSteps => t \in Interning /\ v \in Values,
           step \in ResolveSteps => y \in Symbols,
           k => /\ step \in StringSteps =>
                     \E x \in Symbols : <<v, x>> \in observed
                /\ step \in ResolveSteps =>
                     \E x \in Values : <<x, y>> \in observed
    PROVE  IInv'
<1>1. UNCHANGED <<entries, writer, pool, cursor, poisoned, len, chunks, slots,
                  cache, idx, used, before, observed, denied>>
  BY DEF shared, history
<1>2. pc' = [pc EXCEPT ![t] = step]
  BY DEF Goto
<1>3. /\ pc'[t] = step /\ val'[t] = v /\ sym'[t] = y /\ known'[t] = k
      /\ \A u \in Threads \ {t} :
            /\ pc'[u] = pc[u] /\ val'[u] = val[u] /\ sym'[u] = sym[u]
            /\ idx'[u] = idx[u] /\ known'[u] = known[u]
  BY <1>1, <1>2 DEF IInv, TypeOK
<1>4. AnswersAreBacked' /\ CachesAreRight'
  BY <1>1, AnswersKept, CachesKept
<1>5. CallsHaveArguments' /\ KnownIsObserved'
  BY <1>1, <1>3, CallsKept
<1>6. /\ LockIsHeld' /\ RecordsAreCounted' /\ SlotsAreRight'
      /\ EntriesAreStored' /\ EntriesAreDistinct'
  BY <1>2, <1>3, SharedKept
<1>7. TypeOK'
  BY <1>1, <1>2 DEF IInv, TypeOK
<1>8. NeverDenied'
  BY <1>1 DEF IInv, NeverDenied
<1> QED
  BY <1>4, <1>5, <1>6, <1>7, <1>8 DEF IInv

LEMMA CacheHitStep ==
    ASSUME IInv, NEW t \in Interning, NEW v \in Values, CacheHit(t, v)
    PROVE  IInv'
<1> DEFINE y == Cached(t, v)
<1>1. t \in Threads /\ pc[t] \notin WriterSteps
  BY DEF CacheHit, Threads, WriterSteps
<1>2. <<v, y>> \in observed
  BY <1>1, CachedIsObserved DEF CacheHit
<1> HIDE DEF y
<1>3. Backed(v, y) /\ y \in Symbols
  BY <1>2 DEF IInv, AnswersAreBacked, Backed
<1> QED
  BY <1>1, <1>3, Answered DEF CacheHit, y

LEMMA CacheMissStep ==
    ASSUME IInv, NEW t \in Interning, NEW v \in Values,
           NEW step \in {"find", "get"}, CacheMiss(t, v, step)
    PROVE  IInv'
<1> DEFINE k == \E y \in Symbols : Given(v, y)
<1>1. t \in Threads /\ pc[t] \notin WriterSteps
  BY DEF CacheMiss, Threads, WriterSteps
<1>2. step \in Steps \ WriterSteps /\ step \notin ResolveSteps
  BY DEF Steps, WriterSteps, ResolveSteps
<1>3. k \in BOOLEAN /\ (k => \E y \in Symbols : <<v, y>> \in observed)
  BY DEF Given
<1>4. sym' = [sym EXCEPT ![t] = sym[t]] /\ sym[t] \in Symbols \cup {None}
  BY <1>1 DEF CacheMiss, IInv, TypeOK
<1>5. known' = [known EXCEPT ![t] = k]
  BY DEF CacheMiss
<1> HIDE DEF k
<1> QED
  BY <1>1, <1>2, <1>3, <1>4, <1>5, Moved DEF CacheMiss

LEMMA ResolveStep ==
    ASSUME IInv, NEW t \in Resolving, NEW y \in Symbols, Resolve(t, y)
    PROVE  IInv'
<1> DEFINE k == \E v \in Values : Given(v, y)
<1>1. t \in Threads /\ pc[t] \notin WriterSteps
  BY DEF Resolve, Threads, WriterSteps
<1>2. "rlen" \in Steps \ WriterSteps /\ "rlen" \notin StringSteps
  BY DEF Steps, WriterSteps, StringSteps
<1>3. k \in BOOLEAN /\ (k => \E v \in Values : <<v, y>> \in observed)
  BY DEF Given
<1>4. val' = [val EXCEPT ![t] = val[t]] /\ val[t] \in Values \cup {None}
  BY <1>1 DEF Resolve, IInv, TypeOK
<1>5. known' = [known EXCEPT ![t] = k]
  BY DEF Resolve
<1> HIDE DEF k
<1> QED
  BY <1>1, <1>2, <1>3, <1>4, <1>5, Moved DEF Resolve

\* A call that keeps its argument and moves to a step of the same kind.
LEMMA WentOn ==
    ASSUME IInv, NEW t \in Threads, NEW step \in Steps \ WriterSteps,
           pc[t] \notin WriterSteps, Goto(t, step),
           UNCHANGED <<shared, cache, val, sym, idx, used, known, history>>,
           step \in StringSteps => pc[t] \in StringSteps,
           step \in ResolveSteps => pc[t] \in ResolveSteps
    PROVE  IInv'
<1>1. /\ val' = [val EXCEPT ![t] = val[t]] /\ val[t] \in Values \cup {None}
      /\ sym' = [sym EXCEPT ![t] = sym[t]] /\ sym[t] \in Symbols \cup {None}
      /\ known' = [known EXCEPT ![t] = known[t]] /\ known[t] \in BOOLEAN
  BY DEF IInv, TypeOK
<1>2. /\ step \in StringSteps => t \in Interning /\ val[t] \in Values
      /\ step \in ResolveSteps => sym[t] \in Symbols
  BY DEF IInv, CallsHaveArguments
<1>3. known[t] =>
         /\ step \in StringSteps => \E x \in Symbols : <<val[t], x>> \in observed
         /\ step \in ResolveSteps => \E x \in Values : <<x, sym[t]>> \in observed
  BY DEF IInv, KnownIsObserved
<1> QED
  BY <1>1, <1>2, <1>3, Moved

LEMMA LoadLenStep ==
    ASSUME IInv, NEW t \in Threads, LoadLen(t)
    PROVE  IInv'
<1>1. pc[t] = "rlen" /\ pc[t] \notin WriterSteps /\ pc[t] \in ResolveSteps
      /\ pc[t] \notin StringSteps
  BY DEF LoadLen, Load, WriterSteps, ResolveSteps, StringSteps
<1>2. CASE sym[t][2] < len[sym[t][1]]
  <2>1. "rchunk" \in Steps \ WriterSteps /\ "rchunk" \notin StringSteps
    BY DEF Steps, WriterSteps, StringSteps
  <2> QED
    BY <1>1, <1>2, <2>1, WentOn DEF LoadLen, Load
<1>3. CASE ~ (sym[t][2] < len[sym[t][1]])
  <2>1. known[t] = FALSE
    <3> SUFFICES ASSUME known[t] PROVE FALSE
      BY DEF IInv, TypeOK
    <3>1. PICK v \in Values : <<v, sym[t]>> \in observed
      BY <1>1 DEF IInv, KnownIsObserved
    <3>2. Backed(v, sym[t])
      BY <3>1 DEF IInv, AnswersAreBacked
    <3> QED
      BY <1>3, <3>2, StoredSlot DEF Backed, Symbols
  <2>2. AnswerNone(t) /\ UNCHANGED <<shared, cache>>
    BY <1>3 DEF LoadLen, Load
  <2> QED
    BY <1>1, <2>1, <2>2, AnsweredNone
<1> QED
  BY <1>2, <1>3

LEMMA LoadChunkStep ==
    ASSUME IInv, NEW t \in Threads, LoadChunk(t)
    PROVE  IInv'
<1>1. pc[t] = "rchunk" /\ pc[t] \notin WriterSteps /\ pc[t] \in ResolveSteps
  BY DEF LoadChunk, Load, WriterSteps, ResolveSteps
<1>2. CASE ChunkOf(sym[t][2]) \in chunks[sym[t][1]]
  <2>1. "rslot" \in Steps \ WriterSteps /\ "rslot" \notin StringSteps
    BY DEF Steps, WriterSteps, StringSteps
  <2> QED
    BY <1>1, <1>2, <2>1, WentOn DEF LoadChunk, Load
<1>3. CASE ChunkOf(sym[t][2]) \notin chunks[sym[t][1]]
  <2>1. known[t] = FALSE
    <3> SUFFICES ASSUME known[t] PROVE FALSE
      BY DEF IInv, TypeOK
    <3>1. PICK v \in Values : <<v, sym[t]>> \in observed
      BY <1>1 DEF IInv, KnownIsObserved
    <3>2. Backed(v, sym[t])
      BY <3>1 DEF IInv, AnswersAreBacked
    <3> QED
      BY <1>3, <3>2, StoredSlot DEF Backed, Symbols
  <2>2. AnswerNone(t) /\ UNCHANGED <<shared, cache>>
    BY <1>3 DEF LoadChunk, Load
  <2> QED
    BY <1>1, <2>1, <2>2, AnsweredNone
<1> QED
  BY <1>2, <1>3

LEMMA LoadSlotStep ==
    ASSUME IInv, NEW t \in Threads, LoadSlot(t)
    PROVE  IInv'
<1> DEFINE s == sym[t][1]
           i == sym[t][2]
<1>1. pc[t] = "rslot" /\ pc[t] \notin WriterSteps /\ pc[t] \in ResolveSteps
  BY DEF LoadSlot, WriterSteps, ResolveSteps
<1>2. sym[t] \in Symbols /\ s \in Shards /\ i \in 0..(MaxIndex - 1)
  BY <1>1 DEF IInv, CallsHaveArguments, Symbols
<1>3. CASE slots[s][i] = 0
  <2>1. known[t] = FALSE
    <3> SUFFICES ASSUME known[t] PROVE FALSE
      BY DEF IInv, TypeOK
    <3>1. PICK v \in Values : <<v, sym[t]>> \in observed
      BY <1>1 DEF IInv, KnownIsObserved
    <3>2. Backed(v, sym[t])
      BY <3>1 DEF IInv, AnswersAreBacked
    <3> QED
      BY <1>3, <3>2 DEF Backed
  <2>2. AnswerNone(t) /\ UNCHANGED <<shared, cache>>
    BY <1>3 DEF LoadSlot
  <2> QED
    BY <1>1, <2>1, <2>2, AnsweredNone
<1>4. CASE slots[s][i] # 0
  <2>1. Answer(t, StringAt(s, i), sym[t]) /\ UNCHANGED <<shared, cache>>
    BY <1>4 DEF LoadSlot
  <2>2. /\ StringAt(s, i) = pool[s][i + 1] /\ i + 1 \in 1..Len(pool[s])
    BY <1>2, <1>4, StoredSlot
  <2>3. pool[s][i + 1] \in Values /\ ShardOf[pool[s][i + 1]] = s
    BY <1>2, <2>2 DEF IInv, TypeOK, RecordsAreCounted
  <2>4. Backed(StringAt(s, i), sym[t])
    BY <1>2, <1>4, <2>2, <2>3 DEF Backed
  <2> HIDE DEF s, i
  <2> QED
    BY <1>1, <1>2, <2>1, <2>2, <2>3, <2>4, Answered
<1> QED
  BY <1>3, <1>4

\* A lookup that finds the string ends the call.
LEMMA FoundStep ==
    ASSUME IInv, NEW t \in Threads, pc[t] \in StringSteps \ WriterSteps,
           \E i \in Matches(val[t]) : Found(t, i), UNCHANGED shared
    PROVE  IInv'
<1>1. PICK i \in Matches(val[t]) : Found(t, i)
  OBVIOUS
<1>2. val[t] \in Values
  BY DEF IInv, CallsHaveArguments
<1> DEFINE y == <<ShardOf[val[t]], i>>
<1>3. Backed(val[t], y) /\ y \in Symbols
  BY <1>2, MatchIsBacked DEF Backed
<1>4. Answer(t, val[t], y) /\ CacheInsert(t, val[t], TRUE, y)
  BY <1>1 DEF Found
<1> HIDE DEF y
<1> QED
  BY <1>2, <1>3, <1>4, Answered

LEMMA FindStep ==
    ASSUME IInv, NEW t \in Threads, Find(t)
    PROVE  IInv'
<1>1. pc[t] \in StringSteps \ WriterSteps
  BY DEF Find, StringSteps, WriterSteps
<1>2. CASE Matches(val[t]) = {}
  <2>1. "lock" \in Steps \ WriterSteps /\ "lock" \notin ResolveSteps
    BY DEF Steps, WriterSteps, ResolveSteps
  <2> QED
    BY <1>1, <1>2, <2>1, WentOn DEF Find
<1>3. CASE Matches(val[t]) # {}
  BY <1>1, <1>3, FoundStep DEF Find
<1> QED
  BY <1>2, <1>3

LEMMA GetStep ==
    ASSUME IInv, NEW t \in Threads, Get(t)
    PROVE  IInv'
<1>1. pc[t] \in StringSteps \ WriterSteps
  BY DEF Get, StringSteps, WriterSteps
<1>2. CASE Matches(val[t]) = {}
  <2>1. val[t] \in Values
    BY <1>1 DEF IInv, CallsHaveArguments
  <2>2. known[t] = FALSE
    <3> SUFFICES ASSUME known[t] PROVE FALSE
      BY DEF IInv, TypeOK
    <3>1. PICK y \in Symbols : <<val[t], y>> \in observed
      BY <1>1 DEF IInv, KnownIsObserved
    <3> QED
      BY <1>2, <2>1, <3>1, AnsweredIsFound DEF Get
  <2>3. AnswerNone(t) /\ UNCHANGED <<shared, cache>>
    BY <1>2 DEF Get
  <2> QED
    BY <1>1, <2>2, <2>3, AnsweredNone
<1>3. CASE Matches(val[t]) # {}
  BY <1>1, <1>3, FoundStep DEF Get
<1> QED
  BY <1>2, <1>3

\* The cache may be filled by the use of other interners.
LEMMA OtherInternerStep ==
    ASSUME IInv, NEW t \in Interning, NEW v \in OtherValues,
           NEW y \in Symbols, OtherInterner(t, v, y)
    PROVE  IInv'
<1>1. t \in Threads /\ v \in Values /\ y \in Shards \X Nat
  BY HashAssumption, MaxIndexType DEF Threads, Symbols
<1>2. UNCHANGED <<entries, writer, pool, cursor, poisoned, len, chunks, slots,
                  pc, val, sym, idx, used, known, before, observed, denied>>
  BY DEF OtherInterner, shared, history
<1>3. CacheInsert(t, v, FALSE, y)
  BY DEF OtherInterner
<1>4. CachesAreRight' /\ cache' \in [Threads ->
         [{LineOf[x] : x \in Values} \X Ways -> CacheEntry \cup {None}]]
  BY <1>1, <1>2, <1>3, CachesAfterInsert
<1>5. TypeOK'
  BY <1>2, <1>4 DEF IInv, TypeOK
<1>6. /\ CallsHaveArguments' /\ LockIsHeld' /\ RecordsAreCounted'
      /\ SlotsAreRight' /\ EntriesAreStored' /\ EntriesAreDistinct'
  BY <1>2 DEF IInv, CallsHaveArguments, LockIsHeld, RecordsAreCounted,
              SlotsAreRight, EntriesAreStored, EntriesAreDistinct
<1>7. AnswersAreBacked' /\ KnownIsObserved' /\ NeverDenied'
  BY <1>2 DEF IInv, AnswersAreBacked, Backed, KnownIsObserved, NeverDenied
<1> QED
  BY <1>4, <1>5, <1>6, <1>7 DEF IInv

LEMMA BytesStep ==
    ASSUME IInv, NEW t \in Saving, Bytes(t)
    PROVE  IInv'
<1>1. t \in Threads /\ pc[t] \notin WriterSteps /\ pc[t] = "idle"
  BY DEF Bytes, Threads, WriterSteps
<1>2. UNCHANGED <<entries, writer, pool, cursor, poisoned, len, chunks, slots,
                  cache, val, sym, idx, used, known, observed, denied>>
  BY DEF Bytes, shared
<1>3. "save" \in Steps /\ "save" \notin WriterSteps
      /\ "save" \notin StringSteps /\ "save" \notin ResolveSteps
  BY DEF Steps, WriterSteps, StringSteps, ResolveSteps
<1>4. pc' = [pc EXCEPT ![t] = "save"] /\ pc' \in [Threads -> Steps]
      /\ pc'[t] = "save" /\ \A u \in Threads \ {t} : pc'[u] = pc[u]
  BY <1>1, <1>3 DEF Bytes, Goto, IInv, TypeOK
<1>5. TypeOK'
  <2>1. before' \in [Threads -> SUBSET (Values \X Symbols)]
    BY DEF Bytes, IInv, TypeOK
  <2> QED
    BY <1>2, <1>4, <2>1 DEF IInv, TypeOK
<1>6. CallsHaveArguments' /\ KnownIsObserved'
  BY <1>1, <1>2, <1>3, <1>4, CallsKept
<1>7. /\ LockIsHeld' /\ RecordsAreCounted' /\ SlotsAreRight'
      /\ EntriesAreStored' /\ EntriesAreDistinct'
  <2>1. UNCHANGED shared
    BY DEF Bytes
  <2> QED
    BY <1>1, <1>2, <1>3, <1>4, <2>1, SharedKept
<1>8. AnswersAreBacked' /\ CachesAreRight' /\ NeverDenied'
  BY <1>2, AnswersKept, CachesKept DEF IInv, NeverDenied
<1> QED
  BY <1>5, <1>6, <1>7, <1>8 DEF IInv

LEMMA LoadCursorStep ==
    ASSUME IInv, NEW t \in Threads, LoadCursor(t)
    PROVE  IInv'
<1>1. UNCHANGED <<entries, writer, pool, cursor, poisoned, len, chunks, slots,
                  cache, pc, val, sym, idx, known, before, observed, denied>>
  BY DEF LoadCursor, shared, history
<1>2. used' \in [Threads -> Seq(Nat)]
  <2>1. used[t] \in Seq(Nat) /\ Len(used[t]) \in Shards
    BY SMTT(30), SizesAssumption DEF LoadCursor, IInv, TypeOK, Shards
  <2>2. Len(pool[Len(used[t])]) \in Nat
    BY <2>1 DEF IInv, TypeOK
  <2>3. Append(used[t], Len(pool[Len(used[t])])) \in Seq(Nat)
    BY <2>1, <2>2
  <2> QED
    BY <2>3 DEF LoadCursor, IInv, TypeOK
<1>3. TypeOK'
  BY <1>1, <1>2 DEF IInv, TypeOK
<1>4. /\ CallsHaveArguments' /\ LockIsHeld' /\ RecordsAreCounted'
      /\ SlotsAreRight' /\ EntriesAreStored' /\ EntriesAreDistinct'
  BY <1>1 DEF IInv, CallsHaveArguments, LockIsHeld, RecordsAreCounted,
              SlotsAreRight, EntriesAreStored, EntriesAreDistinct
<1>5. AnswersAreBacked' /\ KnownIsObserved' /\ NeverDenied'
  BY <1>1 DEF IInv, AnswersAreBacked, Backed, KnownIsObserved, NeverDenied
<1>6. CachesAreRight'
  BY <1>1, CachesKept
<1> QED
  BY <1>3, <1>4, <1>5, <1>6 DEF IInv

LEMMA CopiedStep ==
    ASSUME IInv, NEW t \in Threads, Copied(t)
    PROVE  IInv'
<1>1. pc[t] \notin WriterSteps /\ Leave(t)
  BY DEF Copied, WriterSteps
<1>2. UNCHANGED <<entries, writer, pool, cursor, poisoned, len, chunks, slots,
                  cache, observed, denied>>
  BY DEF Copied, shared
<1>3. TypeOK'
  <2>1. before' \in [Threads -> SUBSET (Values \X Symbols)]
    BY DEF Copied, IInv, TypeOK
  <2> QED
    BY <1>1, <1>2, <2>1, Left DEF IInv, TypeOK
<1>4. CallsHaveArguments' /\ KnownIsObserved'
  BY <1>1, <1>2, CallsLeft
<1>5. /\ LockIsHeld' /\ RecordsAreCounted' /\ SlotsAreRight'
      /\ EntriesAreStored' /\ EntriesAreDistinct'
  <2>1. "idle" \notin WriterSteps /\ UNCHANGED shared
    BY DEF WriterSteps, Copied
  <2> QED
    BY <1>1, <2>1, Left, SharedKept
<1>6. AnswersAreBacked' /\ CachesAreRight' /\ NeverDenied'
  BY <1>2, AnswersKept, CachesKept DEF IInv, NeverDenied
<1> QED
  BY <1>3, <1>4, <1>5, <1>6 DEF IInv

-----------------------------------------------------------------------------
(* Steps of the write section.                                             *)

\* The thread in a write section has a string and holds its shard's lock.
LEMMA InSection ==
    ASSUME IInv, NEW t \in Threads, pc[t] \in WriterSteps
    PROVE  /\ t \in Interning /\ t # None /\ val[t] \in Values
           /\ ShardOf[val[t]] \in Shards
           /\ writer[ShardOf[val[t]]] = t
           /\ \A r \in Shards \ {ShardOf[val[t]]} :
                 writer[r] # None => writer[r] \in Threads \ {t}
<1>1. t \in Interning /\ t # None /\ val[t] \in Values
  BY NoneAssumption DEF IInv, CallsHaveArguments, StringSteps
<1>2. ShardOf[val[t]] \in Shards
  BY <1>1, ShardsOfValues
<1> QED
  BY <1>1, <1>2 DEF IInv, LockIsHeld, TypeOK, Threads

\* A step inside the write section of t, seen from the rest of the invariant.
LEMMA SectionKept ==
    ASSUME IInv, NEW t \in Threads, pc[t] \in WriterSteps,
           NEW step \in WriterSteps, Goto(t, step),
           UNCHANGED <<writer, cache, val, sym, used, known, history>>,
           \A s \in Shards, i \in Indices :
               slots[s][i] # 0 => slots'[s][i] # 0,
           \A s \in Shards : \A n \in 1..Len(pool[s]) : pool'[s][n] = pool[s][n]
    PROVE  /\ CallsHaveArguments' /\ KnownIsObserved' /\ LockIsHeld'
           /\ AnswersAreBacked' /\ CachesAreRight' /\ NeverDenied'
           /\ pc' \in [Threads -> Steps] /\ pc'[t] = step
           /\ \A r \in Shards \ {ShardOf[val[t]]} :
                 writer[r] # None => pc'[writer[r]] = pc[writer[r]]
<1>1. UNCHANGED <<before, observed, denied>>
  BY DEF history
<1>2. WriterSteps \subseteq Steps /\ WriterSteps \subseteq StringSteps
      /\ WriterSteps \cap ResolveSteps = {}
  BY DEF WriterSteps, Steps, StringSteps, ResolveSteps
<1>3. /\ pc' \in [Threads -> Steps] /\ pc'[t] = step
      /\ \A u \in Threads \ {t} : pc'[u] = pc[u]
  BY <1>2 DEF Goto, IInv, TypeOK
<1>4. CallsHaveArguments' /\ KnownIsObserved'
  <2>1. t \in Interning /\ val[t] \in Values
    BY InSection
  <2>2. known[t] => \E y \in Symbols : <<val[t], y>> \in observed
    BY <1>2 DEF IInv, KnownIsObserved
  <2>3. pc'[t] \in StringSteps /\ pc'[t] \notin ResolveSteps
    BY <1>2, <1>3
  <2> QED
    BY <1>1, <1>3, <2>1, <2>2, <2>3, CallsKept
<1>5. LockIsHeld'
  BY <1>3 DEF IInv, LockIsHeld
<1>6. AnswersAreBacked' /\ CachesAreRight' /\ NeverDenied'
  BY <1>1, AnswersKept, CachesKept DEF IInv, NeverDenied
<1>7. \A r \in Shards \ {ShardOf[val[t]]} :
         writer[r] # None => pc'[writer[r]] = pc[writer[r]]
  BY <1>3, InSection
<1> QED
  BY <1>3, <1>4, <1>5, <1>6, <1>7

LEMMA AllocStep ==
    ASSUME IInv, NEW t \in Threads, Alloc(t)
    PROVE  IInv'
<1> DEFINE s == ShardOf[val[t]]
           v == val[t]
<1>1. pc[t] = "alloc" /\ pc[t] \in WriterSteps /\ "len" \in WriterSteps
  BY DEF Alloc, WriterSteps
<1>2. /\ s \in Shards /\ v \in Values /\ writer[s] = t /\ t # None
      /\ \A r \in Shards \ {s} : writer[r] # t
  BY <1>1, InSection
<1>3. /\ pool' = [pool EXCEPT ![s] = Append(pool[s], v)]
      /\ cursor' = [cursor EXCEPT ![s] = cursor[s] + SizeOf[v]]
      /\ UNCHANGED <<entries, writer, poisoned, len, chunks, slots, cache,
                     val, sym, idx, used, known, history>>
      /\ UNCHANGED <<before, observed, denied>>
      /\ Goto(t, "len")
  BY DEF Alloc, history
<1>4. pool[s] \in Seq(Values) /\ Len(pool[s]) = len[s] /\ len[s] \in Nat
  BY <1>1, <1>2 DEF IInv, TypeOK, RecordsAreCounted
<1> HIDE DEF s, v
<1>5. /\ pool'[s] = Append(pool[s], v) /\ pool'[s] \in Seq(Values)
      /\ Len(pool'[s]) = Len(pool[s]) + 1
      /\ pool'[s][Len(pool[s]) + 1] = v
      /\ \A n \in 1..Len(pool[s]) : pool'[s][n] = pool[s][n]
      /\ \A r \in Shards \ {s} : pool'[r] = pool[r]
  <2>1. pool'[s] = Append(pool[s], v)
    BY <1>2, <1>3 DEF IInv, TypeOK
  <2>2. \A r \in Shards \ {s} : pool'[r] = pool[r]
    BY <1>2, <1>3 DEF IInv, TypeOK
  <2> QED
    BY <1>2, <1>4, <2>1, <2>2
<1>6. \A r \in Shards : \A n \in 1..Len(pool[r]) : pool'[r][n] = pool[r][n]
  BY <1>5
<1>7. /\ CallsHaveArguments' /\ KnownIsObserved' /\ LockIsHeld'
      /\ AnswersAreBacked' /\ CachesAreRight' /\ NeverDenied'
      /\ pc' \in [Threads -> Steps] /\ pc'[t] = "len"
      /\ \A r \in Shards \ {s} :
            writer[r] # None => pc'[writer[r]] = pc[writer[r]]
  BY <1>1, <1>3, <1>6, SectionKept DEF s
<1>8. TypeOK'
  <2>1. pool' \in [Shards -> Seq(Values)]
    BY <1>2, <1>3, <1>5 DEF IInv, TypeOK
  <2>2. cursor' \in [Shards -> Nat]
    <3>1. SizeOf[v] \in Nat /\ cursor[s] \in Nat
      BY <1>2, SizesAssumption DEF IInv, TypeOK
    <3>2. cursor[s] + SizeOf[v] \in Nat
      BY <3>1
    <3> QED
      BY <1>2, <1>3, <3>2 DEF IInv, TypeOK
  <2> QED
    BY <1>3, <1>7, <2>1, <2>2 DEF IInv, TypeOK
<1>9. RecordsAreCounted'
  <2> SUFFICES ASSUME NEW r \in Shards
               PROVE  RecordsAreCounted!(r)'
    BY DEF RecordsAreCounted
  <2>1. CASE r = s
    <3>1. /\ writer' = writer /\ len' = len /\ val' = val
          /\ writer[s] = t /\ val[t] = v /\ t # None
      BY <1>1, <1>2, <1>3 DEF v
    <3>2. \A n \in 1..Len(pool'[s]) : ShardOf[pool'[s][n]] = s
      <4>1. ShardOf[v] = s
        BY DEF s, v
      <4>2. \A n \in 1..Len(pool[s]) : ShardOf[pool[s][n]] = s
        BY <1>2 DEF IInv, RecordsAreCounted
      <4> QED
        BY <1>4, <1>5, <4>1, <4>2
    <3>3. /\ Len(pool'[s]) = len'[s] + 1
          /\ pool'[s][Len(pool'[s])] = v
      BY <1>4, <1>5, <3>1
    <3>4. pc'[writer'[s]] = "len" /\ val'[writer'[s]] = v /\ writer'[s] # None
      BY <1>7, <3>1
    <3> QED
      BY <2>1, <3>2, <3>3, <3>4 DEF PushSteps
  <2>2. CASE r # s
    BY <1>3, <1>5, <1>7, <2>2 DEF IInv, RecordsAreCounted
  <2> QED
    BY <2>1, <2>2
<1>10. SlotsAreRight'
  BY <1>2, <1>3, <1>7 DEF IInv, SlotsAreRight
<1>11. EntriesAreStored'
  BY <1>1, <1>2, <1>3, <1>7 DEF IInv, EntriesAreStored, PushSteps
<1>12. EntriesAreDistinct'
  <2>1. \A r \in Shards : \A i \in entries[r] : i + 1 \in 1..Len(pool[r])
    BY TableEntry, StoredSlot
  <2>2. \A r \in Shards : \A i \in entries[r] :
           pool'[r][i + 1] = pool[r][i + 1]
    BY <1>6, <2>1
  <2>3. UNCHANGED <<entries, writer, val>>
    BY <1>3
  <2> SUFFICES ASSUME NEW r \in Shards
               PROVE  EntriesAreDistinct!(r)'
    BY DEF EntriesAreDistinct
  <2>4. EntriesAreDistinct!(r)
    BY DEF IInv, EntriesAreDistinct
  <2> QED
    BY <2>2, <2>3, <2>4
<1> QED
  BY <1>7, <1>8, <1>9, <1>10, <1>11, <1>12 DEF IInv

LEMMA PushLenStep ==
    ASSUME IInv, NEW t \in Threads, PushLen(t)
    PROVE  IInv'
<1> DEFINE s == ShardOf[val[t]]
<1>1. pc[t] = "len" /\ pc[t] \in WriterSteps /\ "chunk" \in WriterSteps
  BY DEF PushLen, WriterSteps
<1>2. /\ s \in Shards /\ writer[s] = t /\ t # None
      /\ \A r \in Shards \ {s} : writer[r] # None => writer[r] \in Threads \ {t}
  BY <1>1, InSection
<1>3. /\ idx' = [idx EXCEPT ![t] = len[s]]
      /\ len' = [len EXCEPT ![s] = len[s] + 1]
      /\ UNCHANGED <<entries, writer, pool, cursor, poisoned, chunks, slots,
                     cache, val, sym, used, known, history>>
      /\ UNCHANGED <<before, observed, denied>>
      /\ Goto(t, "chunk")
  BY DEF PushLen, history
<1>4. /\ CallsHaveArguments' /\ KnownIsObserved' /\ LockIsHeld'
      /\ AnswersAreBacked' /\ CachesAreRight' /\ NeverDenied'
      /\ pc' \in [Threads -> Steps] /\ pc'[t] = "chunk"
      /\ \A r \in Shards \ {s} :
            writer[r] # None => pc'[writer[r]] = pc[writer[r]]
  BY <1>1, <1>3, SectionKept
<1> HIDE DEF s
<1>5. /\ len[s] \in Nat /\ len'[s] = len[s] + 1 /\ idx'[t] = len[s]
      /\ \A r \in Shards \ {s} : len'[r] = len[r]
      /\ \A r \in Shards \ {s} :
            writer[r] # None => idx'[writer[r]] = idx[writer[r]]
  BY <1>2, <1>3 DEF IInv, TypeOK
<1>6. /\ Len(pool[s]) = len[s] + 1
      /\ pool[s][Len(pool[s])] = val[t]
  BY <1>1, <1>2 DEF IInv, RecordsAreCounted
<1>7. TypeOK'
  <2>1. len' \in [Shards -> Nat] /\ idx' \in [Threads -> Nat]
    BY <1>2, <1>3, <1>5 DEF IInv, TypeOK
  <2> QED
    BY <1>3, <1>4, <2>1 DEF IInv, TypeOK
<1>8. RecordsAreCounted'
  <2> SUFFICES ASSUME NEW r \in Shards
               PROVE  RecordsAreCounted!(r)'
    BY DEF RecordsAreCounted
  <2>0. RecordsAreCounted!(r)
    BY DEF IInv, RecordsAreCounted
  <2>1. CASE r = s
    BY <1>2, <1>3, <1>4, <1>5, <1>6, <2>0, <2>1
  <2>2. CASE r # s
    BY <1>3, <1>4, <1>5, <2>0, <2>2
  <2> QED
    BY <2>1, <2>2
<1>9. SlotsAreRight'
  <2> SUFFICES ASSUME NEW r \in Shards
               PROVE  SlotsAreRight!(r)'
    BY DEF SlotsAreRight
  <2>0. SlotsAreRight!(r)
    BY DEF IInv, SlotsAreRight
  <2>1. CASE r = s
    BY <1>2, <1>3, <1>4, <1>5, <2>0, <2>1, MaxIndexType DEF Indices
  <2>2. CASE r # s
    BY <1>3, <1>4, <1>5, <2>0, <2>2
  <2> QED
    BY <2>1, <2>2
<1>10. EntriesAreStored'
  <2> SUFFICES ASSUME NEW r \in Shards
               PROVE  EntriesAreStored!(r)'
    BY DEF EntriesAreStored
  <2>0. EntriesAreStored!(r)
    BY DEF IInv, EntriesAreStored
  <2>1. CASE r = s
    BY <1>1, <1>2, <1>3, <1>4, <1>5, <2>0, <2>1 DEF PushSteps
  <2>2. CASE r # s
    BY <1>3, <1>4, <1>5, <2>0, <2>2
  <2> QED
    BY <2>1, <2>2
<1>11. EntriesAreDistinct'
  BY <1>3 DEF IInv, EntriesAreDistinct
<1> QED
  BY <1>4, <1>7, <1>8, <1>9, <1>10, <1>11 DEF IInv

LEMMA PushChunkStep ==
    ASSUME IInv, NEW t \in Threads, PushChunk(t)
    PROVE  IInv'
<1> DEFINE s == ShardOf[val[t]]
           c == ChunkOf(idx[t])
<1>1. pc[t] = "chunk" /\ pc[t] \in WriterSteps /\ "slot" \in WriterSteps
  BY DEF PushChunk, WriterSteps
<1>2. /\ s \in Shards /\ writer[s] = t /\ t # None
  BY <1>1, InSection
<1>3. /\ chunks' = [chunks EXCEPT ![s] = chunks[s] \cup {c}]
      /\ UNCHANGED <<entries, writer, pool, cursor, poisoned, len, slots,
                     cache, val, sym, idx, used, known, history>>
      /\ UNCHANGED <<before, observed, denied>>
      /\ Goto(t, "slot")
  BY DEF PushChunk, history
<1>4. /\ CallsHaveArguments' /\ KnownIsObserved' /\ LockIsHeld'
      /\ AnswersAreBacked' /\ CachesAreRight' /\ NeverDenied'
      /\ pc' \in [Threads -> Steps] /\ pc'[t] = "slot"
      /\ \A r \in Shards \ {s} :
            writer[r] # None => pc'[writer[r]] = pc[writer[r]]
  BY <1>1, <1>3, SectionKept
<1>5. idx[t] \in Indices /\ c \in 0..(NumChunks - 1)
  <2>1. idx[t] \in Nat
    BY DEF IInv, TypeOK
  <2> QED
    BY <2>1, ChunkBound, SizesAssumption DEF PushChunk
<1> HIDE DEF s, c
<1>6. /\ chunks'[s] = chunks[s] \cup {c}
      /\ \A r \in Shards : chunks[r] \subseteq chunks'[r]
      /\ \A r \in Shards \ {s} : chunks'[r] = chunks[r]
  BY <1>2, <1>3 DEF IInv, TypeOK
<1>7. TypeOK'
  <2>1. chunks' \in [Shards -> SUBSET (0..(NumChunks - 1))]
    BY <1>2, <1>3, <1>5 DEF IInv, TypeOK
  <2> QED
    BY <1>3, <1>4, <2>1 DEF IInv, TypeOK
<1>8. RecordsAreCounted'
  <2> SUFFICES ASSUME NEW r \in Shards
               PROVE  RecordsAreCounted!(r)'
    BY DEF RecordsAreCounted
  <2>0. RecordsAreCounted!(r)
    BY DEF IInv, RecordsAreCounted
  <2>1. CASE r = s
    BY <1>1, <1>2, <1>3, <1>4, <2>0, <2>1 DEF PushSteps
  <2>2. CASE r # s
    BY <1>3, <1>4, <2>0, <2>2
  <2> QED
    BY <2>1, <2>2
<1>9. SlotsAreRight'
  <2> SUFFICES ASSUME NEW r \in Shards
               PROVE  SlotsAreRight!(r)'
    BY DEF SlotsAreRight
  <2>0. SlotsAreRight!(r)
    BY DEF IInv, SlotsAreRight
  <2>1. CASE r = s
    BY <1>2, <1>3, <1>4, <1>5, <1>6, <2>0, <2>1 DEF c
  <2>2. CASE r # s
    BY <1>3, <1>4, <1>6, <2>0, <2>2
  <2> QED
    BY <2>1, <2>2
<1>10. EntriesAreStored'
  <2> SUFFICES ASSUME NEW r \in Shards
               PROVE  EntriesAreStored!(r)'
    BY DEF EntriesAreStored
  <2>0. EntriesAreStored!(r)
    BY DEF IInv, EntriesAreStored
  <2>1. CASE r = s
    BY <1>1, <1>2, <1>3, <1>4, <2>0, <2>1 DEF PushSteps
  <2>2. CASE r # s
    BY <1>3, <1>4, <2>0, <2>2
  <2> QED
    BY <2>1, <2>2
<1>11. EntriesAreDistinct'
  BY <1>3 DEF IInv, EntriesAreDistinct
<1> QED
  BY <1>4, <1>7, <1>8, <1>9, <1>10, <1>11 DEF IInv

LEMMA PushSlotStep ==
    ASSUME IInv, NEW t \in Threads, PushSlot(t)
    PROVE  IInv'
<1> DEFINE s == ShardOf[val[t]]
           i == idx[t]
<1>1. pc[t] = "slot" /\ pc[t] \in WriterSteps /\ "insert" \in WriterSteps
  BY DEF PushSlot, WriterSteps
<1>2. /\ s \in Shards /\ writer[s] = t /\ t # None
  BY <1>1, InSection
<1>3. /\ slots' = [slots EXCEPT ![s][i] = Len(pool[s])]
      /\ UNCHANGED <<entries, writer, pool, cursor, poisoned, len, chunks,
                     cache, val, sym, idx, used, known, history>>
      /\ UNCHANGED <<before, observed, denied>>
      /\ Goto(t, "insert")
  BY DEF PushSlot, history
<1> HIDE DEF s, i
<1>4. /\ i \in Indices /\ i \in Nat /\ ChunkOf(i) \in chunks[s]
      /\ len[s] = i + 1 /\ Len(pool[s]) = i + 1
  BY <1>1, <1>2 DEF IInv, TypeOK, SlotsAreRight, RecordsAreCounted, PushSteps, i
<1>5. /\ slots'[s][i] = i + 1
      /\ \A r \in Shards, j \in Indices :
            r # s \/ j # i => slots'[r][j] = slots[r][j]
      /\ \A r \in Shards, j \in Indices :
            slots[r][j] # 0 => slots'[r][j] # 0
  <2>1. slots'[s][i] = i + 1 /\ i + 1 # 0
    BY <1>2, <1>3, <1>4 DEF IInv, TypeOK
  <2>2. \A r \in Shards, j \in Indices :
           r # s \/ j # i => slots'[r][j] = slots[r][j]
    BY <1>2, <1>3, <1>4 DEF IInv, TypeOK
  <2> QED
    BY <2>1, <2>2
<1>6. /\ CallsHaveArguments' /\ KnownIsObserved' /\ LockIsHeld'
      /\ AnswersAreBacked' /\ CachesAreRight' /\ NeverDenied'
      /\ pc' \in [Threads -> Steps] /\ pc'[t] = "insert"
      /\ \A r \in Shards \ {s} :
            writer[r] # None => pc'[writer[r]] = pc[writer[r]]
  BY <1>1, <1>3, <1>5, SectionKept DEF s
<1>7. TypeOK'
  <2>1. slots' \in [Shards -> [Indices -> Nat]]
    BY <1>2, <1>3, <1>4 DEF IInv, TypeOK
  <2> QED
    BY <1>3, <1>6, <2>1 DEF IInv, TypeOK
<1>8. RecordsAreCounted'
  <2> SUFFICES ASSUME NEW r \in Shards
               PROVE  RecordsAreCounted!(r)'
    BY DEF RecordsAreCounted
  <2>0. RecordsAreCounted!(r)
    BY DEF IInv, RecordsAreCounted
  <2>1. CASE r = s
    BY <1>1, <1>2, <1>3, <1>6, <2>0, <2>1 DEF PushSteps
  <2>2. CASE r # s
    BY <1>3, <1>6, <2>0, <2>2
  <2> QED
    BY <2>1, <2>2
<1>9. SlotsAreRight'
  <2> SUFFICES ASSUME NEW r \in Shards
               PROVE  SlotsAreRight!(r)'
    BY DEF SlotsAreRight
  <2>0. SlotsAreRight!(r)
    BY DEF IInv, SlotsAreRight
  <2>1. CASE r = s
    <3>1. \A j \in Indices : slots'[r][j] # 0 =>
             slots'[r][j] = j + 1 /\ j < len[r] /\ ChunkOf(j) \in chunks[r]
      <4> SUFFICES ASSUME NEW j \in Indices, slots'[r][j] # 0
                   PROVE  /\ slots'[r][j] = j + 1 /\ j < len[r]
                          /\ ChunkOf(j) \in chunks[r]
        OBVIOUS
      <4>1. CASE j = i
        BY <1>4, <1>5, <2>1, <4>1
      <4>2. CASE j # i
        <5>1. slots'[r][j] = slots[r][j]
          BY <1>5, <4>2
        <5> QED
          BY <2>0, <5>1
      <4> QED
        BY <4>1, <4>2
    <3> QED
      BY <1>2, <1>3, <1>4, <1>5, <2>1, <3>1 DEF i
  <2>2. CASE r # s
    <3>1. \A j \in Indices : slots'[r][j] = slots[r][j]
      BY <1>5, <2>2
    <3> QED
      BY <1>3, <1>6, <2>0, <2>2, <3>1
  <2> QED
    BY <2>1, <2>2
<1>10. EntriesAreStored'
  <2> SUFFICES ASSUME NEW r \in Shards
               PROVE  EntriesAreStored!(r)'
    BY DEF EntriesAreStored
  <2>0. EntriesAreStored!(r)
    BY DEF IInv, EntriesAreStored
  <2>3. \A j \in entries[r] : slots'[r][j] # 0
    <3>1. entries[r] \subseteq Indices
      BY MaxIndexType DEF IInv, TypeOK, Indices
    <3> QED
      BY <1>5, <2>0, <3>1
  <2>1. CASE r = s
    BY <1>1, <1>2, <1>3, <1>6, <2>0, <2>1, <2>3 DEF PushSteps
  <2>2. CASE r # s
    BY <1>3, <1>6, <2>0, <2>2, <2>3
  <2> QED
    BY <2>1, <2>2
<1>11. EntriesAreDistinct'
  BY <1>3 DEF IInv, EntriesAreDistinct
<1> QED
  BY <1>6, <1>7, <1>8, <1>9, <1>10, <1>11 DEF IInv

LEMMA LockStep ==
    ASSUME IInv, NEW t \in Threads, Lock(t)
    PROVE  IInv'
<1> DEFINE s == ShardOf[val[t]]
<1>1. pc[t] = "lock" /\ pc[t] \in StringSteps \ WriterSteps
  BY DEF Lock, StringSteps, WriterSteps
<1>2. t \in Interning /\ val[t] \in Values /\ s \in Shards /\ t # None
      /\ writer[s] = None
  BY <1>1, ShardsOfValues, NoneAssumption DEF IInv, CallsHaveArguments, Lock
<1>3. CASE Matches(val[t]) # {}
  <2>1. UNCHANGED shared /\ \E i \in Matches(val[t]) : Found(t, i)
    BY <1>3 DEF Lock, shared
  <2> QED
    BY <1>1, <2>1, FoundStep
<1>4. CASE Matches(val[t]) = {}
  <2>1. /\ writer' = [writer EXCEPT ![s] = t] /\ Goto(t, "alloc")
        /\ UNCHANGED <<entries, pool, cursor, poisoned, len, chunks, slots,
                       cache, val, sym, idx, used, known>>
        /\ UNCHANGED <<before, observed, denied>>
    BY <1>4 DEF Lock, history
  <2>2. /\ pc' \in [Threads -> Steps] /\ pc'[t] = "alloc"
        /\ \A u \in Threads \ {t} : pc'[u] = pc[u]
    BY <2>1 DEF Goto, IInv, TypeOK, Steps
  <2>3. \A i \in entries[s] : pool[s][i + 1] # val[t]
    BY <1>2, <1>4, TableEntry DEF Matches
  <2>4. \A r \in Shards : writer[r] # t
    BY <1>1 DEF IInv, LockIsHeld
  <2>5. "alloc" \in WriterSteps /\ "alloc" \in StringSteps
        /\ "alloc" \notin ResolveSteps
    BY DEF WriterSteps, StringSteps, ResolveSteps
  <2>6. TypeOK'
    <3>1. writer' \in [Shards -> Interning \cup {None}]
      BY <1>2, <2>1 DEF IInv, TypeOK
    <3> QED
      BY <2>1, <2>2, <3>1 DEF IInv, TypeOK
  <2>7. CallsHaveArguments' /\ KnownIsObserved'
    <3>1. known[t] => \E y \in Symbols : <<val[t], y>> \in observed
      BY <1>1 DEF IInv, KnownIsObserved
    <3> QED
      BY <1>2, <2>1, <2>2, <2>5, <3>1, CallsKept
  <2>8. AnswersAreBacked' /\ CachesAreRight' /\ NeverDenied'
    BY <2>1, AnswersKept, CachesKept DEF IInv, NeverDenied
  <2> HIDE DEF s
  <2>9. /\ writer'[s] = t
        /\ \A r \in Shards \ {s} : writer'[r] = writer[r]
        /\ \A r \in Shards \ {s} : writer[r] # None =>
              pc'[writer[r]] = pc[writer[r]]
    BY <1>2, <2>1, <2>2, <2>4 DEF IInv, TypeOK, Threads
  <2>10. LockIsHeld'
    <3> SUFFICES ASSUME NEW u \in Threads, NEW r \in Shards
                 PROVE  writer'[r] = u <=>
                          pc'[u] \in WriterSteps /\ ShardOf[val[u]] = r
      BY <2>1 DEF LockIsHeld
    <3>0. writer[r] = u <=> pc[u] \in WriterSteps /\ ShardOf[val[u]] = r
      BY DEF IInv, LockIsHeld
    <3>1. CASE u = t /\ r = s
      BY <2>2, <2>5, <2>9, <3>1 DEF s
    <3>2. CASE u = t /\ r # s
      BY <2>4, <2>9, <3>2 DEF s
    <3>3. CASE u # t /\ r = s
      <4>1. u # None
        BY NoneAssumption
      <4> QED
        BY <1>2, <2>2, <2>9, <3>0, <3>3, <4>1
    <3>4. CASE u # t /\ r # s
      BY <2>2, <2>9, <3>0, <3>4
    <3> QED
      BY <3>1, <3>2, <3>3, <3>4
  <2>11. RecordsAreCounted'
    <3> SUFFICES ASSUME NEW r \in Shards
                 PROVE  RecordsAreCounted!(r)'
      BY DEF RecordsAreCounted
    <3>0. RecordsAreCounted!(r)
      BY DEF IInv, RecordsAreCounted
    <3>1. CASE r = s
      BY <1>2, <2>1, <2>2, <2>9, <3>0, <3>1 DEF PushSteps
    <3>2. CASE r # s
      BY <2>1, <2>9, <3>0, <3>2
    <3> QED
      BY <3>1, <3>2
  <2>12. SlotsAreRight'
    <3> SUFFICES ASSUME NEW r \in Shards
                 PROVE  SlotsAreRight!(r)'
      BY DEF SlotsAreRight
    <3>0. SlotsAreRight!(r)
      BY DEF IInv, SlotsAreRight
    <3>1. CASE r = s
      BY <1>2, <2>1, <2>2, <2>9, <3>0, <3>1
    <3>2. CASE r # s
      BY <2>1, <2>9, <3>0, <3>2
    <3> QED
      BY <3>1, <3>2
  <2>13. EntriesAreStored'
    <3> SUFFICES ASSUME NEW r \in Shards
                 PROVE  EntriesAreStored!(r)'
      BY DEF EntriesAreStored
    <3>0. EntriesAreStored!(r)
      BY DEF IInv, EntriesAreStored
    <3>1. CASE r = s
      BY <1>2, <2>1, <2>2, <2>9, <3>0, <3>1
    <3>2. CASE r # s
      BY <2>1, <2>9, <3>0, <3>2
    <3> QED
      BY <3>1, <3>2
  <2>14. EntriesAreDistinct'
    <3> SUFFICES ASSUME NEW r \in Shards
                 PROVE  EntriesAreDistinct!(r)'
      BY DEF EntriesAreDistinct
    <3>0. EntriesAreDistinct!(r)
      BY DEF IInv, EntriesAreDistinct
    <3>1. CASE r = s
      BY <2>1, <2>3, <2>9, <3>0, <3>1
    <3>2. CASE r # s
      BY <2>1, <2>9, <3>0, <3>2
    <3> QED
      BY <3>1, <3>2
  <2> QED
    BY <2>6, <2>7, <2>8, <2>10, <2>11, <2>12, <2>13, <2>14 DEF IInv
<1> QED
  BY <1>3, <1>4

\* A panic in a write section, after which no stored slot is missing from
\* the table.
LEMMA PanicStep ==
    ASSUME IInv, NEW t \in Threads, pc[t] \in WriterSteps \ {"len"}, Panic(t),
           pc[t] \in PushSteps => idx[t] >= MaxIndex,
           UNCHANGED <<entries, pool, cursor, len, chunks, slots>>,
           poisoned' \subseteq Shards
    PROVE  IInv'
<1> DEFINE s == ShardOf[val[t]]
<1>1. /\ Leave(t) /\ writer' = [writer EXCEPT ![s] = None]
      /\ UNCHANGED <<cache, before, observed, denied>>
  BY DEF Panic, Unlock, history
<1>2. /\ s \in Shards /\ writer[s] = t /\ t # None
      /\ \A r \in Shards \ {s} : writer[r] # None => writer[r] \in Threads \ {t}
  BY InSection
<1> HIDE DEF s
<1>3. /\ pc'[t] = "idle"
      /\ \A u \in Threads \ {t} :
            pc'[u] = pc[u] /\ val'[u] = val[u] /\ idx'[u] = idx[u]
  BY <1>1, Left
<1>4. /\ writer'[s] = None
      /\ \A r \in Shards \ {s} : writer'[r] = writer[r]
      /\ \A r \in Shards \ {s} : writer[r] # None =>
            /\ pc'[writer[r]] = pc[writer[r]]
            /\ val'[writer[r]] = val[writer[r]]
            /\ idx'[writer[r]] = idx[writer[r]]
  BY <1>1, <1>2, <1>3 DEF IInv, TypeOK
<1>5. TypeOK'
  <2>1. writer' \in [Shards -> Interning \cup {None}]
    BY <1>1, <1>2 DEF IInv, TypeOK
  <2> QED
    BY <1>1, <2>1, Left DEF IInv, TypeOK
<1>6. CallsHaveArguments' /\ KnownIsObserved'
  BY <1>1, CallsLeft
<1>7. AnswersAreBacked' /\ CachesAreRight' /\ NeverDenied'
  BY <1>1, AnswersKept, CachesKept DEF IInv, NeverDenied
<1>8. LockIsHeld'
  <2> SUFFICES ASSUME NEW u \in Threads, NEW r \in Shards
               PROVE  writer'[r] = u <=>
                        pc'[u] \in WriterSteps /\ ShardOf[val'[u]] = r
    BY DEF LockIsHeld
  <2>0. /\ writer[r] = u <=> pc[u] \in WriterSteps /\ ShardOf[val[u]] = r
        /\ u # None
    BY NoneAssumption DEF IInv, LockIsHeld
  <2>1. CASE u = t
    BY <1>2, <1>3, <1>4, <2>0, <2>1 DEF WriterSteps
  <2>2. CASE u # t
    BY <1>2, <1>3, <1>4, <2>0, <2>2
  <2> QED
    BY <2>1, <2>2
<1>9. RecordsAreCounted'
  <2> SUFFICES ASSUME NEW r \in Shards
               PROVE  RecordsAreCounted!(r)'
    BY DEF RecordsAreCounted
  <2>0. RecordsAreCounted!(r)
    BY DEF IInv, RecordsAreCounted
  <2>1. CASE r = s
    BY <1>2, <1>4, <2>0, <2>1
  <2>2. CASE r # s
    BY <1>4, <2>0, <2>2
  <2> QED
    BY <2>1, <2>2
<1>10. SlotsAreRight'
  <2> SUFFICES ASSUME NEW r \in Shards
               PROVE  SlotsAreRight!(r)'
    BY DEF SlotsAreRight
  <2>0. SlotsAreRight!(r)
    BY DEF IInv, SlotsAreRight
  <2>1. CASE r = s
    BY <1>4, <2>0, <2>1
  <2>2. CASE r # s
    BY <1>4, <2>0, <2>2
  <2> QED
    BY <2>1, <2>2
<1>11. EntriesAreStored'
  <2> SUFFICES ASSUME NEW r \in Shards
               PROVE  EntriesAreStored!(r)'
    BY DEF EntriesAreStored
  <2>0. EntriesAreStored!(r)
    BY DEF IInv, EntriesAreStored
  <2>1. CASE r = s
    <3>1. \A i \in 0..(MaxIndex - 1) : i < len[s] => i \in entries[s]
      BY <1>2, <2>0, <2>1, MaxIndexType
    <3> QED
      BY <1>4, <2>0, <2>1, <3>1
  <2>2. CASE r # s
    BY <1>4, <2>0, <2>2
  <2> QED
    BY <2>1, <2>2
<1>12. EntriesAreDistinct'
  <2> SUFFICES ASSUME NEW r \in Shards
               PROVE  EntriesAreDistinct!(r)'
    BY DEF EntriesAreDistinct
  <2>0. EntriesAreDistinct!(r)
    BY DEF IInv, EntriesAreDistinct
  <2>1. CASE r = s
    BY <1>4, <2>0, <2>1
  <2>2. CASE r # s
    BY <1>4, <2>0, <2>2
  <2> QED
    BY <2>1, <2>2
<1> QED
  BY <1>5, <1>6, <1>7, <1>8, <1>9, <1>10, <1>11, <1>12 DEF IInv

LEMMA AllocPanicStep ==
    ASSUME IInv, NEW t \in Threads, AllocPanic(t)
    PROVE  IInv'
<1>1. pc[t] = "alloc" /\ pc[t] \in WriterSteps \ {"len"} /\ pc[t] \notin PushSteps
  BY DEF AllocPanic, WriterSteps, PushSteps
<1>2. poisoned' \subseteq Shards
  <2>1. ShardOf[val[t]] \in Shards
    BY <1>1, InSection
  <2> QED
    BY <2>1 DEF AllocPanic, IInv, TypeOK
<1> QED
  BY <1>1, <1>2, PanicStep DEF AllocPanic

LEMMA PushPanicStep ==
    ASSUME IInv, NEW t \in Threads, PushPanic(t)
    PROVE  IInv'
<1>1. pc[t] \in WriterSteps \ {"len"}
  BY DEF PushPanic, WriterSteps
<1>2. idx[t] >= MaxIndex
  <2>1. idx[t] \in Nat
    BY DEF IInv, TypeOK
  <2>2. idx[t] \notin Indices
    BY <2>1, ChunkBound, SizesAssumption DEF PushPanic
  <2> QED
    BY <2>1, <2>2, MaxIndexType DEF Indices
<1>3. UNCHANGED poisoned /\ poisoned' \subseteq Shards
  BY DEF PushPanic, IInv, TypeOK
<1> QED
  BY <1>1, <1>2, <1>3, PanicStep DEF PushPanic

LEMMA InsertPanicStep ==
    ASSUME IInv, NEW t \in Threads, InsertPanic(t)
    PROVE  IInv'
<1>1. pc[t] \in WriterSteps \ {"len"}
  BY DEF InsertPanic, WriterSteps
<1>2. poisoned' \subseteq Shards
  BY DEF InsertPanic, IInv, TypeOK
<1> QED
  BY <1>1, <1>2, PanicStep DEF InsertPanic

LEMMA InsertStep ==
    ASSUME IInv, NEW t \in Threads, Insert(t)
    PROVE  IInv'
<1> DEFINE s == ShardOf[val[t]]
           v == val[t]
           i == idx[t]
           y == <<s, i>>
<1>1. pc[t] = "insert" /\ pc[t] \in WriterSteps /\ pc[t] \in PushSteps
  BY DEF Insert, WriterSteps, PushSteps
<1>2. /\ s \in Shards /\ v \in Values /\ writer[s] = t /\ t # None
      /\ \A r \in Shards \ {s} : writer[r] # None => writer[r] \in Threads \ {t}
  BY <1>1, InSection
<1>3. i \in 0..(MaxIndex - 1) /\ y \in Symbols /\ y \in Shards \X Nat
  <2>1. i \in Nat /\ i < MaxIndex
    BY DEF Insert, IInv, TypeOK
  <2> QED
    BY <1>2, <2>1, MaxIndexType DEF Symbols
<1>4. /\ entries' = [entries EXCEPT ![s] = entries[s] \cup {i}]
      /\ writer' = [writer EXCEPT ![s] = None]
      /\ UNCHANGED <<pool, cursor, poisoned, len, chunks, slots>>
      /\ CacheInsert(t, v, TRUE, y) /\ Leave(t)
      /\ observed' = observed \cup {<<v, y>>}
      /\ UNCHANGED <<before, denied>>
  BY DEF Insert, Unlock, Found, Answer
<1>5. slots[s][i] # 0 /\ pool[s][i + 1] = v /\ len[s] = i + 1
  BY <1>1, <1>2 DEF IInv, SlotsAreRight, RecordsAreCounted, s, v, i
<1>6. Backed(v, y)
  BY <1>2, <1>3, <1>5 DEF Backed
<1>7. \A j \in entries[s] : pool[s][j + 1] # v
  BY <1>2 DEF IInv, EntriesAreDistinct, v
<1>8. /\ CachesAreRight'
      /\ cache' \in [Threads -> [{LineOf[x] : x \in Values} \X Ways
                                    -> CacheEntry \cup {None}]]
  <2>1. v \in Values /\ y \in Shards \X Nat /\ CacheInsert(t, v, TRUE, y)
        /\ observed \subseteq observed' /\ <<v, y>> \in observed'
    BY <1>2, <1>3, <1>4
  <2> HIDE DEF v, y
  <2> QED
    BY <2>1, CachesAfterInsert
<1> HIDE DEF s, v, i, y
<1>9. AnswersAreBacked'
  BY <1>4, <1>6, AnswersKept
<1>10. CallsHaveArguments' /\ KnownIsObserved'
  BY <1>4, CallsLeft
<1>11. NeverDenied'
  BY <1>4 DEF IInv, NeverDenied
<1>12. /\ pc'[t] = "idle"
       /\ \A u \in Threads \ {t} :
             pc'[u] = pc[u] /\ val'[u] = val[u] /\ idx'[u] = idx[u]
  BY <1>4, Left
<1>13. /\ writer'[s] = None /\ entries'[s] = entries[s] \cup {i}
       /\ \A r \in Shards \ {s} : writer'[r] = writer[r]
       /\ \A r \in Shards \ {s} : entries'[r] = entries[r]
       /\ \A r \in Shards \ {s} : writer[r] # None =>
             /\ pc'[writer[r]] = pc[writer[r]]
             /\ val'[writer[r]] = val[writer[r]]
             /\ idx'[writer[r]] = idx[writer[r]]
  BY <1>2, <1>4, <1>12 DEF IInv, TypeOK
<1>14. TypeOK'
  <2>1. writer' \in [Shards -> Interning \cup {None}]
    BY <1>2, <1>4 DEF IInv, TypeOK
  <2>2. entries' \in [Shards -> SUBSET (0..(MaxIndex - 1))]
    BY <1>2, <1>3, <1>4 DEF IInv, TypeOK
  <2>3. observed' \subseteq Values \X Symbols
    BY <1>2, <1>3, <1>4 DEF IInv, TypeOK
  <2> QED
    BY <1>4, <1>8, <2>1, <2>2, <2>3, Left DEF IInv, TypeOK
<1>15. LockIsHeld'
  <2> SUFFICES ASSUME NEW u \in Threads, NEW r \in Shards
               PROVE  writer'[r] = u <=>
                        pc'[u] \in WriterSteps /\ ShardOf[val'[u]] = r
    BY DEF LockIsHeld
  <2>0. /\ writer[r] = u <=> pc[u] \in WriterSteps /\ ShardOf[val[u]] = r
        /\ u # None
    BY NoneAssumption DEF IInv, LockIsHeld
  <2>1. CASE u = t
    BY <1>2, <1>12, <1>13, <2>0, <2>1 DEF WriterSteps
  <2>2. CASE u # t
    BY <1>2, <1>12, <1>13, <2>0, <2>2
  <2> QED
    BY <2>1, <2>2
<1>16. RecordsAreCounted'
  <2> SUFFICES ASSUME NEW r \in Shards
               PROVE  RecordsAreCounted!(r)'
    BY DEF RecordsAreCounted
  <2>0. RecordsAreCounted!(r)
    BY DEF IInv, RecordsAreCounted
  <2>1. CASE r = s
    BY <1>1, <1>2, <1>4, <1>13, <2>0, <2>1
  <2>2. CASE r # s
    BY <1>4, <1>13, <2>0, <2>2
  <2> QED
    BY <2>1, <2>2
<1>17. SlotsAreRight'
  <2> SUFFICES ASSUME NEW r \in Shards
               PROVE  SlotsAreRight!(r)'
    BY DEF SlotsAreRight
  <2>0. SlotsAreRight!(r)
    BY DEF IInv, SlotsAreRight
  <2>1. CASE r = s
    BY <1>4, <1>13, <2>0, <2>1
  <2>2. CASE r # s
    BY <1>4, <1>13, <2>0, <2>2
  <2> QED
    BY <2>1, <2>2
<1>18. EntriesAreStored'
  <2> SUFFICES ASSUME NEW r \in Shards
               PROVE  EntriesAreStored!(r)'
    BY DEF EntriesAreStored
  <2>0. EntriesAreStored!(r)
    BY DEF IInv, EntriesAreStored
  <2>1. CASE r = s
    <3>1. \A j \in 0..(MaxIndex - 1) : j < len[s] => j \in entries'[s]
      BY <1>2, <1>13, <2>0, <2>1 DEF i
    <3> QED
      BY <1>4, <1>5, <1>13, <2>0, <2>1, <3>1
  <2>2. CASE r # s
    BY <1>4, <1>13, <2>0, <2>2
  <2> QED
    BY <2>1, <2>2
<1>19. EntriesAreDistinct'
  <2> SUFFICES ASSUME NEW r \in Shards
               PROVE  EntriesAreDistinct!(r)'
    BY DEF EntriesAreDistinct
  <2>0. EntriesAreDistinct!(r)
    BY DEF IInv, EntriesAreDistinct
  <2>1. CASE r = s
    BY <1>4, <1>5, <1>7, <1>13, <2>0, <2>1
  <2>2. CASE r # s
    BY <1>4, <1>13, <2>0, <2>2
  <2> QED
    BY <2>1, <2>2
<1> QED
  BY <1>8, <1>9, <1>10, <1>11, <1>14, <1>15, <1>16, <1>17, <1>18, <1>19 DEF IInv

-----------------------------------------------------------------------------
(* The theorems.                                                           *)

LEMMA StutterIInv == IInv /\ UNCHANGED vars => IInv'
<1> SUFFICES ASSUME IInv, UNCHANGED vars PROVE IInv'
  OBVIOUS
<1>1. UNCHANGED <<entries, writer, pool, cursor, poisoned, len, chunks, slots,
                  cache, pc, val, sym, idx, used, known,
                  before, observed, denied>>
  BY DEF vars, shared, local, history
<1>2. TypeOK'
  BY <1>1 DEF IInv, TypeOK
<1>3. /\ CallsHaveArguments' /\ LockIsHeld' /\ RecordsAreCounted'
      /\ SlotsAreRight' /\ EntriesAreStored' /\ EntriesAreDistinct'
  BY <1>1 DEF IInv, CallsHaveArguments, LockIsHeld, RecordsAreCounted,
              SlotsAreRight, EntriesAreStored, EntriesAreDistinct
<1>4. AnswersAreBacked' /\ KnownIsObserved' /\ NeverDenied'
  BY <1>1 DEF IInv, AnswersAreBacked, Backed, KnownIsObserved, NeverDenied
<1>5. CachesAreRight'
  BY <1>1, CachesKept
<1> QED
  BY <1>2, <1>3, <1>4, <1>5 DEF IInv

LEMMA NextIInv == IInv /\ [Next]_vars => IInv'
<1> SUFFICES ASSUME IInv, [Next]_vars PROVE IInv'
  OBVIOUS
<1>1. ASSUME NEW t \in Threads, Step(t) PROVE IInv'
  BY <1>1, FindStep, GetStep, LockStep, AllocStep, AllocPanicStep, PushLenStep,
     PushChunkStep, PushPanicStep, PushSlotStep, InsertStep, InsertPanicStep,
     LoadLenStep, LoadChunkStep, LoadSlotStep, LoadCursorStep, CopiedStep
  DEF Step
<1>2. ASSUME NEW t \in Interning, NEW v \in Values,
             CacheHit(t, v) \/ CacheMiss(t, v, "find") \/ CacheMiss(t, v, "get")
      PROVE  IInv'
  BY <1>2, CacheHitStep, CacheMissStep
<1>3. ASSUME NEW t \in Interning, NEW v \in OtherValues, NEW y \in Symbols,
             OtherInterner(t, v, y)
      PROVE  IInv'
  BY <1>3, OtherInternerStep
<1>4. ASSUME NEW t \in Resolving, NEW y \in Symbols, Resolve(t, y)
      PROVE  IInv'
  BY <1>4, ResolveStep
<1>5. ASSUME NEW t \in Saving, Bytes(t) PROVE IInv'
  BY <1>5, BytesStep
<1>6. CASE UNCHANGED vars
  BY <1>6, StutterIInv
<1> QED
  BY <1>1, <1>2, <1>3, <1>4, <1>5, <1>6 DEF Next

LEMMA Invariance == Spec => []IInv
BY InitIInv, NextIInv, PTL DEF Spec

\* The state of the interner keeps its type: in particular no symbol is ever
\* given an index that Symbol::new would reject.
THEOREM TypeCorrect == Spec => []TypeOK
<1>1. IInv => TypeOK
  BY DEF IInv
<1> QED
  BY <1>1, Invariance, PTL

\* Interning is canonical: get_or_intern, get and resolve, through the cache,
\* the table or the lock-free array, never give two symbols to one string or
\* one symbol to two strings.
THEOREM InterningIsCanonical == Spec => []Canonical
BY Invariance, IInvCanonical, PTL

\* What has been given out is known to every later get and resolve.
THEOREM NothingIsDenied == Spec => []NeverDenied
<1>1. IInv => NeverDenied
  BY DEF IInv
<1> QED
  BY <1>1, Invariance, PTL

\* The SAFETY comments of get_or_intern hold: what get_unchecked reads for a
\* table entry has been stored.
THEOREM UncheckedReadsAreSafe == Spec => []UncheckedIsSafe
BY Invariance, IInvUnchecked, PTL

-----------------------------------------------------------------------------
(* Saving: bytes() while others intern.                                    *)

\* What bytes() has read of a shard is below its cursor now, and everything
\* that was given out before it began is below what it has read.
SaveInv ==
    /\ \A s \in Shards : cursor[s] <= RegionSize
    /\ \A t \in Threads :
          /\ Len(used[t]) <= ShardCount
          /\ pc[t] # "save" => used[t] = <<>>
          /\ \A s \in Shards : s < Len(used[t]) =>
                used[t][s + 1] <= Len(pool[s])
          /\ before[t] \subseteq observed
          /\ \A p \in before[t] : p[2][1] < Len(used[t]) =>
                p[2][2] + 1 <= used[t][p[2][1] + 1]

\* The steps that bytes() does not notice: they leave the arena alone, and
\* what has been answered stays answered.
Quiet ==
    /\ UNCHANGED <<pool, cursor, before>>
    /\ observed \subseteq observed'
    /\ \A t \in Threads :
          \/ used'[t] = used[t] /\ (pc'[t] # "save" => pc[t] # "save")
          \/ used'[t] = <<>>

LEMMA QuietKeepsSaveInv ==
    ASSUME IInv, SaveInv, Quiet
    PROVE  SaveInv'
<1> SUFFICES ASSUME NEW t \in Threads
             PROVE  SaveInv!2!(t)'
  BY DEF SaveInv, Quiet
<1>1. UNCHANGED <<pool, cursor, before>> /\ observed \subseteq observed'
  BY DEF Quiet
<1>2. SaveInv!2!(t)
  BY DEF SaveInv
<1>3. before[t] \subseteq Values \X Symbols
  BY DEF IInv, TypeOK
<1>4. \A p \in before[t] : p[2][1] \in Nat
  BY <1>3 DEF Symbols, Shards
<1>5. CASE used'[t] = used[t] /\ (pc'[t] # "save" => pc[t] # "save")
  BY <1>1, <1>2, <1>5
<1>6. CASE used'[t] = <<>>
  <2>1. Len(<<>>) = 0
    OBVIOUS
  <2>2. \A s \in Shards : s \in Nat
    BY DEF Shards
  <2> QED
    BY <1>1, <1>2, <1>4, <1>6, <2>1, <2>2, SizesAssumption
<1> QED
  BY <1>5, <1>6 DEF Quiet

\* Leaving a call forgets the cursors read.
LEMMA LeaveIsQuiet ==
    ASSUME IInv, NEW t \in Threads, Leave(t), UNCHANGED <<pool, cursor, before>>,
           observed \subseteq observed'
    PROVE  Quiet
<1>1. used' = [used EXCEPT ![t] = <<>>] /\ pc' = [pc EXCEPT ![t] = "idle"]
  BY DEF Leave
<1>2. \A u \in Threads : u # t => used'[u] = used[u] /\ pc'[u] = pc[u]
  BY <1>1 DEF IInv, TypeOK
<1>3. used'[t] = <<>>
  BY <1>1 DEF IInv, TypeOK
<1> QED
  BY <1>2, <1>3 DEF Quiet

\* So does going on in a call that is not saving.
LEMMA GotoIsQuiet ==
    ASSUME IInv, NEW t \in Threads, NEW step, Goto(t, step), pc[t] # "save",
           UNCHANGED <<pool, cursor, used, before, observed>>
    PROVE  Quiet
<1>1. \A u \in Threads : u # t => pc'[u] = pc[u]
  BY DEF Goto, IInv, TypeOK
<1> QED
  BY <1>1 DEF Quiet

LEMMA FoundIsQuiet ==
    ASSUME IInv, NEW t \in Threads, NEW i, Found(t, i), UNCHANGED <<pool, cursor>>
    PROVE  Quiet
<1>1. Leave(t) /\ observed \subseteq observed' /\ UNCHANGED before
  BY DEF Found, Answer
<1> QED
  BY <1>1, LeaveIsQuiet

LEMMA QuietSteps ==
    ASSUME IInv, NEW t \in Threads,
           \/ Find(t) \/ Get(t) \/ Lock(t) \/ AllocPanic(t) \/ PushLen(t)
           \/ PushChunk(t) \/ PushPanic(t) \/ PushSlot(t) \/ Insert(t)
           \/ InsertPanic(t) \/ LoadLen(t) \/ LoadChunk(t) \/ LoadSlot(t)
    PROVE  Quiet
<1> USE DEF shared, history
<1>1. CASE Find(t)
  BY <1>1, GotoIsQuiet, FoundIsQuiet DEF Find
<1>2. CASE Get(t)
  BY <1>2, LeaveIsQuiet, FoundIsQuiet DEF Get, AnswerNone
<1>3. CASE Lock(t)
  BY <1>3, GotoIsQuiet, FoundIsQuiet DEF Lock
<1>4. CASE AllocPanic(t) \/ PushPanic(t) \/ InsertPanic(t)
  BY <1>4, LeaveIsQuiet DEF AllocPanic, PushPanic, InsertPanic, Panic
<1>5. CASE PushLen(t) \/ PushChunk(t) \/ PushSlot(t)
  BY <1>5, GotoIsQuiet DEF PushLen, PushChunk, PushSlot
<1>6. CASE Insert(t)
  BY <1>6, FoundIsQuiet DEF Insert
<1>7. CASE LoadLen(t) \/ LoadChunk(t)
  BY <1>7, GotoIsQuiet, LeaveIsQuiet DEF LoadLen, LoadChunk, Load, AnswerNone
<1>8. CASE LoadSlot(t)
  BY <1>8, LeaveIsQuiet DEF LoadSlot, Answer, AnswerNone
<1> QED
  BY <1>1, <1>2, <1>3, <1>4, <1>5, <1>6, <1>7, <1>8

LEMMA QuietCalls ==
    ASSUME IInv,
           \/ \E t \in Interning, v \in Values :
                 \/ CacheHit(t, v)
                 \/ CacheMiss(t, v, "find")
                 \/ CacheMiss(t, v, "get")
           \/ \E t \in Interning, v \in OtherValues, y \in Symbols :
                 OtherInterner(t, v, y)
           \/ \E t \in Resolving, y \in Symbols : Resolve(t, y)
           \/ UNCHANGED vars
    PROVE  Quiet
<1> USE DEF shared, history, Threads
<1>1. ASSUME NEW t \in Interning, NEW v \in Values, CacheHit(t, v) PROVE Quiet
  BY <1>1, LeaveIsQuiet DEF CacheHit, Answer
<1>2. ASSUME NEW t \in Interning, NEW v \in Values, NEW step,
             CacheMiss(t, v, step)
      PROVE  Quiet
  BY <1>2, GotoIsQuiet DEF CacheMiss
<1>3. ASSUME NEW t \in Interning, NEW v, NEW y, OtherInterner(t, v, y)
      PROVE  Quiet
  BY <1>3 DEF OtherInterner, Quiet
<1>4. ASSUME NEW t \in Resolving, NEW y, Resolve(t, y) PROVE Quiet
  BY <1>4, GotoIsQuiet DEF Resolve
<1>5. CASE UNCHANGED vars
  BY <1>5 DEF Quiet, vars, local
<1> QED
  BY <1>1, <1>2, <1>3, <1>4, <1>5

\* The arena grows by a record that fits.
LEMMA AllocKeepsSaveInv ==
    ASSUME IInv, SaveInv, NEW t \in Threads, Alloc(t)
    PROVE  SaveInv'
<1> DEFINE s == ShardOf[val[t]]
<1>1. s \in Shards /\ val[t] \in Values
  <2>1. pc[t] \in WriterSteps
    BY DEF Alloc, WriterSteps
  <2> QED
    BY <2>1, InSection
<1>2. /\ pool' = [pool EXCEPT ![s] = Append(pool[s], val[t])]
      /\ cursor' = [cursor EXCEPT ![s] = cursor[s] + SizeOf[val[t]]]
      /\ cursor[s] + SizeOf[val[t]] <= RegionSize
      /\ pc[t] = "alloc" /\ pc' = [pc EXCEPT ![t] = "len"]
      /\ UNCHANGED <<used, before, observed>>
  BY DEF Alloc, Goto, history
<1> HIDE DEF s
<1>3. \A r \in Shards : Len(pool'[r]) \in Nat /\ Len(pool[r]) <= Len(pool'[r])
  <2>1. ASSUME NEW r \in Shards, r # s
        PROVE  Len(pool'[r]) \in Nat /\ Len(pool[r]) <= Len(pool'[r])
    BY <1>1, <1>2, <2>1 DEF IInv, TypeOK
  <2>2. Len(pool'[s]) \in Nat /\ Len(pool[s]) <= Len(pool'[s])
    <3>1. pool[s] \in Seq(Values) /\ pool'[s] = Append(pool[s], val[t])
      BY <1>1, <1>2 DEF IInv, TypeOK
    <3> QED
      BY <1>1, <3>1
  <2> QED
    BY <2>1, <2>2
<1>4. \A r \in Shards : cursor'[r] <= RegionSize
  BY <1>1, <1>2 DEF IInv, TypeOK, SaveInv
<1>5. \A u \in Threads : pc'[u] # "save" => pc[u] # "save"
  BY <1>2 DEF IInv, TypeOK
<1> SUFFICES ASSUME NEW u \in Threads
             PROVE  SaveInv!2!(u)'
  BY <1>4 DEF SaveInv
<1>6. SaveInv!2!(u)
  BY DEF SaveInv
<1>7. \A r \in Shards : r < Len(used[u]) =>
         used[u][r + 1] \in Nat /\ Len(pool[r]) \in Nat
  <2>1. used[u] \in Seq(Nat) /\ \A r \in Shards : pool[r] \in Seq(Values)
    BY DEF IInv, TypeOK
  <2>2. \A r \in Shards : r \in Nat
    BY DEF Shards
  <2> QED
    BY <2>1, <2>2
<1>8. \A r \in Shards : r < Len(used[u]) => used[u][r + 1] <= Len(pool'[r])
  BY <1>3, <1>6, <1>7
<1> QED
  BY <1>2, <1>5, <1>6, <1>8

\* bytes() begins with nothing read.
LEMMA BytesKeepsSaveInv ==
    ASSUME IInv, SaveInv, NEW t \in Saving, Bytes(t)
    PROVE  SaveInv'
<1>1. /\ t \in Threads /\ pc[t] = "idle" /\ pc' = [pc EXCEPT ![t] = "save"]
      /\ before' = [before EXCEPT ![t] = observed]
      /\ UNCHANGED <<pool, cursor, used, observed>>
  BY DEF Bytes, Goto, Threads, shared
<1>2. /\ \A u \in Threads \ {t} : before'[u] = before[u] /\ pc'[u] = pc[u]
      /\ before'[t] = observed /\ pc'[t] = "save"
  BY <1>1 DEF IInv, TypeOK
<1> SUFFICES ASSUME NEW u \in Threads
             PROVE  SaveInv!2!(u)'
  BY <1>1 DEF SaveInv
<1>3. SaveInv!2!(u)
  BY DEF SaveInv
<1>4. CASE u # t
  BY <1>1, <1>2, <1>3, <1>4
<1>5. CASE u = t
  <2>1. used[t] = <<>>
    BY <1>1, <1>3, <1>5
  <2>2. Len(<<>>) = 0
    OBVIOUS
  <2>3. \A p \in observed : p[2][1] \in Nat
    BY DEF IInv, TypeOK, Symbols, Shards
  <2>4. \A s \in Shards : s \in Nat
    BY DEF Shards
  <2> QED
    BY <1>1, <1>2, <1>3, <1>5, <2>1, <2>2, <2>3, <2>4
<1> QED
  BY <1>4, <1>5

\* An answer stands in the pool of its shard, below the last index.
LEMMA AnswerIsRecorded ==
    ASSUME IInv, NEW p \in observed
    PROVE  /\ p[2][1] \in Shards /\ p[2][2] \in 0..(MaxIndex - 1)
           /\ p[2][2] + 1 \in 1..Len(pool[p[2][1]])
           /\ p = <<pool[p[2][1]][p[2][2] + 1], <<p[2][1], p[2][2]>>>>
<1> DEFINE s == p[2][1]
           i == p[2][2]
<1>1. /\ s \in Shards /\ i \in 0..(MaxIndex - 1) /\ slots[s][i] # 0
      /\ pool[s][i + 1] = p[1] /\ p[2] = <<s, i>>
  BY DEF IInv, AnswersAreBacked, Backed, Symbols
<1>2. p = <<p[1], p[2]>>
  BY DEF IInv, TypeOK
<1> HIDE DEF s, i
<1>3. i + 1 \in 1..Len(pool[s])
  BY <1>1, StoredSlot
<1> QED
  BY <1>1, <1>2, <1>3 DEF s, i

\* The cursor read next is above all that was given out before bytes() began.
LEMMA LoadCursorKeepsSaveInv ==
    ASSUME IInv, SaveInv, NEW t \in Threads, LoadCursor(t)
    PROVE  SaveInv'
<1> DEFINE k == Len(used[t])
<1>1. /\ pc[t] = "save" /\ k < ShardCount
      /\ used' = [used EXCEPT ![t] = Append(used[t], Len(pool[k]))]
      /\ UNCHANGED <<pool, cursor, pc, before, observed>>
  BY DEF LoadCursor, shared, history
<1>2. used[t] \in Seq(Nat) /\ k \in Nat /\ k \in Shards /\ Len(pool[k]) \in Nat
  <2>1. used[t] \in Seq(Nat) /\ k \in Nat
    BY DEF IInv, TypeOK
  <2>2. k \in Shards
    BY <1>1, <2>1, SizesAssumption DEF Shards
  <2>3. pool[k] \in Seq(Values)
    BY <2>2 DEF IInv, TypeOK
  <2> QED
    BY <2>1, <2>2, <2>3
<1>3. /\ used'[t] = Append(used[t], Len(pool[k]))
      /\ \A u \in Threads \ {t} : used'[u] = used[u]
  BY <1>1 DEF IInv, TypeOK
<1> HIDE DEF k
<1>4. /\ Len(used'[t]) = k + 1 /\ used'[t][k + 1] = Len(pool[k])
      /\ \A n \in 1..k : used'[t][n] = used[t][n]
  BY <1>2, <1>3 DEF k
<1> SUFFICES ASSUME NEW u \in Threads
             PROVE  SaveInv!2!(u)'
  BY <1>1 DEF SaveInv
<1>5. SaveInv!2!(u)
  BY DEF SaveInv
<1>6. CASE u # t
  BY <1>1, <1>3, <1>5, <1>6
<1>7. CASE u = t
  <2>1. Len(used'[t]) <= ShardCount
    BY <1>1, <1>2, <1>4, SizesAssumption
  <2>2. \A s \in Shards : s \in Nat
    BY DEF Shards
  <2>3. \A s \in Shards : s < k + 1 => used'[t][s + 1] <= Len(pool[s])
    <3> TAKE s \in Shards
    <3>1. CASE s = k
      BY <1>2, <1>4, <3>1
    <3>2. CASE s < k
      <4>1. s + 1 \in 1..k
        BY <1>2, <2>2, <3>2
      <4> QED
        BY <1>4, <1>5, <1>7, <3>2, <4>1 DEF k
    <3> QED
      BY <1>2, <2>2, <3>1, <3>2
  <2>4. \A p \in before[t] : p[2][1] < k + 1 =>
           p[2][2] + 1 <= used'[t][p[2][1] + 1]
    <3> TAKE p \in before[t]
    <3>1. p \in observed
      BY <1>5, <1>7
    <3>2. p[2][1] \in Shards /\ p[2][2] + 1 \in 1..Len(pool[p[2][1]])
      BY <3>1, AnswerIsRecorded
    <3>3. p[2][1] \in Nat
      BY <2>2, <3>2
    <3>4. CASE p[2][1] = k
      BY <1>2, <1>4, <3>2, <3>4
    <3>5. CASE p[2][1] < k
      <4>1. p[2][1] + 1 \in 1..k
        BY <1>2, <3>3, <3>5
      <4> QED
        BY <1>4, <1>5, <1>7, <3>5, <4>1 DEF k
    <3> QED
      BY <1>2, <3>3, <3>4, <3>5
  <2> QED
    BY ZenonT(60), <1>1, <1>4, <1>5, <1>7, <2>1, <2>3, <2>4
<1> QED
  BY <1>6, <1>7

\* When bytes() is done it has nothing to answer for.
LEMMA CopiedKeepsSaveInv ==
    ASSUME IInv, SaveInv, NEW t \in Threads, Copied(t)
    PROVE  SaveInv'
<1>1. /\ used' = [used EXCEPT ![t] = <<>>] /\ pc' = [pc EXCEPT ![t] = "idle"]
      /\ before' = [before EXCEPT ![t] = {}]
      /\ UNCHANGED <<pool, cursor, observed>>
  BY DEF Copied, Leave, shared
<1>2. /\ \A u \in Threads \ {t} :
            before'[u] = before[u] /\ pc'[u] = pc[u] /\ used'[u] = used[u]
      /\ before'[t] = {} /\ used'[t] = <<>>
  BY <1>1 DEF IInv, TypeOK
<1> SUFFICES ASSUME NEW u \in Threads
             PROVE  SaveInv!2!(u)'
  BY <1>1 DEF SaveInv
<1>3. SaveInv!2!(u)
  BY DEF SaveInv
<1>4. CASE u # t
  BY <1>1, <1>2, <1>3, <1>4
<1>5. CASE u = t
  <2>1. Len(<<>>) = 0
    OBVIOUS
  <2>2. \A s \in Shards : s \in Nat
    BY DEF Shards
  <2> QED
    BY <1>2, <1>5, <2>1, <2>2, SizesAssumption
<1> QED
  BY <1>4, <1>5

LEMMA InitSaveInv == Init => SaveInv
<1> SUFFICES ASSUME Init PROVE SaveInv
  OBVIOUS
<1>1. Len(<<>>) = 0
  OBVIOUS
<1>2. \A s \in Shards : s \in Nat
  BY DEF Shards
<1>3. \A t \in Threads : used[t] = <<>> /\ before[t] = {}
  BY DEF Init
<1>4. \A s \in Shards : cursor[s] = 0
  BY DEF Init
<1> QED
  BY <1>1, <1>2, <1>3, <1>4, SizesAssumption DEF SaveInv

LEMMA NextSaveInv == IInv /\ SaveInv /\ [Next]_vars => SaveInv'
<1> SUFFICES ASSUME IInv, SaveInv, [Next]_vars PROVE SaveInv'
  OBVIOUS
<1>1. ASSUME NEW t \in Threads, Step(t) PROVE SaveInv'
  BY <1>1, QuietSteps, QuietKeepsSaveInv, AllocKeepsSaveInv,
     LoadCursorKeepsSaveInv, CopiedKeepsSaveInv
  DEF Step
<1>2. ASSUME NEW t \in Saving, Bytes(t) PROVE SaveInv'
  BY <1>2, BytesKeepsSaveInv
<1> QED
  BY <1>1, <1>2, QuietCalls, QuietKeepsSaveInv DEF Next

LEMMA SaveInvariance == Spec => []SaveInv
BY InitSaveInv, NextSaveInv, Invariance, PTL DEF Spec

-----------------------------------------------------------------------------
(* What the saved arena decodes to.                                        *)

\* No string is twice among the records that can have a symbol: each is in
\* the table or is the one its writer is pushing.
LEMMA RecordsAreDistinct ==
    ASSUME IInv, NEW s \in Shards,
           NEW m \in 1..Len(pool[s]), NEW n \in 1..Len(pool[s]),
           m <= MaxIndex, n <= MaxIndex, pool[s][m] = pool[s][n]
    PROVE  m = n
<1> DEFINE w == writer[s]
           Pushed(k) == /\ w # None /\ pool[s][k] = val[w]
                        /\ \/ pc[w] \in PushSteps /\ k = idx[w] + 1
                           \/ pc[w] = "len" /\ k = len[s] + 1
<1>1. len[s] \in Nat /\ pool[s] \in Seq(Values) /\ Len(pool[s]) \in Nat
      /\ entries[s] \subseteq 0..(MaxIndex - 1)
  BY DEF IInv, TypeOK
<1>2. ASSUME NEW k \in 1..Len(pool[s]), k <= MaxIndex
      PROVE  k - 1 \in entries[s] \/ Pushed(k)
  <2>1. k - 1 \in 0..(MaxIndex - 1)
    BY <1>1, <1>2, MaxIndexType
  <2>2. CASE k - 1 < len[s]
    BY <1>1, <2>1, <2>2 DEF IInv, EntriesAreStored, RecordsAreCounted
  <2>3. CASE ~ (k - 1 < len[s])
    BY <1>1, <2>1, <2>3 DEF IInv, RecordsAreCounted
  <2> QED
    BY <2>2, <2>3
<1>3. m - 1 \in entries[s] \/ Pushed(m)
  BY <1>2
<1>4. n - 1 \in entries[s] \/ Pushed(n)
  BY <1>2
<1>5. \A i \in entries[s] : i \in Int
  BY <1>1
<1>6. /\ \A i, j \in entries[s] : pool[s][i + 1] = pool[s][j + 1] => i = j
      /\ w # None => \A i \in entries[s] : pool[s][i + 1] # val[w]
  BY DEF IInv, EntriesAreDistinct
<1>7. m \in Int /\ n \in Int /\ (m - 1) + 1 = m /\ (n - 1) + 1 = n
  BY <1>1
<1>8. "len" \notin PushSteps
  BY DEF PushSteps
<1>9. CASE m - 1 \in entries[s] /\ n - 1 \in entries[s]
  BY <1>6, <1>7, <1>9
<1>10. CASE Pushed(m) /\ Pushed(n)
  BY <1>8, <1>10
<1>11. ~ (m - 1 \in entries[s] /\ Pushed(n))
  BY <1>6, <1>7
<1>12. ~ (n - 1 \in entries[s] /\ Pushed(m))
  BY <1>6, <1>7
<1> QED
  BY <1>3, <1>4, <1>9, <1>10, <1>11, <1>12

\* A pair of a string and the symbol of its place in the arena.
Recorded(x) ==
    \E s \in Shards : \E n \in 1..Len(pool[s]) :
        n <= MaxIndex /\ x = <<pool[s][n], <<s, n - 1>>>>

LEMMA RecordedAgree ==
    ASSUME IInv, NEW S, \A x \in S : Recorded(x)
    PROVE  Agree(S)
<1> SUFFICES ASSUME NEW x \in S, NEW y \in S
             PROVE  x[1] = y[1] <=> x[2] = y[2]
  BY DEF Agree
<1>1. PICK s \in Shards : \E n \in 1..Len(pool[s]) :
         n <= MaxIndex /\ x = <<pool[s][n], <<s, n - 1>>>>
  BY DEF Recorded
<1>2. PICK n \in 1..Len(pool[s]) :
         n <= MaxIndex /\ x = <<pool[s][n], <<s, n - 1>>>>
  BY <1>1
<1>3. PICK r \in Shards : \E m \in 1..Len(pool[r]) :
         m <= MaxIndex /\ y = <<pool[r][m], <<r, m - 1>>>>
  BY DEF Recorded
<1>4. PICK m \in 1..Len(pool[r]) :
         m <= MaxIndex /\ y = <<pool[r][m], <<r, m - 1>>>>
  BY <1>3
<1>5. n \in Int /\ m \in Int
  OBVIOUS
<1>6. ShardOf[pool[s][n]] = s /\ ShardOf[pool[r][m]] = r
  BY DEF IInv, RecordsAreCounted
<1>7. ASSUME x[1] = y[1] PROVE x[2] = y[2]
  <2>1. pool[s][n] = pool[r][m] /\ s = r
    BY <1>2, <1>4, <1>6, <1>7
  <2>2. n = m
    BY <1>2, <1>4, <2>1, RecordsAreDistinct
  <2> QED
    BY <1>2, <1>4, <2>1, <2>2
<1>8. ASSUME x[2] = y[2] PROVE x[1] = y[1]
  <2>1. s = r /\ n - 1 = m - 1
    BY <1>2, <1>4, <1>8
  <2>2. n = m
    BY <1>5, <2>1
  <2> QED
    BY <1>2, <1>4, <2>1, <2>2
<1> QED
  BY <1>7, <1>8

\* The n records of one region have n - 1 earlier ones before the last.
LEMMA CountEarlier ==
    ASSUME NEW s, NEW n \in Nat \ {0}
    PROVE  Cardinality({<<s, m>> : m \in 1..(n - 1)}) = n - 1
<1> DEFINE S == 1..(n - 1)
           T == {<<s, m>> : m \in S}
           f == [m \in S |-> <<s, m>>]
<1>1. f \in [S -> T]
  OBVIOUS
<1>2. \A a, b \in S : f[a] = f[b] => a = b
  OBVIOUS
<1>3. \A y \in T : \E a \in S : f[a] = y
  OBVIOUS
<1>4. f \in Bijection(S, T)
  BY <1>1, <1>2, <1>3 DEF Bijection, Injection, Surjection, IsInjective
<1>5. ExistsBijection(S, T)
  BY <1>4 DEF ExistsBijection
<1>6. IsFiniteSet(S) /\ Cardinality(S) = n - 1
  <2>1. /\ IsFiniteSet(1..(n - 1))
        /\ Cardinality(1..(n - 1)) = IF 1 > n - 1 THEN 0 ELSE (n - 1) - 1 + 1
    BY FS_Interval
  <2> QED
    BY <2>1
<1> HIDE DEF S, T, f
<1>7. Cardinality(T) = Cardinality(S)
  BY <1>5, <1>6, FS_Bijection
<1> QED
  BY <1>6, <1>7 DEF S, T

\* from_bytes gives the record at position n of a region the index n - 1,
\* because all records of a region hash to it and keep their order.
LEMMA DecodedInPlace ==
    ASSUME IInv, NEW u, NEW s \in Shards, NEW n \in 1..u[s + 1],
           \A r \in Shards : u[r + 1] \in Nat /\ u[r + 1] <= Len(pool[r])
    PROVE  /\ n \in 1..Len(pool[s])
           /\ RecordValue(<<s, n>>) = pool[s][n]
           /\ DecodedSymbol(u, <<s, n>>) = <<s, n - 1>>
<1>1. \A r \in Shards : r \in Nat /\ Len(pool[r]) \in Nat
  BY DEF IInv, TypeOK, Shards
<1>2. \A r \in Shards : \A m \in 1..u[r + 1] :
         m \in 1..Len(pool[r]) /\ ShardOf[RecordValue(<<r, m>>)] = r
  BY <1>1 DEF IInv, RecordsAreCounted, RecordValue
<1> DEFINE E == {q \in SavedRecords(u) :
                    Earlier(q, <<s, n>>) /\ ShardOf[RecordValue(q)] = s}
           F == {<<s, m>> : m \in 1..(n - 1)}
<1>3. n \in Nat \ {0} /\ n <= u[s + 1] /\ u[s + 1] \in Nat
  OBVIOUS
<1>4. ASSUME NEW q \in E PROVE q \in F
  <2>1. PICK r \in Shards : q \in {<<r, m>> : m \in 1..u[r + 1]}
    BY DEF SavedRecords
  <2>2. PICK m \in 1..u[r + 1] : q = <<r, m>>
    BY <2>1
  <2>3. r = s
    BY <1>2, <2>2
  <2>4. m < n
    BY <1>1, <2>2, <2>3 DEF Earlier
  <2>5. m \in 1..(n - 1)
    BY <1>3, <2>4
  <2> QED
    BY <2>2, <2>3, <2>5
<1>5. ASSUME NEW m \in 1..(n - 1) PROVE <<s, m>> \in E
  <2>1. m \in 1..u[s + 1] /\ m < n
    BY <1>3
  <2>2. <<s, m>> \in SavedRecords(u)
    BY <2>1 DEF SavedRecords
  <2>3. Earlier(<<s, m>>, <<s, n>>) /\ ShardOf[RecordValue(<<s, m>>)] = s
    BY <1>2, <2>1 DEF Earlier
  <2> QED
    BY <2>2, <2>3
<1>6. E = F
  BY <1>4, <1>5
<1>7. Cardinality(F) = n - 1
  BY <1>3, CountEarlier
<1>8. ShardOf[RecordValue(<<s, n>>)] = s /\ n \in 1..Len(pool[s])
  BY <1>2
<1>9. DecodedSymbol(u, <<s, n>>) = <<s, Cardinality(E)>>
  BY <1>8 DEF DecodedSymbol
<1> QED
  BY <1>6, <1>7, <1>8, <1>9 DEF RecordValue

LEMMA IInvSnapshot == IInv /\ SaveInv => SnapshotDecodes
<1> SUFFICES ASSUME IInv, SaveInv, NEW t \in Saving,
                    pc[t] = "save", Len(used[t]) = ShardCount,
                    \A s \in Shards : used[t][s + 1] <= MaxIndex
             PROVE  /\ before[t] \subseteq FromBytes(used[t])
                    /\ FromBytes(used[t]) \subseteq Values \X Symbols
                    /\ Agree(observed \cup FromBytes(used[t]))
  BY DEF SnapshotDecodes
<1> DEFINE u == used[t]
<1>1. t \in Threads /\ u \in Seq(Nat)
  BY DEF Threads, IInv, TypeOK
<1>2. \A s \in Shards : s \in Nat /\ s < Len(u) /\ s + 1 \in 1..Len(u)
  BY SizesAssumption DEF Shards
<1>3. \A s \in Shards : u[s + 1] \in Nat /\ u[s + 1] <= Len(pool[s])
  BY <1>1, <1>2 DEF SaveInv
<1>4. \A s \in Shards : pool[s] \in Seq(Values)
  BY DEF IInv, TypeOK
<1>5. \A s \in Shards : u[s + 1] <= MaxIndex
  OBVIOUS
<1>6. /\ before[t] \subseteq observed
      /\ \A p \in before[t] : p[2][1] < Len(u) => p[2][2] + 1 <= u[p[2][1] + 1]
  BY <1>1 DEF SaveInv
<1> HIDE DEF u
<1>7. \A s \in Shards : \A n \in 1..u[s + 1] :
         /\ n \in 1..Len(pool[s])
         /\ RecordValue(<<s, n>>) = pool[s][n]
         /\ DecodedSymbol(u, <<s, n>>) = <<s, n - 1>>
  BY <1>3, DecodedInPlace
<1>8. before[t] \subseteq FromBytes(u)
  <2> SUFFICES ASSUME NEW p \in before[t] PROVE p \in FromBytes(u)
    OBVIOUS
  <2> DEFINE s == p[2][1]
             i == p[2][2]
  <2>1. /\ s \in Shards /\ i \in 0..(MaxIndex - 1)
        /\ p = <<pool[s][i + 1], <<s, i>>>>
    BY <1>6, AnswerIsRecorded
  <2>2. i + 1 <= u[s + 1]
    BY <1>2, <1>6, <2>1
  <2> HIDE DEF s, i
  <2>3. i + 1 \in 1..u[s + 1] /\ (i + 1) - 1 = i
    BY <1>3, <2>1, <2>2
  <2>4. <<s, i + 1>> \in SavedRecords(u)
    BY <2>1, <2>3 DEF SavedRecords
  <2>5. p = <<RecordValue(<<s, i + 1>>), DecodedSymbol(u, <<s, i + 1>>)>>
    BY <1>7, <2>1, <2>3
  <2> QED
    BY <2>4, <2>5 DEF FromBytes
<1>9. ASSUME NEW x \in FromBytes(u)
      PROVE  Recorded(x) /\ x \in Values \X Symbols
  <2>1. PICK q \in SavedRecords(u) : x = <<RecordValue(q), DecodedSymbol(u, q)>>
    BY DEF FromBytes
  <2>2. PICK s \in Shards : q \in {<<s, m>> : m \in 1..u[s + 1]}
    BY DEF SavedRecords
  <2>3. PICK n \in 1..u[s + 1] : q = <<s, n>>
    BY <2>2
  <2>4. n \in 1..Len(pool[s]) /\ x = <<pool[s][n], <<s, n - 1>>>>
    BY <1>7, <2>1, <2>3
  <2>5. n <= MaxIndex /\ n - 1 \in 0..(MaxIndex - 1)
    BY <1>3, <1>5, MaxIndexType
  <2>6. pool[s][n] \in Values
    BY <1>4, <2>4
  <2> QED
    BY <2>4, <2>5, <2>6 DEF Recorded, Symbols
<1>10. ASSUME NEW x \in observed PROVE Recorded(x)
  <2> DEFINE s == x[2][1]
             i == x[2][2]
  <2>1. /\ s \in Shards /\ i \in 0..(MaxIndex - 1) /\ i + 1 \in 1..Len(pool[s])
        /\ x = <<pool[s][i + 1], <<s, i>>>>
    BY AnswerIsRecorded
  <2> HIDE DEF s, i
  <2>2. i + 1 <= MaxIndex /\ (i + 1) - 1 = i
    BY <2>1, MaxIndexType
  <2> QED
    BY <2>1, <2>2 DEF Recorded
<1>11. Agree(observed \cup FromBytes(u))
  BY <1>9, <1>10, RecordedAgree
<1> QED
  BY <1>8, <1>9, <1>11 DEF u

\* Where nobody pushes, the table holds the indices below len.
LEMMA IInvArena == IInv /\ SaveInv => ArenaInBounds
<1> SUFFICES ASSUME IInv, SaveInv, NEW s \in Shards
             PROVE  ArenaInBounds!(s)
  BY DEF ArenaInBounds
<1>1. cursor[s] <= RegionSize
  BY DEF SaveInv
<1>2. ASSUME writer[s] = None, len[s] <= MaxIndex
      PROVE  len[s] = Len(pool[s]) /\ len[s] = Cardinality(entries[s])
  <2>1. len[s] = Len(pool[s])
    BY <1>2 DEF IInv, RecordsAreCounted
  <2>2. len[s] \in Nat /\ entries[s] \subseteq 0..(MaxIndex - 1)
    BY DEF IInv, TypeOK
  <2>3. \A i \in entries[s] : i < len[s]
    BY TableEntry, StoredSlot
  <2>4. \A i \in 0..(MaxIndex - 1) : i < len[s] => i \in entries[s]
    BY <1>2 DEF IInv, EntriesAreStored
  <2>5. entries[s] = 0..(len[s] - 1)
    <3> DEFINE n == len[s]
               E == entries[s]
    <3>1. n \in Nat /\ n <= MaxIndex /\ E \subseteq 0..(MaxIndex - 1)
      BY <1>2, <2>2
    <3>2. /\ \A i \in E : i < n
          /\ \A i \in 0..(MaxIndex - 1) : i < n => i \in E
      BY <2>3, <2>4
    <3> HIDE DEF n, E
    <3>3. ASSUME NEW i \in E PROVE i \in 0..(n - 1)
      BY <3>1, <3>2, MaxIndexType
    <3>4. ASSUME NEW i \in 0..(n - 1) PROVE i \in E
      <4>1. i \in 0..(MaxIndex - 1) /\ i < n
        BY <3>1, MaxIndexType
      <4> QED
        BY <3>2, <4>1
    <3>5. E = 0..(n - 1)
      BY <3>3, <3>4
    <3> QED
      BY <3>5 DEF n, E
  <2>6. Cardinality(0..(len[s] - 1)) =
           IF 0 > len[s] - 1 THEN 0 ELSE (len[s] - 1) - 0 + 1
    BY SMTT(30), <2>2, FS_Interval
  <2> QED
    BY <2>1, <2>2, <2>5, <2>6
<1> QED
  BY <1>1, <1>2

\* An arena that bytes() copies while other threads intern decodes to an
\* interner that knows everything given out before the call began, under the
\* same symbols, and contradicts nothing given out since.
THEOREM SavedArenasDecode == Spec => []SnapshotDecodes
BY Invariance, SaveInvariance, IInvSnapshot, PTL

\* alloc never writes past the region of its shard, and len() is the number of
\* strings in the table of a shard that nobody is writing to.
THEOREM ArenaStaysInBounds == Spec => []ArenaInBounds
BY Invariance, SaveInvariance, IInvArena, PTL
=============================================================================
