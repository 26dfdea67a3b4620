--------------------------- MODULE StringInterner ---------------------------
(***************************************************************************)
(* The concurrent string interner:                                         *)
(* crates/database/src/core/string_interner.rs.                            *)
(*                                                                         *)
(* A string is interned into the shard its hash selects.  A shard has a    *)
(* hash table behind a RwLock, a region of the shared arena that records   *)
(* are appended to, and a lock-free array from symbol index to record, cut *)
(* into chunks that are published on demand.  Every thread has a cache in  *)
(* front of all that.                                                      *)
(*                                                                         *)
(* One action is one step that other threads can tell apart.  What a       *)
(* thread does to its own cache is part of the step before or after it.    *)
(* What it reads under a shard's read lock is one step, because nothing it *)
(* reads changes while the lock is held.  The write section is cut at each *)
(* store a lock-free reader sees: the arena cursor, the length of the      *)
(* array, the chunk, the slot, the table entry with the unlock.            *)
(*                                                                         *)
(* A record is named by its position in its region, so the offset 0 that   *)
(* marks an empty slot is the position 0; offsets start after the header.  *)
(* The static symbols ("" and one ASCII byte) never reach this code path.  *)
(* LAST_CHUNK is left out: a published chunk is never replaced, so a       *)
(* thread's remembered chunk pointer is the one it would load.             *)
(*                                                                         *)
(* Operators marked (mutant) are wrong variants of the definition that     *)
(* follows them; nothing uses them but mutation testing.                   *)
(***************************************************************************)
EXTENDS Integers, Sequences, FiniteSets

CONSTANTS
    Interning,      \* the threads that call get_or_intern and get
    Resolving,      \* the threads that call resolve
    Saving,         \* the threads that call bytes
    Values,         \* the strings
    OtherValues,    \* those that other interners of the process are used for
    Long,           \* those of more than 8 bytes
    None,           \* Rust's None
    ShardCount,     \* number of shards
    ShardOf,        \* string -> shard: hash & shard_mask
    CacheKey,       \* string -> (truncated hash, length, prefix8)
    LineOf,         \* string -> cache line: cache_index & !3
    WayOf,          \* string -> preferred way in that line: cache_index & 3
    NumWays,        \* ways of a cache line, 4 in the code
    ShiftedEqual,   \* pairs <<u, v>>: the bytes 4 past u's may equal v's
    SizeOf,         \* string -> padded record size
    RegionSize,     \* arena bytes per shard
    ChunkSize,      \* slots per chunk
    NumChunks       \* chunks per shard

Threads == Interning \cup Resolving \cup Saving

Shards == 0..(ShardCount - 1)

Ways == 0..(NumWays - 1)

\* Symbol::INDEX_MASK.  The chunks cover one index more than a Symbol can hold.
MaxIndex == NumChunks * ChunkSize - 1

Indices == 0..MaxIndex

ASSUME SizesAssumption ==
    /\ ShardCount \in Nat \ {0} /\ NumWays \in Nat \ {0}
    /\ ChunkSize \in Nat \ {0} /\ NumChunks \in Nat \ {0}
    /\ RegionSize \in Nat
    /\ SizeOf \in [Values -> Nat \ {0}]

ASSUME HashAssumption ==
    /\ Long \subseteq Values /\ OtherValues \subseteq Values
    /\ ShardOf \in [Values -> Shards]
    /\ WayOf \in [Values -> Ways]
    /\ DOMAIN CacheKey = Values /\ DOMAIN LineOf = Values

\* Up to 8 bytes, length and prefix8 determine the string.
ASSUME ShortKeyAssumption ==
    \A u, v \in Values : CacheKey[u] = CacheKey[v] =>
        /\ u \in Long <=> v \in Long
        /\ u \notin Long => u = v

\* Two long strings of equal length, prefix and 32-bit hash, one of which is
\* the other moved by 4 bytes, are taken not to exist.
ASSUME ShiftAssumption ==
    /\ ShiftedEqual \subseteq Long \X Long
    /\ \A p \in ShiftedEqual : CacheKey[p[1]] = CacheKey[p[2]] => p[1] = p[2]

ASSUME NoneAssumption ==
    /\ None \notin Values
    /\ None \notin Threads
    /\ None \notin Shards \X Nat

\* (shard, index), as Symbol packs them.
Symbols == Shards \X (0..(MaxIndex - 1))

VARIABLES
    entries,    \* shard -> the indices in its hash table
    writer,     \* shard -> the thread that holds its write lock, or None
    pool,       \* shard -> the records of its region, in order
    cursor,     \* shard -> bytes of its region in use
    poisoned,   \* the shards whose region has overflowed once
    len,        \* shard -> length of its lock-free array
    chunks,     \* shard -> the chunks published
    slots,      \* shard -> index -> record, 0 when not stored yet
    cache,      \* thread -> line, way -> cached symbol or None
    pc,         \* thread -> where it is
    val,        \* thread -> the string its call is about, or None
    sym,        \* thread -> the symbol its call is about, or None
    idx,        \* thread -> the index its push was given
    used,       \* thread -> the cursors bytes() has read, in shard order
    known,      \* thread -> was its argument given out before the call?
    before,     \* thread -> what had been answered when its bytes() began
    observed,   \* all pairs <<string, symbol>> a call has answered
    denied      \* has a call answered None for something given out before?

shared == <<entries, writer, pool, cursor, poisoned, len, chunks, slots>>
local == <<cache, pc, val, sym, idx, used, known>>
history == <<before, observed, denied>>
vars == <<shared, local, history>>

Steps == {"idle", "find", "get", "lock", "alloc", "len", "chunk", "slot",
          "insert", "rlen", "rchunk", "rslot", "save"}

-----------------------------------------------------------------------------
(* Strings, records and the thread's cache.                                *)

\* LockFreeStringArray::get_unchecked: the string behind a table entry.
StringAt(s, i) == pool[s][slots[s][i]]

\* The comparison in entries.find and entries.entry.  A table entry holds the
\* hash and the prefix of its string, so they add nothing to its bytes.
Matches(v) == {i \in entries[ShardOf[v]] : StringAt(ShardOf[v], i) = v}

Given(v, y) == <<v, y>> \in observed

CacheEntry ==
    [own : BOOLEAN, key : {CacheKey[v] : v \in Values},
     symbol : Shards \X Nat]

Smallest(S) == CHOOSE i \in S : \A j \in S : i <= j

\* The ways of v's line that hold this interner's id and v's key.
Candidates(t, v) ==
    {w \in Ways : LET e == cache[t][<<LineOf[v], w>>]
                  IN  e # None /\ e.own /\ e.key = CacheKey[v]}

\* (mutant) A candidate is taken at its key, whatever its length.
CachedByKey(t, v) ==
    IF Candidates(t, v) = {} THEN None
    ELSE cache[t][<<LineOf[v], Smallest(Candidates(t, v))>>].symbol

\* Only the first candidate is looked at.  Long strings are compared with the
\* arena, but the cached offset already points past the record's length, so
\* the comparison is with the bytes 4 further on.
Cached(t, v) ==
    IF Candidates(t, v) = {} THEN None
    ELSE LET y == cache[t][<<LineOf[v], Smallest(Candidates(t, v))>>].symbol
             u == StringAt(y[1], y[2])
         IN  IF v \notin Long \/ <<u, v>> \in ShiftedEqual THEN y ELSE None

\* Insertion: the first empty way of the line, else v's preferred way.
InsertWay(t, v) ==
    LET empty == {w \in Ways : cache[t][<<LineOf[v], w>>] = None}
    IN  IF empty = {} THEN WayOf[v] ELSE Smallest(empty)

CacheInsert(t, v, own, y) ==
    cache' = [cache EXCEPT ![t][<<LineOf[v], InsertWay(t, v)>>] =
                 [own |-> own, key |-> CacheKey[v], symbol |-> y]]

-----------------------------------------------------------------------------
(* get_or_intern and get.                                                  *)

Init ==
    /\ entries = [s \in Shards |-> {}]
    /\ writer = [s \in Shards |-> None]
    /\ pool = [s \in Shards |-> <<>>]
    /\ cursor = [s \in Shards |-> 0]
    /\ poisoned = {}
    /\ len = [s \in Shards |-> 0]
    /\ chunks = [s \in Shards |-> {}]
    /\ slots = [s \in Shards |-> [i \in Indices |-> 0]]
    /\ cache = [t \in Threads |->
                   [l \in {LineOf[v] : v \in Values} \X Ways |-> None]]
    /\ pc = [t \in Threads |-> "idle"]
    /\ val = [t \in Threads |-> None]
    /\ sym = [t \in Threads |-> None]
    /\ idx = [t \in Threads |-> 0]
    /\ used = [t \in Threads |-> <<>>]
    /\ known = [t \in Threads |-> FALSE]
    /\ before = [t \in Threads |-> {}]
    /\ observed = {}
    /\ denied = FALSE

\* The call of t is over: its locals are gone.
Leave(t) ==
    /\ pc' = [pc EXCEPT ![t] = "idle"]
    /\ val' = [val EXCEPT ![t] = None]
    /\ sym' = [sym EXCEPT ![t] = None]
    /\ idx' = [idx EXCEPT ![t] = 0]
    /\ used' = [used EXCEPT ![t] = <<>>]
    /\ known' = [known EXCEPT ![t] = FALSE]

Answer(t, v, y) ==
    /\ Leave(t)
    /\ observed' = observed \cup {<<v, y>>}
    /\ UNCHANGED <<before, denied>>

AnswerNone(t) ==
    /\ Leave(t)
    /\ denied' = (denied \/ known[t])
    /\ UNCHANGED <<before, observed>>

Goto(t, step) == pc' = [pc EXCEPT ![t] = step]

\* A call whose string the thread's cache answers.
CacheHit(t, v) ==
    /\ pc[t] = "idle"
    /\ Cached(t, v) # None
    /\ Answer(t, v, Cached(t, v))
    /\ UNCHANGED <<shared, cache>>

\* A call the cache does not answer; step is where it goes on.  What follows
\* a long record may be being written, so a hit on one is never certain.
CacheMiss(t, v, step) ==
    /\ pc[t] = "idle"
    /\ v \in Long \/ Cached(t, v) = None
    /\ Goto(t, step)
    /\ val' = [val EXCEPT ![t] = v]
    /\ known' = [known EXCEPT ![t] = \E y \in Symbols : Given(v, y)]
    /\ UNCHANGED <<shared, cache, sym, idx, used, history>>

\* The thread uses another interner, whose entries share its cache.
OtherInterner(t, v, y) ==
    /\ pc[t] = "idle"
    /\ CacheInsert(t, v, FALSE, y)
    /\ UNCHANGED <<shared, pc, val, sym, idx, used, known, history>>

\* A table entry for the string of t is found: cache it and answer.
Found(t, i) ==
    LET y == <<ShardOf[val[t]], i>>
    IN  /\ CacheInsert(t, val[t], TRUE, y)
        /\ Answer(t, val[t], y)

\* get_or_intern looks the string up under the read lock.
Find(t) ==
    /\ pc[t] = "find"
    /\ writer[ShardOf[val[t]]] = None
    /\ IF Matches(val[t]) = {}
       THEN /\ Goto(t, "lock")
            /\ UNCHANGED <<cache, val, sym, idx, used, known, history>>
       ELSE \E i \in Matches(val[t]) : Found(t, i)
    /\ UNCHANGED shared

\* So does get, which ends there.
Get(t) ==
    /\ pc[t] = "get"
    /\ writer[ShardOf[val[t]]] = None
    /\ IF Matches(val[t]) = {}
       THEN AnswerNone(t) /\ UNCHANGED cache
       ELSE \E i \in Matches(val[t]) : Found(t, i)
    /\ UNCHANGED shared

\* (mutant) The write lock is taken without looking again.
LockWithoutRecheck(t) ==
    /\ pc[t] = "lock"
    /\ writer[ShardOf[val[t]]] = None
    /\ Goto(t, "alloc")
    /\ writer' = [writer EXCEPT ![ShardOf[val[t]]] = t]
    /\ UNCHANGED <<entries, pool, cursor, poisoned, len, chunks, slots,
                   cache, val, sym, idx, used, known, history>>

\* Between the two locks another thread may have interned the string: it is
\* looked up again under the write lock, which is kept only if it is absent.
Lock(t) ==
    /\ pc[t] = "lock"
    /\ writer[ShardOf[val[t]]] = None
    /\ IF Matches(val[t]) = {}
       THEN /\ Goto(t, "alloc")
            /\ writer' = [writer EXCEPT ![ShardOf[val[t]]] = t]
            /\ UNCHANGED <<cache, val, sym, idx, used, known, history>>
       ELSE /\ \E i \in Matches(val[t]) : Found(t, i)
            /\ UNCHANGED writer
    /\ UNCHANGED <<entries, pool, cursor, poisoned, len, chunks, slots>>

Unlock(s) == writer' = [writer EXCEPT ![s] = None]

\* (mutant) The lock is leaked.
PanicKeepsLock(t) ==
    /\ Leave(t)
    /\ UNCHANGED <<writer, cache, history>>

\* A panic unwinds the call and drops the guard of the write lock.
Panic(t) ==
    /\ Leave(t)
    /\ Unlock(ShardOf[val[t]])
    /\ UNCHANGED <<cache, history>>

\* (mutant) The bounds check is off by one.
AllocOffByOne(t) ==
    LET s == ShardOf[val[t]]
    IN  /\ pc[t] = "alloc"
        /\ s \notin poisoned
        /\ cursor[s] + SizeOf[val[t]] <= RegionSize + 1
        /\ pool' = [pool EXCEPT ![s] = Append(@, val[t])]
        /\ cursor' = [cursor EXCEPT ![s] = @ + SizeOf[val[t]]]
        /\ Goto(t, "len")
        /\ UNCHANGED <<entries, writer, poisoned, len, chunks, slots, cache,
                       val, sym, idx, used, known, history>>

\* MemoryPool::alloc, when the record fits: record, then cursor.
Alloc(t) ==
    LET s == ShardOf[val[t]]
    IN  /\ pc[t] = "alloc"
        /\ s \notin poisoned
        /\ cursor[s] + SizeOf[val[t]] <= RegionSize
        /\ pool' = [pool EXCEPT ![s] = Append(@, val[t])]
        /\ cursor' = [cursor EXCEPT ![s] = @ + SizeOf[val[t]]]
        /\ Goto(t, "len")
        /\ UNCHANGED <<entries, writer, poisoned, len, chunks, slots, cache,
                       val, sym, idx, used, known, history>>

\* ... and when the region is exhausted, or has been before.
AllocPanic(t) ==
    LET s == ShardOf[val[t]]
    IN  /\ pc[t] = "alloc"
        /\ s \in poisoned \/ cursor[s] + SizeOf[val[t]] > RegionSize
        /\ poisoned' = poisoned \cup {s}
        /\ Panic(t)
        /\ UNCHANGED <<entries, pool, cursor, len, chunks, slots>>

\* LockFreeStringArray::push: len.fetch_add.
PushLen(t) ==
    LET s == ShardOf[val[t]]
    IN  /\ pc[t] = "len"
        /\ idx' = [idx EXCEPT ![t] = len[s]]
        /\ len' = [len EXCEPT ![s] = @ + 1]
        /\ Goto(t, "chunk")
        /\ UNCHANGED <<entries, writer, pool, cursor, poisoned, chunks, slots,
                       cache, val, sym, used, known, history>>

ChunkOf(i) == i \div ChunkSize

\* (mutant) A fresh chunk is published and its slot forgotten.
PushChunkOnly(t) ==
    LET s == ShardOf[val[t]]
    IN  /\ pc[t] = "chunk"
        /\ ChunkOf(idx[t]) < NumChunks
        /\ chunks' = [chunks EXCEPT ![s] = @ \cup {ChunkOf(idx[t])}]
        /\ Goto(t, IF ChunkOf(idx[t]) \in chunks[s] THEN "slot" ELSE "insert")
        /\ UNCHANGED <<entries, writer, pool, cursor, poisoned, len, slots,
                       cache, val, sym, idx, used, known, history>>

\* push: the chunk of the index, published if it is not there yet.
PushChunk(t) ==
    LET s == ShardOf[val[t]]
    IN  /\ pc[t] = "chunk"
        /\ ChunkOf(idx[t]) < NumChunks
        /\ chunks' = [chunks EXCEPT ![s] = @ \cup {ChunkOf(idx[t])}]
        /\ Goto(t, "slot")
        /\ UNCHANGED <<entries, writer, pool, cursor, poisoned, len, slots,
                       cache, val, sym, idx, used, known, history>>

\* push: chunks[chunk_idx] is out of bounds.
PushPanic(t) ==
    /\ pc[t] = "chunk"
    /\ ChunkOf(idx[t]) >= NumChunks
    /\ Panic(t)
    /\ UNCHANGED <<entries, pool, cursor, poisoned, len, chunks, slots>>

\* push: the slot gets the offset alloc returned, that of the last record.
PushSlot(t) ==
    LET s == ShardOf[val[t]]
    IN  /\ pc[t] = "slot"
        /\ slots' = [slots EXCEPT ![s][idx[t]] = Len(pool[s])]
        /\ Goto(t, "insert")
        /\ UNCHANGED <<entries, writer, pool, cursor, poisoned, len, chunks,
                       cache, val, sym, idx, used, known, history>>

\* (mutant) Symbol::new without its assertion.
InsertUnchecked(t) ==
    LET s == ShardOf[val[t]]
    IN  /\ pc[t] = "insert"
        /\ entries' = [entries EXCEPT ![s] = @ \cup {idx[t]}]
        /\ Unlock(s)
        /\ Found(t, idx[t])
        /\ UNCHANGED <<pool, cursor, poisoned, len, chunks, slots>>

\* Symbol::new, entry.insert, unlock, and the thread's cache.
Insert(t) ==
    LET s == ShardOf[val[t]]
    IN  /\ pc[t] = "insert"
        /\ idx[t] < MaxIndex
        /\ entries' = [entries EXCEPT ![s] = @ \cup {idx[t]}]
        /\ Unlock(s)
        /\ Found(t, idx[t])
        /\ UNCHANGED <<pool, cursor, poisoned, len, chunks, slots>>

\* Symbol::new: "Symbol index overflow".
InsertPanic(t) ==
    /\ pc[t] = "insert"
    /\ idx[t] >= MaxIndex
    /\ Panic(t)
    /\ UNCHANGED <<entries, pool, cursor, poisoned, len, chunks, slots>>

-----------------------------------------------------------------------------
(* resolve: three loads, no lock.                                          *)

\* The caller may hold any symbol: Symbol::from_raw is public.
Resolve(t, y) ==
    /\ pc[t] = "idle"
    /\ Goto(t, "rlen")
    /\ sym' = [sym EXCEPT ![t] = y]
    /\ known' = [known EXCEPT ![t] = \E v \in Values : Given(v, y)]
    /\ UNCHANGED <<shared, cache, val, idx, used, history>>

\* One load of resolve: go on if it succeeds, otherwise answer None.
Load(t, step, ok, next) ==
    /\ pc[t] = step
    /\ IF ok
       THEN Goto(t, next) /\ UNCHANGED <<val, sym, idx, used, known, history>>
       ELSE AnswerNone(t)
    /\ UNCHANGED <<shared, cache>>

\* (mutant) The last index is taken for one past the end.
LoadLenOffByOne(t) ==
    Load(t, "rlen", sym[t][2] + 1 < len[sym[t][1]], "rchunk")

LoadLen(t) == Load(t, "rlen", sym[t][2] < len[sym[t][1]], "rchunk")

LoadChunk(t) ==
    Load(t, "rchunk", ChunkOf(sym[t][2]) \in chunks[sym[t][1]], "rslot")

\* get_from_chunk: the offset, and the record behind it.
LoadSlot(t) ==
    LET s == sym[t][1]
        i == sym[t][2]
    IN  /\ pc[t] = "rslot"
        /\ IF slots[s][i] = 0 THEN AnswerNone(t)
                              ELSE Answer(t, StringAt(s, i), sym[t])
        /\ UNCHANGED <<shared, cache>>

-----------------------------------------------------------------------------
(* bytes: the cursors are read one after the other, then the bytes below    *)
(* them are copied; those never change.                                    *)

Bytes(t) ==
    /\ pc[t] = "idle"
    /\ Goto(t, "save")
    /\ before' = [before EXCEPT ![t] = observed]
    /\ UNCHANGED <<shared, cache, val, sym, idx, used, known, observed, denied>>

LoadCursor(t) ==
    /\ pc[t] = "save"
    /\ Len(used[t]) < ShardCount
    /\ used' = [used EXCEPT ![t] = Append(@, Len(pool[Len(@)]))]
    /\ UNCHANGED <<shared, cache, pc, val, sym, idx, known, history>>

Copied(t) ==
    /\ pc[t] = "save"
    /\ Len(used[t]) = ShardCount
    /\ Leave(t)
    /\ before' = [before EXCEPT ![t] = {}]
    /\ UNCHANGED <<shared, cache, observed, denied>>

-----------------------------------------------------------------------------
\* The steps a call takes by itself once it has begun.
Step(t) ==
    \/ Find(t)
    \/ Get(t)
    \/ Lock(t)
    \/ Alloc(t)
    \/ AllocPanic(t)
    \/ PushLen(t)
    \/ PushChunk(t)
    \/ PushPanic(t)
    \/ PushSlot(t)
    \/ Insert(t)
    \/ InsertPanic(t)
    \/ LoadLen(t)
    \/ LoadChunk(t)
    \/ LoadSlot(t)
    \/ LoadCursor(t)
    \/ Copied(t)

Next ==
    \/ \E t \in Threads : Step(t)
    \/ \E t \in Interning, v \in Values :
          \/ CacheHit(t, v)
          \/ CacheMiss(t, v, "find")
          \/ CacheMiss(t, v, "get")
    \/ \E t \in Interning, v \in OtherValues, y \in Symbols :
          OtherInterner(t, v, y)
    \/ \E t \in Resolving, y \in Symbols : Resolve(t, y)
    \/ \E t \in Saving : Bytes(t)

Spec == Init /\ [][Next]_vars

\* A thread inside a call keeps running, and parking_lot's RwLock does not
\* pass a waiting thread over forever.  No thread has to make another call.
Fairness == \A t \in Threads : SF_vars(Step(t))

FairSpec == Spec /\ Fairness

-----------------------------------------------------------------------------
(* from_bytes.                                                             *)

\* (mutant) The loop stops one record early.
SavedRecordsShort(u) ==
    UNION {{<<s, n>> : n \in 1..(u[s + 1] - 1)} : s \in Shards}

\* The records of a saved arena: <<region, position>>.
SavedRecords(u) == UNION {{<<s, n>> : n \in 1..u[s + 1]} : s \in Shards}

Earlier(p, q) == p[1] < q[1] \/ (p[1] = q[1] /\ p[2] < q[2])

RecordValue(p) == pool[p[1]][p[2]]

\* insert_unique appends each record to the shard of its hash, in file order.
DecodedSymbol(u, p) ==
    LET s == ShardOf[RecordValue(p)]
    IN  <<s, Cardinality({q \in SavedRecords(u) :
                            Earlier(q, p) /\ ShardOf[RecordValue(q)] = s})>>

FromBytes(u) ==
    {<<RecordValue(p), DecodedSymbol(u, p)>> : p \in SavedRecords(u)}

-----------------------------------------------------------------------------
(* Properties.                                                             *)

TypeOK ==
    /\ entries \in [Shards -> SUBSET (0..(MaxIndex - 1))]
    /\ writer \in [Shards -> Interning \cup {None}]
    /\ pool \in [Shards -> Seq(Values)]
    /\ cursor \in [Shards -> Nat]
    /\ poisoned \subseteq Shards
    /\ len \in [Shards -> Nat]
    /\ chunks \in [Shards -> SUBSET (0..(NumChunks - 1))]
    /\ slots \in [Shards -> [Indices -> Nat]]
    /\ cache \in [Threads -> [{LineOf[v] : v \in Values} \X Ways
                                 -> CacheEntry \cup {None}]]
    /\ pc \in [Threads -> Steps]
    /\ val \in [Threads -> Values \cup {None}]
    /\ sym \in [Threads -> Symbols \cup {None}]
    /\ idx \in [Threads -> Nat]
    /\ used \in [Threads -> Seq(Nat)]
    /\ known \in [Threads -> BOOLEAN]
    /\ before \in [Threads -> SUBSET (Values \X Symbols)]
    /\ observed \subseteq Values \X Symbols
    /\ denied \in BOOLEAN

Agree(S) == \A p, q \in S : p[1] = q[1] <=> p[2] = q[2]

\* Equal strings, equal symbols, and only then: over all answers of
\* get_or_intern, get and resolve, to all threads and for ever, through the
\* cache, the table and the lock-free array alike.
Canonical == Agree(observed)

\* What has been given out is found: get knows the string and resolve the
\* symbol, in every call that begins after the answer, whatever other pushes
\* are under way.
NeverDenied == ~ denied

\* The SAFETY comments in get_or_intern: an index taken from the table is
\* below len, its chunk is published and its slot is stored, so get_unchecked
\* reads a record that is there.
UncheckedIsSafe ==
    \A s \in Shards : \A i \in entries[s] :
        /\ i < len[s]
        /\ ChunkOf(i) \in chunks[s]
        /\ slots[s][i] \in 1..Len(pool[s])

\* An arena saved while others intern decodes to an interner that agrees with
\* this one on every symbol, and knows all that was given out before bytes(),
\* unless it holds a record whose index overflowed: Symbol::new panics after
\* the record is written, and from_bytes panics on it again.
SnapshotDecodes ==
    \A t \in Saving :
        /\ pc[t] = "save" /\ Len(used[t]) = ShardCount
        /\ \A s \in Shards : used[t][s + 1] <= MaxIndex
        =>  LET decoded == FromBytes(used[t])
            IN  /\ before[t] \subseteq decoded
                /\ decoded \subseteq Values \X Symbols
                /\ Agree(observed \cup decoded)

\* The writes of alloc stay inside the shard's region, and len() counts the
\* strings of every shard that nobody is pushing to, until it overflows.
ArenaInBounds ==
    \A s \in Shards :
        /\ cursor[s] <= RegionSize
        /\ writer[s] = None /\ len[s] <= MaxIndex =>
              len[s] = Len(pool[s]) /\ len[s] = Cardinality(entries[s])

\* Every call returns or panics, and a panic leaves no lock behind.
CallsReturn == \A t \in Threads : pc[t] # "idle" ~> pc[t] = "idle"

\* The benchmark "cache_hit": a string this thread has interned, and whose
\* entry is still in its cache, is answered by the cache.
CacheAnswers ==
    \A t \in Interning :
        pc[t] = "find" =>
            \A w \in Candidates(t, val[t]) :
                ~ Given(val[t], cache[t][<<LineOf[val[t]], w>>].symbol)
=============================================================================
