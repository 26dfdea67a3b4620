----------------------------- MODULE TruthTable -----------------------------
(***************************************************************************)
(* The merge-join of the Postgres and SQLite sync logs:                    *)
(* crates/database/src/sync/truth_table.rs, with the row order of          *)
(* crates/database/src/sync/log_row.rs.                                    *)
(*                                                                         *)
(* Both logs are read as streams ordered by key and walked in lockstep.    *)
(* Each stream has a one-row lookahead (its head).  One call of next_entry *)
(* loops: it compares the heads, pulls the next row of the side (or sides) *)
(* with the smaller key, concurrently when the keys are equal, and turns   *)
(* the rows it hands over into a report, or skips them when the two sides  *)
(* agree.  Every pull is an await: the two pulls of a round complete in    *)
(* either order, each may fail, and the caller may drop the call between   *)
(* them.                                                                   *)
(*                                                                         *)
(* A key is a pair of numbers, <<table name, record id>>; the order of the *)
(* numbers stands for str::cmp, the byte-wise order that both queries ask  *)
(* their database for.  A stream is the snapshot its SELECT took.          *)
(*                                                                         *)
(* Operators marked (mutant) are wrong variants of the definition that     *)
(* follows them; nothing uses them but mutation testing.                   *)
(***************************************************************************)
EXTENDS Integers, Sequences

CONSTANTS
    Keys,       \* the (table_name, record_id) pairs a log may hold
    Entries,    \* the values of a log row: op, version, updated_at
    None,       \* Rust's None
    Interned,   \* the table names the schema's interner holds
    SymbolOf,   \* the interner: name -> Symbol
    MaxCancels  \* bound on the calls of next_entry the caller drops

ASSUME KeysAssumption == Keys \subseteq Int \X Int

ASSUME EntriesAssumption ==
    /\ Entries \subseteq [op : {"I", "U", "D"}, version : Int, updated_at : Int]
    /\ None \notin [op : {"I", "U", "D"}, version : Int, updated_at : Int]

\* The interner gives different strings different symbols (see module
\* StringInterner); no order on symbols is assumed.
ASSUME SymbolAssumption ==
    /\ Interned \subseteq Int
    /\ SymbolOf \in [Interned -> Int]
    /\ \A m, n \in Interned : SymbolOf[m] = SymbolOf[n] => m = n
    /\ None \notin Int

ASSUME HeadAssumption ==
    None \notin [table : Int, record_id : Int, op : {"I", "U", "D"},
                 version : Int, updated_at : Int]

ASSUME BoundAssumption == MaxCancels \in Nat

VARIABLES
    pgLog,      \* the snapshot the Postgres stream reads: key -> entry or None
    sqLog,      \* the snapshot the SQLite stream reads
    rest,       \* per side, the keys of the rows its stream has not delivered
    cache,      \* per side, the TableCache: last table name and its symbol
    head,       \* per side, the lookahead row (pg_head, sq_head)
    polled,     \* the sides that this round pulls from
    inflight,   \* the pulls of this round that have not completed
    fetched,    \* per side, what its pull of this round returned
    phase,      \* where the caller is, see Phases
    out,        \* the SyncTruthEntry values returned so far
    cancels     \* calls of next_entry dropped by the caller

vars == <<pgLog, sqLog, rest, cache, head, polled, inflight, fetched, phase,
          out, cancels>>

Sides == {"pg", "sq"}

\* priming: in new(); ready: between calls; fetching: in next_entry();
\* done: next_entry() returned Ok(None); failed: a call returned Err.
Phases == {"priming", "ready", "fetching", "done", "failed"}

Ops == {"I", "U", "D"}

HeadRow == [table : Int, record_id : Int, op : Ops, version : Int,
            updated_at : Int]

TableCache == [name : Int, symbol : Int \cup {None}]

SyncTruthEntry ==
    [postgres : HeadRow \cup {None}, sqlite : HeadRow \cup {None},
     action : {"ApplyFromPostgres", "ApplyFromSQLite", "Conflict"}]

-----------------------------------------------------------------------------
(* Rows, symbols and their order.                                          *)

Log(s) == IF s = "pg" THEN pgLog ELSE sqLog

\* No side has a row: the locals of a round that is over.
NoRows == [s \in Sides |-> None]

\* (mutant) the query leaves the table name out of its ORDER BY.
NextRowByRecord(s, k) ==
    /\ k \in rest[s]
    /\ \A j \in rest[s] : k[2] <= j[2]

\* ORDER BY table_name, record_id, with the byte-wise collation of both
\* queries: the next row of a stream has the smallest key left.
KeyLess(a, b) ==
    \/ a[1] < b[1]
    \/ a[1] = b[1] /\ a[2] < b[2]

NextRow(s, k) ==
    /\ k \in rest[s]
    /\ \A j \in rest[s] : j = k \/ KeyLess(k, j)

\* schema.resolve_symbol
NameOf(symbol) == CHOOSE n \in Interned : SymbolOf[n] = symbol

\* (mutant) the memo answers for every name.
CacheHitAnyName(c, name) == c.symbol # None

\* TableCache::symbol_for: the memo when it is set and holds this name,
\* otherwise the schema; None stands for UnknownTable.
CacheHit(c, name) == c.symbol # None /\ c.name = name

SymbolFor(c, name) ==
    IF CacheHit(c, name) THEN c.symbol
    ELSE IF name \in Interned THEN SymbolOf[name] ELSE None

CacheAfter(c, name) ==
    IF CacheHit(c, name) THEN c
    ELSE [name |-> name, symbol |-> SymbolFor(c, name)]

\* Head::new, and the fields Head::into_entry keeps.
NewHead(s, k) ==
    [table |-> SymbolFor(cache[s], k[1]), record_id |-> k[2],
     op |-> Log(s)[k].op, version |-> Log(s)[k].version,
     updated_at |-> Log(s)[k].updated_at]

Cmp(x, y) == IF x < y THEN "Less" ELSE IF x = y THEN "Equal" ELSE "Greater"

\* (mutant) tables are ordered by symbol, without resolving their names.
CmpHeadsBySymbol(a, b) ==
    IF a.table = b.table
    THEN Cmp(a.record_id, b.record_id)
    ELSE Cmp(a.table, b.table)

\* cmp_heads: equal symbols skip the string comparison.
CmpHeads(a, b) ==
    IF a.table = b.table
    THEN Cmp(a.record_id, b.record_id)
    ELSE Cmp(NameOf(a.table), NameOf(b.table))

\* `ord` of the loop in next_entry; both heads None never gets here.
Ord(h) ==
    IF h["sq"] = None THEN "Less"
    ELSE IF h["pg"] = None THEN "Greater"
    ELSE CmpHeads(h["pg"], h["sq"])

ToPoll(h) ==
    {s \in Sides : IF s = "pg" THEN Ord(h) # "Greater" ELSE Ord(h) # "Less"}

\* (mutant) the later updated_at wins, ties broken by version.
ResolveTimeFirst(p, s) ==
    IF s = None THEN "ApplyFromPostgres"
    ELSE IF p = None THEN "ApplyFromSQLite"
    ELSE LET ord == IF p.updated_at = s.updated_at
                    THEN Cmp(p.version, s.version)
                    ELSE Cmp(p.updated_at, s.updated_at)
         IN  CASE ord = "Greater" -> "ApplyFromPostgres"
               [] ord = "Less"    -> "ApplyFromSQLite"
               [] ord = "Equal"   -> IF p.op = s.op THEN "InSync"
                                                    ELSE "Conflict"

\* (mutant) equal stamps are taken as agreement, whatever the operations.
ResolveIgnoresOp(p, s) ==
    IF s = None THEN "ApplyFromPostgres"
    ELSE IF p = None THEN "ApplyFromSQLite"
    ELSE LET ord == IF p.version = s.version
                    THEN Cmp(p.updated_at, s.updated_at)
                    ELSE Cmp(p.version, s.version)
         IN  CASE ord = "Greater" -> "ApplyFromPostgres"
               [] ord = "Less"    -> "ApplyFromSQLite"
               [] ord = "Equal"   -> "InSync"

\* TruthTable::resolve, from the rows a round hands over; "InSync" stands
\* for its None.
Resolve(p, s) ==
    IF s = None THEN "ApplyFromPostgres"
    ELSE IF p = None THEN "ApplyFromSQLite"
    ELSE LET ord == IF p.version = s.version
                    THEN Cmp(p.updated_at, s.updated_at)
                    ELSE Cmp(p.version, s.version)
         IN  CASE ord = "Greater" -> "ApplyFromPostgres"
               [] ord = "Less"    -> "ApplyFromSQLite"
               [] ord = "Equal"   -> IF p.op = s.op THEN "InSync"
                                                    ELSE "Conflict"

-----------------------------------------------------------------------------
(* The operations.                                                         *)

\* TruthTable::new has opened both streams and its try_join! polls both.
Init ==
    /\ pgLog \in [Keys -> Entries \cup {None}]
    /\ sqLog \in [Keys -> Entries \cup {None}]
    /\ rest = [s \in Sides |-> {k \in Keys : Log(s)[k] # None}]
    /\ cache = [s \in Sides |-> [name |-> 0, symbol |-> None]]
    /\ head = NoRows
    /\ polled = Sides
    /\ inflight = Sides
    /\ fetched = NoRows
    /\ phase = "priming"
    /\ out = <<>>
    /\ cancels = 0

Polling(s) == phase \in {"priming", "fetching"} /\ s \in inflight

\* A pull completes with None: the stream is exhausted.
PullEnd(s) ==
    /\ Polling(s)
    /\ rest[s] = {}
    /\ inflight' = inflight \ {s}
    /\ UNCHANGED <<pgLog, sqLog, rest, cache, head, polled, fetched, phase,
                   out, cancels>>

\* A pull completes with a row whose table the schema knows.
PullRow(s) ==
    /\ Polling(s)
    /\ \E k \in rest[s] :
          /\ NextRow(s, k)
          /\ SymbolFor(cache[s], k[1]) # None
          /\ rest' = [rest EXCEPT ![s] = @ \ {k}]
          /\ fetched' = [fetched EXCEPT ![s] = NewHead(s, k)]
          /\ cache' = [cache EXCEPT ![s] = CacheAfter(@, k[1])]
    /\ inflight' = inflight \ {s}
    /\ UNCHANGED <<pgLog, sqLog, head, polled, phase, out, cancels>>

\* try_join! returns the first error and drops the other pull and its row.
Failed ==
    /\ phase' = "failed"
    /\ polled' = {}
    /\ inflight' = {}
    /\ fetched' = NoRows

\* A pull completes with a row whose table the schema does not know.
PullUnknownTable(s) ==
    /\ Polling(s)
    /\ \E k \in rest[s] :
          /\ NextRow(s, k)
          /\ SymbolFor(cache[s], k[1]) = None
          /\ rest' = [rest EXCEPT ![s] = @ \ {k}]
    /\ Failed
    /\ UNCHANGED <<pgLog, sqLog, cache, head, out, cancels>>

\* The stream, or the decoding of a row, reports a database error.
PullError(s) ==
    /\ Polling(s)
    /\ Failed
    /\ UNCHANGED <<pgLog, sqLog, rest, cache, head, out, cancels>>

\* Both lookaheads are primed: new() returns.
Primed ==
    /\ phase = "priming"
    /\ inflight = {}
    /\ head' = fetched
    /\ phase' = "ready"
    /\ polled' = {}
    /\ fetched' = NoRows
    /\ UNCHANGED <<pgLog, sqLog, rest, cache, inflight, out, cancels>>

\* (mutant) both streams are pulled whatever the order of the heads.
RoundPullsBoth(h) ==
    IF h["pg"] = None /\ h["sq"] = None
    THEN phase' = "done" /\ polled' = {} /\ inflight' = {}
    ELSE phase' = "fetching" /\ polled' = ToPoll(h) /\ inflight' = Sides

\* (mutant) the early return of the arm (None, None) is missing.
RoundNoReturn(h) ==
    phase' = "fetching" /\ polled' = ToPoll(h) /\ inflight' = ToPoll(h)

\* The top of the loop in next_entry, with the heads h.
Round(h) ==
    IF h["pg"] = None /\ h["sq"] = None
    THEN phase' = "done" /\ polled' = {} /\ inflight' = {}
    ELSE phase' = "fetching" /\ polled' = ToPoll(h) /\ inflight' = ToPoll(h)

\* The caller calls next_entry; after Ok(None) it may call it again.
NextEntry ==
    /\ phase \in {"ready", "done"}
    /\ Round(head)
    /\ UNCHANGED <<pgLog, sqLog, rest, cache, head, fetched, out, cancels>>

\* (mutant) the end of a stream does not replace its head.
AdvancedKeepsLast ==
    [s \in Sides |-> IF s \in polled /\ fetched[s] # None THEN fetched[s]
                                                          ELSE head[s]]

\* advance: the fetched row becomes the head, the old head is handed over.
Advanced == [s \in Sides |-> IF s \in polled THEN fetched[s] ELSE head[s]]

HandedOver(s) == IF s \in polled THEN head[s] ELSE None

RoundVerdict == Resolve(HandedOver("pg"), HandedOver("sq"))

\* All pulls of the round are in and the sides differ: return the entry.
Emit ==
    /\ phase = "fetching"
    /\ inflight = {}
    /\ RoundVerdict # "InSync"
    /\ out' = Append(out, [postgres |-> HandedOver("pg"),
                           sqlite   |-> HandedOver("sq"),
                           action   |-> RoundVerdict])
    /\ head' = Advanced
    /\ phase' = "ready"
    /\ polled' = {}
    /\ fetched' = NoRows
    /\ UNCHANGED <<pgLog, sqLog, rest, cache, inflight, cancels>>

\* ... or the sides agree on the record: loop.
Skip ==
    /\ phase = "fetching"
    /\ inflight = {}
    /\ RoundVerdict = "InSync"
    /\ head' = Advanced
    /\ Round(Advanced)
    /\ fetched' = NoRows
    /\ UNCHANGED <<pgLog, sqLog, rest, cache, out, cancels>>

\* The caller drops the future of next_entry while a pull is pending: rows
\* already pulled in this round are lost, the streams keep their position.
Cancel ==
    /\ phase = "fetching"
    /\ inflight # {}
    /\ cancels < MaxCancels
    /\ cancels' = cancels + 1
    /\ phase' = "ready"
    /\ polled' = {}
    /\ inflight' = {}
    /\ fetched' = NoRows
    /\ UNCHANGED <<pgLog, sqLog, rest, cache, head, out>>

Pull(s) == PullEnd(s) \/ PullRow(s) \/ PullUnknownTable(s) \/ PullError(s)

Next ==
    \/ \E s \in Sides : \/ PullEnd(s)
                        \/ PullRow(s)
                        \/ PullUnknownTable(s)
                        \/ PullError(s)
    \/ Primed
    \/ NextEntry
    \/ Emit
    \/ Skip
    \/ Cancel

Spec == Init /\ [][Next]_vars

\* A pull that has been polled completes: the database answers or the
\* connection errs, and the executor resumes the future.  Nothing is assumed
\* of the caller: it need not call next_entry again.
Fairness ==
    /\ \A s \in Sides : WF_vars(Pull(s))
    /\ WF_vars(Primed)
    /\ WF_vars(Emit)
    /\ WF_vars(Skip)

FairSpec == Spec /\ Fairness

-----------------------------------------------------------------------------
(* The abstract specification this module implements.                      *)

HeadKey(h) == <<NameOf(h.table), h.record_id>>

RowOf(h) ==
    IF h = None THEN None
    ELSE [op |-> h.op, version |-> h.version, updated_at |-> h.updated_at]

EntryKey(e) == HeadKey(IF e.postgres # None THEN e.postgres ELSE e.sqlite)

ReportOf(e) ==
    [key |-> EntryKey(e), postgres |-> RowOf(e.postgres),
     sqlite |-> RowOf(e.sqlite), action |-> e.action]

Abstract == INSTANCE TruthTableSpec WITH
    reported <- [i \in DOMAIN out |-> ReportOf(out[i])],
    status   <- IF phase \in {"done", "failed"} THEN phase ELSE "open"

\* Absent cancellation, the merge-join is an implementation of the promise:
\* every divergent record is reported once, in key order, with the verdict of
\* the documented policy, and Ok(None) comes only when none is left.  Covers
\* next_entry, resolve and advance, with both fetch orders and all failures.
ImplementsAbstract == Abstract!Spec

-----------------------------------------------------------------------------
(* Properties.                                                             *)

TypeOK ==
    /\ pgLog \in [Keys -> Entries \cup {None}]
    /\ sqLog \in [Keys -> Entries \cup {None}]
    /\ rest \in [Sides -> SUBSET Keys]
    /\ cache \in [Sides -> TableCache]
    /\ head \in [Sides -> HeadRow \cup {None}]
    /\ polled \subseteq Sides
    /\ inflight \subseteq polled
    /\ fetched \in [Sides -> HeadRow \cup {None}]
    /\ phase \in Phases
    /\ out \in Seq(SyncTruthEntry)
    /\ cancels \in 0..MaxCancels

\* The rows a side has still to hand over: its head, what the current round
\* fetched for it, and what its stream has not delivered.
Unread(s) ==
    rest[s] \cup {k \in Keys : head[s] # None /\ HeadKey(head[s]) = k}
            \cup {k \in Keys : fetched[s] # None /\ HeadKey(fetched[s]) = k}

InLog(s) == {k \in Keys : Log(s)[k] # None}

Passed == {k \in Keys : \E s \in Sides : k \in InLog(s) \ Unread(s)}

OutKeys == {EntryKey(out[i]) : i \in DOMAIN out}

\* The arm `(None, None) => unreachable!(...)` of resolve is unreachable, and
\* a stream that has ended is not polled again: a round pulls only from sides
\* that have a row to hand over, and from at least one.
PolledSidesHaveHeads ==
    phase = "fetching" =>
        /\ polled # {}
        /\ \A s \in polled : head[s] # None

\* The debug_assert! of advance: a stream is strictly ascending by key, as
\* cmp_heads sees it through symbols and the table memo.
StreamsAscend ==
    phase = "fetching" =>
        \A s \in Sides : fetched[s] # None /\ head[s] # None =>
            CmpHeads(fetched[s], head[s]) = "Greater"

\* Whatever a caller does, cancelled calls included, the reports come in
\* strictly ascending key order and never go back behind a row still to come.
ReportsAscend ==
    /\ \A i, j \in DOMAIN out :
          i < j => KeyLess(EntryKey(out[i]), EntryKey(out[j]))
    /\ \A i \in DOMAIN out, s \in Sides : \A k \in Unread(s) :
          KeyLess(EntryKey(out[i]), k)

\* While no call is cancelled, the reports are exactly the divergent records
\* the merge has passed, each with both sides' rows and the policy's verdict;
\* at Ok(None) they are all the divergent records of the two logs.
ReportsAreTruth ==
    cancels = 0 =>
        /\ \A i \in DOMAIN out :
              /\ EntryKey(out[i]) \in Abstract!Divergent
              /\ ReportOf(out[i]) = Abstract!ReportFor(EntryKey(out[i]))
        /\ phase # "failed" =>
              \A k \in Abstract!Divergent : k \in Passed => k \in OutKeys
        /\ phase = "done" => OutKeys = Abstract!Divergent

\* Ok(None) is never returned past a row of a table the schema does not know:
\* symbol_for's memo cannot hide an unknown table.
DoneMeansKnown ==
    phase = "done" =>
        \A s \in Sides : \A k \in InLog(s) : k[1] \in Interned

\* new() and every call of next_entry return, however many records the two
\* sides agree on in a row.
CallsReturn ==
    phase \in {"priming", "fetching"} ~> phase \in {"ready", "done", "failed"}
=============================================================================
