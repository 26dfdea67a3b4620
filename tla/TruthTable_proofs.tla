------------------------- MODULE TruthTable_proofs -------------------------
(***************************************************************************)
(* Proofs about the merge-join of module TruthTable, for every set of      *)
(* keys, every pair of logs and every interner.                            *)
(*                                                                         *)
(* The inductive invariant IInv relates the three places a row can be in   *)
(* (the stream, the round in progress, the lookahead) to the log it comes  *)
(* from, and the reports to the rows that have been handed over.           *)
(***************************************************************************)
EXTENDS TruthTable, TLAPS

-----------------------------------------------------------------------------
(* The inductive invariant.                                                *)

\* A row in memory is a row of the log of its side, under its interned name.
IsRow(s, h) ==
    h # None =>
        /\ h \in HeadRow
        /\ NameOf(h.table) \in Interned
        /\ SymbolOf[NameOf(h.table)] = h.table
        /\ HeadKey(h) \in InLog(s)
        /\ RowOf(h) = Log(s)[HeadKey(h)]

RowsAreReal ==
    \A s \in Sides :
        /\ IsRow(s, head[s])
        /\ IsRow(s, fetched[s])
        /\ rest[s] \subseteq InLog(s)

\* The memo of a stream is empty or agrees with the interner.
CacheIsRight ==
    \A s \in Sides :
        cache[s].symbol # None =>
            /\ cache[s].name \in Interned
            /\ cache[s].symbol = SymbolOf[cache[s].name]

\* Each side hands its rows over in order: head, then fetched, then rest.
SidesAreOrdered ==
    \A s \in Sides :
        /\ head[s] # None => \A k \in rest[s] : KeyLess(HeadKey(head[s]), k)
        /\ fetched[s] # None =>
              \A k \in rest[s] : KeyLess(HeadKey(fetched[s]), k)
        /\ fetched[s] # None /\ head[s] # None =>
              KeyLess(HeadKey(head[s]), HeadKey(fetched[s]))

\* What the phase says of the round in progress and of the lookaheads.
PhaseIsRight ==
    /\ phase \in {"ready", "done", "failed"} => polled = {}
    /\ phase = "priming" => polled = Sides /\ head = NoRows /\ out = <<>>
    /\ phase = "fetching" =>
          /\ ~ (head["pg"] = None /\ head["sq"] = None)
          /\ polled = ToPoll(head)
    /\ phase = "done" => head["pg"] = None /\ head["sq"] = None
    /\ \A s \in Sides :
          /\ s \notin polled \/ s \in inflight => fetched[s] = None
          /\ phase \in {"ready", "fetching", "done"} /\ head[s] = None =>
                rest[s] = {}
          /\ s \in polled \ inflight /\ fetched[s] = None => rest[s] = {}

\* Every row a stream has delivered belongs to a table the schema knows.
DeliveredAreKnown ==
    phase # "failed" =>
        \A s \in Sides : \A k \in InLog(s) \ rest[s] : k[1] \in Interned

\* Without cancelled calls, what one side has handed over comes before what
\* any side has still to hand over.
Frontier ==
    cancels = 0 /\ phase # "failed" =>
        \A j \in Passed, s \in Sides : \A k \in Unread(s) : KeyLess(j, k)

\* The reports are right, and none is missing.
OutIsRight ==
    cancels = 0 =>
        /\ \A i \in DOMAIN out :
              /\ EntryKey(out[i]) \in Abstract!Divergent
              /\ ReportOf(out[i]) = Abstract!ReportFor(EntryKey(out[i]))
        /\ phase # "failed" =>
              \A k \in Abstract!Divergent : k \in Passed => k \in OutKeys

IInv ==
    /\ TypeOK
    /\ RowsAreReal
    /\ CacheIsRight
    /\ SidesAreOrdered
    /\ PhaseIsRight
    /\ DeliveredAreKnown
    /\ ReportsAscend
    /\ Frontier
    /\ OutIsRight

-----------------------------------------------------------------------------
(* Facts about keys, symbols and rows.                                     *)

\* resolve_symbol undoes the interning of a table name.
LEMMA NameOfSymbol ==
    ASSUME NEW n \in Interned
    PROVE  NameOf(SymbolOf[n]) = n
<1>1. \E m \in Interned : SymbolOf[m] = SymbolOf[n]
  OBVIOUS
<1>2. /\ NameOf(SymbolOf[n]) \in Interned
      /\ SymbolOf[NameOf(SymbolOf[n])] = SymbolOf[n]
  BY <1>1 DEF NameOf
<1> QED
  BY <1>2, SymbolAssumption

\* The byte-wise order of keys is a strict total order.
LEMMA KeyOrder ==
    ASSUME NEW a \in Int \X Int, NEW b \in Int \X Int, NEW c \in Int \X Int
    PROVE  /\ ~ KeyLess(a, a)
           /\ KeyLess(a, b) /\ KeyLess(b, c) => KeyLess(a, c)
           /\ KeyLess(a, b) \/ a = b \/ KeyLess(b, a)
           /\ KeyLess(a, b) => a # b /\ ~ KeyLess(b, a)
BY DEF KeyLess

\* cmp_heads compares keys, although it looks at symbols first.
LEMMA CmpHeadsByKey ==
    ASSUME NEW a \in HeadRow, NEW b \in HeadRow,
           NameOf(a.table) \in Interned, NameOf(b.table) \in Interned,
           SymbolOf[NameOf(a.table)] = a.table,
           SymbolOf[NameOf(b.table)] = b.table
    PROVE  /\ CmpHeads(a, b) \in {"Less", "Equal", "Greater"}
           /\ CmpHeads(a, b) = "Less" <=> KeyLess(HeadKey(a), HeadKey(b))
           /\ CmpHeads(a, b) = "Equal" <=> HeadKey(a) = HeadKey(b)
           /\ CmpHeads(a, b) = "Greater" <=> KeyLess(HeadKey(b), HeadKey(a))
<1> DEFINE m == NameOf(a.table)
           n == NameOf(b.table)
<1>1. m \in Int /\ n \in Int /\ (a.table = b.table <=> m = n)
  BY SymbolAssumption
<1>2. a.record_id \in Int /\ b.record_id \in Int
  BY DEF HeadRow
<1> HIDE DEF m, n
<1>3. CmpHeads(a, b) = IF m = n THEN Cmp(a.record_id, b.record_id)
                                ELSE Cmp(m, n)
  BY <1>1 DEF CmpHeads, m, n
<1>4. HeadKey(a) = <<m, a.record_id>> /\ HeadKey(b) = <<n, b.record_id>>
  BY DEF HeadKey, m, n
<1> QED
  BY <1>1, <1>2, <1>3, <1>4 DEF Cmp, KeyLess

\* resolve follows the documented policy.
LEMMA ResolveIsVerdict ==
    ASSUME NEW p \in HeadRow \cup {None}, NEW s \in HeadRow \cup {None},
           ~ (p = None /\ s = None)
    PROVE  Resolve(p, s) = Abstract!Verdict(RowOf(p), RowOf(s))
<1>0. \A h \in HeadRow :
        /\ RowOf(h) # None
        /\ h # None
        /\ RowOf(h) = [op |-> h.op, version |-> h.version,
                       updated_at |-> h.updated_at]
        /\ h.version \in Int /\ h.updated_at \in Int
  BY HeadAssumption, EntriesAssumption DEF RowOf, HeadRow, Ops
<1>1. CASE p = None \/ s = None
  BY <1>0, <1>1 DEF Resolve, Abstract!Verdict, RowOf
<1>2. CASE p # None /\ s # None
  <2> DEFINE r == RowOf(p)
             q == RowOf(s)
  <2>1. r # None /\ q # None
    BY <1>0, <1>2
  <2>2. /\ r.version = p.version /\ r.updated_at = p.updated_at
        /\ r.op = p.op
        /\ q.version = s.version /\ q.updated_at = s.updated_at
        /\ q.op = s.op
        /\ p.version \in Int /\ p.updated_at \in Int
        /\ s.version \in Int /\ s.updated_at \in Int
    BY <1>0, <1>2
  <2> HIDE DEF r, q
  <2>3. Abstract!Verdict(r, q) =
          IF Abstract!Newer(r, q) THEN "ApplyFromPostgres"
          ELSE IF Abstract!Newer(q, r) THEN "ApplyFromSQLite"
          ELSE IF r.op = q.op THEN "InSync" ELSE "Conflict"
    <3>1. ~ (Abstract!Newer(r, q) /\ Abstract!Newer(q, r))
      BY <2>2 DEF Abstract!Newer
    <3>2. Abstract!Verdict(r, q) =
            CASE Abstract!Newer(r, q) -> "ApplyFromPostgres"
              [] Abstract!Newer(q, r) -> "ApplyFromSQLite"
              [] OTHER -> IF r.op = q.op THEN "InSync" ELSE "Conflict"
      BY <2>1 DEF Abstract!Verdict
    <3> QED
      BY <3>1, <3>2
  <2>4. Abstract!Newer(r, q) <=>
          p.version > s.version
            \/ (p.version = s.version /\ p.updated_at > s.updated_at)
    BY <2>2 DEF Abstract!Newer
  <2>5. Abstract!Newer(q, r) <=>
          s.version > p.version
            \/ (p.version = s.version /\ s.updated_at > p.updated_at)
    BY <2>2 DEF Abstract!Newer
  <2>6. Resolve(p, s) =
          IF p.version > s.version
               \/ (p.version = s.version /\ p.updated_at > s.updated_at)
          THEN "ApplyFromPostgres"
          ELSE IF s.version > p.version
                    \/ (p.version = s.version /\ s.updated_at > p.updated_at)
          THEN "ApplyFromSQLite"
          ELSE IF p.op = s.op THEN "InSync" ELSE "Conflict"
    <3> DEFINE ord == IF p.version = s.version
                      THEN Cmp(p.updated_at, s.updated_at)
                      ELSE Cmp(p.version, s.version)
    <3>1. /\ ord \in {"Less", "Equal", "Greater"}
          /\ ord = "Greater" <=>
               p.version > s.version
                 \/ (p.version = s.version /\ p.updated_at > s.updated_at)
          /\ ord = "Less" <=>
               s.version > p.version
                 \/ (p.version = s.version /\ s.updated_at > p.updated_at)
      BY <2>2 DEF Cmp
    <3>2. Resolve(p, s) =
            CASE ord = "Greater" -> "ApplyFromPostgres"
              [] ord = "Less"    -> "ApplyFromSQLite"
              [] ord = "Equal"   -> IF p.op = s.op THEN "InSync"
                                                   ELSE "Conflict"
      BY <1>2 DEF Resolve
    <3> HIDE DEF ord
    <3> QED
      BY <3>1, <3>2
  <2>7. Resolve(p, s) = Abstract!Verdict(r, q)
    BY <2>2, <2>3, <2>4, <2>5, <2>6
  <2> QED
    BY <2>7 DEF r, q
<1> QED
  BY <1>1, <1>2

\* What a row in memory is worth: a key of the log of its side.
LEMMA RowKey ==
    ASSUME NEW s \in Sides, NEW h, h # None, IsRow(s, h)
    PROVE  /\ HeadKey(h) \in Keys
           /\ HeadKey(h) \in Int \X Int
           /\ HeadKey(h) \in InLog(s)
BY KeysAssumption DEF IsRow, InLog

\* Head::new builds a row of the log from the next row of the stream, and
\* the table memo gives it the symbol of its own table.
LEMMA NewHeadIsRow ==
    ASSUME TypeOK, RowsAreReal, CacheIsRight,
           NEW s \in Sides, NEW k \in rest[s],
           SymbolFor(cache[s], k[1]) # None
    PROVE  /\ NewHead(s, k) # None
           /\ NewHead(s, k) \in HeadRow
           /\ HeadKey(NewHead(s, k)) = k
           /\ IsRow(s, NewHead(s, k))
           /\ k[1] \in Interned
<1>1. k \in Keys /\ k \in InLog(s) /\ k \in Int \X Int
  BY KeysAssumption DEF RowsAreReal, InLog
<1>2. Log(s)[k] \in Entries
  BY <1>1 DEF InLog, TypeOK, Log
<1>3. k[1] \in Interned /\ SymbolFor(cache[s], k[1]) = SymbolOf[k[1]]
  BY DEF SymbolFor, CacheHit, CacheIsRight
<1>4. SymbolOf[k[1]] \in Int
  BY <1>3, SymbolAssumption
<1> DEFINE h == NewHead(s, k)
<1>5. h = [table |-> SymbolOf[k[1]], record_id |-> k[2],
           op |-> Log(s)[k].op, version |-> Log(s)[k].version,
           updated_at |-> Log(s)[k].updated_at]
  BY <1>3 DEF NewHead
<1>6. h \in HeadRow
  BY <1>1, <1>2, <1>4, <1>5, EntriesAssumption DEF HeadRow, Ops
<1>7. h # None
  BY <1>6, HeadAssumption DEF HeadRow, Ops
<1>8. NameOf(h.table) = k[1]
  BY <1>3, <1>5, NameOfSymbol
<1>9. HeadKey(h) = k
  BY <1>1, <1>5, <1>8 DEF HeadKey
<1>10. RowOf(h) = Log(s)[k]
  BY <1>2, <1>5, <1>7, EntriesAssumption DEF RowOf
<1> HIDE DEF h
<1>11. IsRow(s, h)
  BY <1>1, <1>3, <1>5, <1>6, <1>8, <1>9, <1>10 DEF IsRow
<1> QED
  BY <1>3, <1>6, <1>7, <1>9, <1>11 DEF h

\* The rows a side has still to hand over.
LEMMA UnreadMembers ==
    ASSUME TypeOK, RowsAreReal, NEW s \in Sides, NEW k
    PROVE  k \in Unread(s) <=>
               \/ k \in rest[s]
               \/ head[s] # None /\ k = HeadKey(head[s])
               \/ fetched[s] # None /\ k = HeadKey(fetched[s])
<1>1. IsRow(s, head[s]) /\ IsRow(s, fetched[s])
  BY DEF RowsAreReal
<1>2. head[s] # None => HeadKey(head[s]) \in Keys
  BY <1>1, RowKey
<1>3. fetched[s] # None => HeadKey(fetched[s]) \in Keys
  BY <1>1, RowKey
<1> QED
  BY <1>2, <1>3 DEF Unread

LEMMA UnreadInLog ==
    ASSUME TypeOK, RowsAreReal, NEW s \in Sides
    PROVE  /\ Unread(s) \subseteq InLog(s)
           /\ InLog(s) \subseteq Keys
           /\ Keys \subseteq Int \X Int
<1>1. \A k \in Unread(s) : k \in InLog(s)
  <2> TAKE k \in Unread(s)
  <2>1. CASE k \in rest[s]
    BY <2>1 DEF RowsAreReal
  <2>2. CASE head[s] # None /\ k = HeadKey(head[s])
    BY <2>2, RowKey DEF RowsAreReal
  <2>3. CASE fetched[s] # None /\ k = HeadKey(fetched[s])
    BY <2>3, RowKey DEF RowsAreReal
  <2> QED
    BY <2>1, <2>2, <2>3, UnreadMembers
<1> QED
  BY <1>1, KeysAssumption DEF InLog

-----------------------------------------------------------------------------
(* The initial states.                                                     *)

LEMMA InitIInv == Init => IInv
<1> SUFFICES ASSUME Init PROVE IInv
  OBVIOUS
<1>1. TypeOK
  BY SymbolAssumption, BoundAssumption, EntriesAssumption
     DEF Init, TypeOK, NoRows, Sides, Phases, TableCache, InLog, Log
<1>2. RowsAreReal
  BY DEF Init, RowsAreReal, IsRow, NoRows, InLog, Log
<1>3. CacheIsRight
  BY DEF Init, CacheIsRight
<1>4. SidesAreOrdered
  BY DEF Init, SidesAreOrdered, NoRows
<1>5. PhaseIsRight
  BY DEF Init, PhaseIsRight, NoRows
<1>6. \A s \in Sides : rest[s] = InLog(s)
  BY DEF Init, InLog, Log
<1>7. Passed = {}
  BY <1>1, <1>2, <1>6, UnreadMembers DEF Passed
<1>8. DeliveredAreKnown /\ ReportsAscend /\ Frontier /\ OutIsRight
  BY <1>6, <1>7
     DEF Init, DeliveredAreKnown, ReportsAscend, Frontier, OutIsRight
<1> QED
  BY <1>1, <1>2, <1>3, <1>4, <1>5, <1>8 DEF IInv

-----------------------------------------------------------------------------
(* Pulls: a row moves from the stream into the round, nothing is handed     *)
(* over, and the rows still to be handed over stay the same.               *)

\* What depends on the two logs alone does not change with them.
LEMMA LogsAreConstant ==
    ASSUME UNCHANGED <<pgLog, sqLog>>
    PROVE  /\ \A s \in Sides : InLog(s)' = InLog(s)
           /\ \A s \in Sides : \A h : IsRow(s, h)' = IsRow(s, h)
           /\ Abstract!Divergent' = Abstract!Divergent
           /\ \A k : Abstract!ReportFor(k)' = Abstract!ReportFor(k)
BY DEF InLog, Log, IsRow, Abstract!Divergent, Abstract!ReportFor

\* The order of the reports survives a step that reports nothing and adds
\* no row to hand over.
LEMMA ReportsAscendKept ==
    ASSUME ReportsAscend, UNCHANGED out,
           \A s \in Sides : Unread(s)' \subseteq Unread(s)
    PROVE  ReportsAscend'
BY DEF ReportsAscend

\* A step that reports nothing and hands nothing over keeps the reports right.
LEMMA OutKept ==
    ASSUME Frontier, OutIsRight, UNCHANGED <<pgLog, sqLog, out, cancels>>,
           phase # "failed",
           \A s \in Sides : Unread(s)' = Unread(s)
    PROVE  Frontier' /\ OutIsRight'
<1>1. \A s \in Sides : InLog(s)' = InLog(s)
  BY LogsAreConstant
<1>2. Passed' = Passed
  BY <1>1 DEF Passed
<1>3. OutKeys' = OutKeys
  BY DEF OutKeys
<1>4. Frontier'
  BY <1>2 DEF Frontier
<1>5. OutIsRight'
  BY <1>2, <1>3, LogsAreConstant DEF OutIsRight
<1> QED
  BY <1>4, <1>5

LEMMA PullRowStep ==
    ASSUME IInv, NEW s \in Sides, PullRow(s)
    PROVE  IInv'
<1> USE DEF IInv
<1>1. PICK k \in rest[s] :
          /\ NextRow(s, k)
          /\ SymbolFor(cache[s], k[1]) # None
          /\ rest' = [rest EXCEPT ![s] = @ \ {k}]
          /\ fetched' = [fetched EXCEPT ![s] = NewHead(s, k)]
          /\ cache' = [cache EXCEPT ![s] = CacheAfter(@, k[1])]
  BY DEF PullRow
<1> DEFINE h == NewHead(s, k)
<1>2. /\ h # None /\ h \in HeadRow /\ HeadKey(h) = k /\ IsRow(s, h)
      /\ k[1] \in Interned
  BY <1>1, NewHeadIsRow
<1>3. /\ UNCHANGED <<pgLog, sqLog, head, polled, phase, out, cancels>>
      /\ phase \in {"priming", "fetching"}
      /\ s \in inflight
      /\ inflight' = inflight \ {s}
  BY DEF PullRow, Polling
<1>4. k \in Keys /\ Keys \subseteq Int \X Int
  BY KeysAssumption DEF TypeOK
<1> HIDE DEF h
<1>5. fetched[s] = None /\ s \in polled
  BY <1>3 DEF PhaseIsRight, TypeOK
<1>6. /\ fetched'[s] = h /\ rest'[s] = rest[s] \ {k}
      /\ \A t \in Sides \ {s} : fetched'[t] = fetched[t] /\ rest'[t] = rest[t]
  BY <1>1 DEF TypeOK, h
<1>7. CacheAfter(cache[s], k[1]) \in TableCache
      /\ CacheAfter(cache[s], k[1]).symbol
            = SymbolOf[CacheAfter(cache[s], k[1]).name]
      /\ CacheAfter(cache[s], k[1]).name \in Interned
  BY <1>1, <1>2, <1>4, SymbolAssumption
     DEF CacheAfter, CacheHit, SymbolFor, CacheIsRight, TypeOK, TableCache
<1>8. TypeOK'
  BY <1>1, <1>2, <1>3, <1>7 DEF TypeOK, h
<1>9. RowsAreReal'
  BY <1>2, <1>3, <1>6, LogsAreConstant DEF RowsAreReal
<1>10. CacheIsRight'
  BY <1>1, <1>7 DEF CacheIsRight, TypeOK
<1>11. \A j \in rest'[s] : KeyLess(k, j)
  BY <1>1, <1>6 DEF NextRow
<1>12. SidesAreOrdered'
  <2>1. /\ head[s] # None => \A j \in rest'[s] : KeyLess(HeadKey(head[s]), j)
        /\ head[s] # None => KeyLess(HeadKey(head[s]), HeadKey(h))
        /\ \A j \in rest'[s] : KeyLess(HeadKey(h), j)
    BY <1>2, <1>6, <1>11 DEF SidesAreOrdered
  <2> QED
    BY <2>1, <1>3, <1>6 DEF SidesAreOrdered
<1>13. PhaseIsRight'
  BY <1>2, <1>3, <1>5, <1>6 DEF PhaseIsRight
<1>14. DeliveredAreKnown'
  BY <1>2, <1>3, <1>6, LogsAreConstant DEF DeliveredAreKnown
<1>15. \A t \in Sides : Unread(t)' = Unread(t)
  <2>1. Unread(s)' = (rest[s] \ {k}) \cup {k}
                       \cup {j \in Keys : head[s] # None /\ HeadKey(head[s]) = j}
    BY <1>2, <1>3, <1>4, <1>6 DEF Unread
  <2>2. Unread(s)' = Unread(s)
    BY <2>1, <1>5 DEF Unread
  <2>3. \A t \in Sides \ {s} : Unread(t)' = Unread(t)
    BY <1>3, <1>6 DEF Unread
  <2> QED
    BY <2>2, <2>3
<1> QED
  BY <1>3, <1>8, <1>9, <1>10, <1>12, <1>13, <1>14, <1>15,
     ReportsAscendKept, OutKept

LEMMA PullEndStep ==
    ASSUME IInv, NEW s \in Sides, PullEnd(s)
    PROVE  IInv'
<1> USE DEF IInv
<1>1. /\ UNCHANGED <<pgLog, sqLog, rest, cache, head, polled, fetched, phase,
                      out, cancels>>
      /\ phase \in {"priming", "fetching"}
      /\ rest[s] = {}
      /\ inflight' = inflight \ {s}
  BY DEF PullEnd, Polling
<1>2. TypeOK'
  BY <1>1 DEF TypeOK
<1>3. RowsAreReal' /\ CacheIsRight' /\ SidesAreOrdered'
  BY <1>1, LogsAreConstant DEF RowsAreReal, CacheIsRight, SidesAreOrdered
<1>4. PhaseIsRight'
  BY <1>1 DEF PhaseIsRight
<1>5. DeliveredAreKnown'
  BY <1>1, LogsAreConstant DEF DeliveredAreKnown
<1>6. \A t \in Sides : Unread(t)' = Unread(t)
  BY <1>1 DEF Unread
<1> QED
  BY <1>1, <1>2, <1>3, <1>4, <1>5, <1>6, ReportsAscendKept, OutKept

\* A call that fails leaves the heads and the reports as they were.
LEMMA FailedStep ==
    ASSUME IInv, Failed, UNCHANGED <<pgLog, sqLog, cache, head, out, cancels>>,
           rest' \in [Sides -> SUBSET Keys],
           \A s \in Sides : rest'[s] \subseteq rest[s]
    PROVE  IInv'
<1> USE DEF IInv
<1>1. \A s \in Sides : fetched'[s] = None
  BY DEF Failed, NoRows
<1>2. TypeOK'
  BY DEF Failed, TypeOK, NoRows, Phases
<1>3. RowsAreReal'
  BY <1>1, LogsAreConstant DEF RowsAreReal, IsRow
<1>4. CacheIsRight' /\ SidesAreOrdered'
  BY <1>1 DEF CacheIsRight, SidesAreOrdered
<1>5. PhaseIsRight'
  BY <1>1 DEF PhaseIsRight, Failed
<1>6. \A s \in Sides : Unread(s)' \subseteq Unread(s)
  BY <1>1 DEF Unread
<1>7. DeliveredAreKnown' /\ Frontier'
  BY DEF DeliveredAreKnown, Frontier, Failed
<1>8. OutIsRight'
  BY LogsAreConstant DEF OutIsRight, Failed
<1> QED
  BY <1>2, <1>3, <1>4, <1>5, <1>6, <1>7, <1>8, ReportsAscendKept

-----------------------------------------------------------------------------
(* The caller's side: priming, calling, dropping a call.                   *)

LEMMA PrimedStep ==
    ASSUME IInv, Primed
    PROVE  IInv'
<1> USE DEF IInv
<1>1. /\ phase = "priming" /\ phase' = "ready"
      /\ head' = fetched /\ fetched' = NoRows
      /\ polled = Sides /\ polled' = {} /\ inflight = {}
      /\ UNCHANGED <<pgLog, sqLog, rest, cache, inflight, out, cancels>>
  BY DEF Primed, PhaseIsRight
<1>2. \A s \in Sides : head[s] = None /\ fetched'[s] = None
  BY <1>1 DEF PhaseIsRight, NoRows
<1>3. TypeOK'
  BY <1>1 DEF TypeOK, NoRows, Phases
<1>4. RowsAreReal'
  BY <1>1, <1>2, LogsAreConstant DEF RowsAreReal, IsRow
<1>5. CacheIsRight' /\ SidesAreOrdered'
  BY <1>1, <1>2 DEF CacheIsRight, SidesAreOrdered
<1>6. PhaseIsRight'
  BY <1>1, <1>2 DEF PhaseIsRight
<1>7. DeliveredAreKnown'
  BY <1>1, LogsAreConstant DEF DeliveredAreKnown
<1>8. \A t \in Sides : Unread(t)' = Unread(t)
  BY <1>1, <1>2 DEF Unread
<1> QED
  BY <1>1, <1>3, <1>4, <1>5, <1>6, <1>7, <1>8, ReportsAscendKept, OutKept

\* What the top of the loop makes of the phase.
LEMMA RoundPhase ==
    ASSUME NEW h, Round(h)
    PROVE  /\ polled' \subseteq Sides /\ inflight' = polled'
           /\ phase' \in {"done", "fetching"}
           /\ phase' = "done" => /\ h["pg"] = None /\ h["sq"] = None
                                 /\ polled' = {}
           /\ phase' = "fetching" => /\ ~ (h["pg"] = None /\ h["sq"] = None)
                                     /\ polled' = ToPoll(h)
BY DEF Round, ToPoll

LEMMA NextEntryStep ==
    ASSUME IInv, NextEntry
    PROVE  IInv'
<1> USE DEF IInv
<1>1. /\ phase \in {"ready", "done"}
      /\ Round(head)
      /\ UNCHANGED <<pgLog, sqLog, rest, cache, head, fetched, out, cancels>>
  BY DEF NextEntry
<1>2. /\ polled' \subseteq Sides /\ inflight' = polled'
      /\ phase' \in {"done", "fetching"}
      /\ phase' = "done" => /\ head["pg"] = None /\ head["sq"] = None
                            /\ polled' = {}
      /\ phase' = "fetching" =>
            /\ ~ (head["pg"] = None /\ head["sq"] = None)
            /\ polled' = ToPoll(head)
  BY <1>1, RoundPhase
<1>3. \A s \in Sides : fetched[s] = None
  BY <1>1 DEF PhaseIsRight
<1>4. TypeOK'
  BY <1>1, <1>2 DEF TypeOK, Phases
<1>5. RowsAreReal' /\ CacheIsRight' /\ SidesAreOrdered'
  BY <1>1, LogsAreConstant DEF RowsAreReal, CacheIsRight, SidesAreOrdered
<1>6. PhaseIsRight'
  BY <1>1, <1>2, <1>3 DEF PhaseIsRight
<1>7. DeliveredAreKnown'
  BY <1>1, LogsAreConstant DEF DeliveredAreKnown
<1>8. \A t \in Sides : Unread(t)' = Unread(t)
  BY <1>1 DEF Unread
<1> QED
  BY <1>1, <1>4, <1>5, <1>6, <1>7, <1>8, ReportsAscendKept, OutKept

LEMMA CancelStep ==
    ASSUME IInv, Cancel
    PROVE  IInv'
<1> USE DEF IInv
<1>1. /\ phase = "fetching" /\ phase' = "ready"
      /\ cancels < MaxCancels /\ cancels' = cancels + 1
      /\ polled' = {} /\ inflight' = {} /\ fetched' = NoRows
      /\ UNCHANGED <<pgLog, sqLog, rest, cache, head, out>>
  BY DEF Cancel
<1>2. \A s \in Sides : fetched'[s] = None
  BY <1>1 DEF NoRows
<1>3. TypeOK'
  BY <1>1, BoundAssumption DEF TypeOK, NoRows, Phases
<1>4. cancels' # 0
  BY <1>1 DEF TypeOK
<1>5. RowsAreReal'
  BY <1>1, <1>2, LogsAreConstant DEF RowsAreReal, IsRow
<1>6. CacheIsRight' /\ SidesAreOrdered'
  BY <1>1, <1>2 DEF CacheIsRight, SidesAreOrdered
<1>7. PhaseIsRight'
  BY <1>1, <1>2 DEF PhaseIsRight
<1>8. DeliveredAreKnown'
  BY <1>1, LogsAreConstant DEF DeliveredAreKnown
<1>9. \A s \in Sides : Unread(s)' \subseteq Unread(s)
  BY <1>1, <1>2 DEF Unread
<1>10. Frontier' /\ OutIsRight'
  BY <1>4 DEF Frontier, OutIsRight
<1> QED
  BY <1>1, <1>3, <1>5, <1>6, <1>7, <1>8, <1>9, <1>10, ReportsAscendKept

-----------------------------------------------------------------------------
(* A round: the smallest key not handed over yet is handed over, by every  *)
(* side that has it.                                                       *)

\* The polled sides are those whose head has the smallest key.
LEMMA PolledAreSmallest ==
    ASSUME IInv, phase = "fetching"
    PROVE  \E kk \in Keys :
             /\ polled # {}
             /\ \A s \in polled : head[s] # None /\ HeadKey(head[s]) = kk
             /\ \A s \in Sides \ polled :
                   head[s] # None => KeyLess(kk, HeadKey(head[s]))
<1> USE DEF IInv
<1> DEFINE p == head["pg"]
           q == head["sq"]
<1>1. /\ ~ (p = None /\ q = None)
      /\ polled = {s \in Sides : IF s = "pg" THEN Ord(head) # "Greater"
                                            ELSE Ord(head) # "Less"}
  BY DEF PhaseIsRight, ToPoll
<1>2. IsRow("pg", p) /\ IsRow("sq", q)
  BY DEF RowsAreReal, Sides
<1>3. p # None => HeadKey(p) \in Keys
  BY <1>2, RowKey DEF Sides
<1>4. q # None => HeadKey(q) \in Keys
  BY <1>2, RowKey DEF Sides
<1>5. CASE q = None
  <2>1. Ord(head) = "Less"
    BY <1>5 DEF Ord
  <2>2. polled = {"pg"}
    BY <1>1, <2>1 DEF Sides
  <2> QED
    BY <1>1, <1>3, <1>5, <2>2 DEF Sides
<1>6. CASE p = None
  <2>1. Ord(head) = "Greater"
    BY <1>1, <1>6 DEF Ord
  <2>2. polled = {"sq"}
    BY <1>1, <2>1 DEF Sides
  <2> QED
    BY <1>1, <1>4, <1>6, <2>2 DEF Sides
<1>7. CASE p # None /\ q # None
  <2>1. Ord(head) = CmpHeads(p, q)
    BY <1>7 DEF Ord
  <2>2. /\ Ord(head) \in {"Less", "Equal", "Greater"}
        /\ Ord(head) = "Less" <=> KeyLess(HeadKey(p), HeadKey(q))
        /\ Ord(head) = "Equal" <=> HeadKey(p) = HeadKey(q)
        /\ Ord(head) = "Greater" <=> KeyLess(HeadKey(q), HeadKey(p))
    BY <1>2, <1>7, <2>1, CmpHeadsByKey DEF IsRow
  <2> HIDE DEF p, q
  <2>3. CASE Ord(head) = "Less"
    <3>1. polled = {"pg"}
      BY <1>1, <2>3 DEF Sides
    <3> QED
      BY <1>3, <1>7, <2>2, <2>3, <3>1 DEF Sides, p, q
  <2>4. CASE Ord(head) = "Greater"
    <3>1. polled = {"sq"}
      BY <1>1, <2>4 DEF Sides
    <3> QED
      BY <1>4, <1>7, <2>2, <2>4, <3>1 DEF Sides, p, q
  <2>5. CASE Ord(head) = "Equal"
    <3>1. polled = {"pg", "sq"}
      BY <1>1, <2>5 DEF Sides
    <3> QED
      BY <1>3, <1>7, <2>2, <2>5, <3>1 DEF Sides, p, q
  <2> QED
    BY <2>2, <2>3, <2>4, <2>5
<1> QED
  BY <1>5, <1>6, <1>7

\* kk is the key the round hands over: polled sides have it, the others do
\* not, and everything else that is left is greater.
HandsOver(kk) ==
    /\ kk \in Keys
    /\ polled # {}
    /\ \A s \in polled : head[s] # None /\ HeadKey(head[s]) = kk
    /\ \A s \in Sides : kk \in Unread(s) <=> s \in polled
    /\ \A s \in Sides : \A k \in Unread(s) : k = kk \/ KeyLess(kk, k)

\* When all pulls of the round are in, advance takes the key of the polled
\* sides away and leaves only greater ones.
LEMMA HandOver ==
    ASSUME IInv, phase = "fetching", inflight = {},
           head' = Advanced, fetched' = NoRows,
           UNCHANGED <<pgLog, sqLog, rest>>
    PROVE  \E kk : /\ HandsOver(kk)
                   /\ \A s \in Sides : Unread(s)' = Unread(s) \ {kk}
<1> USE DEF IInv
<1>1. PICK kk \in Keys :
             /\ polled # {}
             /\ \A s \in polled : head[s] # None /\ HeadKey(head[s]) = kk
             /\ \A s \in Sides \ polled :
                   head[s] # None => KeyLess(kk, HeadKey(head[s]))
  BY PolledAreSmallest
<1>2. \A s \in Sides : Unread(s) \subseteq Int \X Int
  BY UnreadInLog
<1>3. kk \in Int \X Int
  BY KeysAssumption
<1>4. ASSUME NEW s \in polled
      PROVE  /\ kk \in Unread(s)
             /\ \A k \in Unread(s) : k = kk \/ KeyLess(kk, k)
             /\ Unread(s)' = Unread(s) \ {kk}
  <2>1. s \in Sides
    BY DEF TypeOK
  <2>2. head'[s] = fetched[s] /\ fetched'[s] = None /\ rest'[s] = rest[s]
    BY <2>1 DEF Advanced, NoRows
  <2>3. \A k : k \in Unread(s) <=>
               \/ k \in rest[s]
               \/ k = kk
               \/ fetched[s] # None /\ k = HeadKey(fetched[s])
    BY <1>1, <2>1, UnreadMembers
  <2>4. \A k \in Unread(s) : k = kk \/ KeyLess(kk, k)
    BY <1>1, <2>1, <2>3 DEF SidesAreOrdered
  <2>5. Unread(s)' = rest[s] \cup
                      {k \in Keys : fetched[s] # None /\ HeadKey(fetched[s]) = k}
    BY <2>2 DEF Unread
  <2>6. fetched[s] # None => HeadKey(fetched[s]) \in Keys
    BY <2>1, RowKey DEF RowsAreReal
  <2>7. \A k : k \in Unread(s)' <=>
               \/ k \in rest[s]
               \/ fetched[s] # None /\ k = HeadKey(fetched[s])
    BY <2>5, <2>6
  <2>8. kk \notin Unread(s)'
    BY <1>1, <1>3, <2>1, <2>7, KeyOrder DEF SidesAreOrdered
  <2> QED
    BY <2>3, <2>4, <2>7, <2>8
<1>5. ASSUME NEW s \in Sides \ polled
      PROVE  /\ kk \notin Unread(s)
             /\ \A k \in Unread(s) : KeyLess(kk, k)
             /\ Unread(s)' = Unread(s)
  <2>1. head'[s] = head[s] /\ fetched'[s] = None /\ rest'[s] = rest[s]
    BY DEF Advanced, NoRows
  <2>2. fetched[s] = None
    BY DEF PhaseIsRight
  <2>3. Unread(s)' = Unread(s)
    BY <2>1, <2>2 DEF Unread
  <2>4. CASE head[s] = None
    BY <2>2, <2>3, <2>4, UnreadMembers DEF PhaseIsRight
  <2>5. CASE head[s] # None
    <3>1. \A k : k \in Unread(s) <=> k \in rest[s] \/ k = HeadKey(head[s])
      BY <2>2, <2>5, UnreadMembers
    <3>2. KeyLess(kk, HeadKey(head[s]))
      BY <1>1, <2>5
    <3>3. \A k \in rest[s] : KeyLess(HeadKey(head[s]), k)
      BY <2>5 DEF SidesAreOrdered
    <3>4. \A k \in Unread(s) : KeyLess(kk, k)
      BY <1>2, <1>3, <3>1, <3>2, <3>3, KeyOrder
    <3> QED
      BY <1>3, <2>3, <3>4, KeyOrder
  <2> QED
    BY <2>4, <2>5
<1>6. polled \subseteq Sides
  BY DEF TypeOK
<1>7. HandsOver(kk)
  BY <1>1, <1>4, <1>5, <1>6 DEF HandsOver
<1> QED
  BY <1>4, <1>5, <1>6, <1>7

\* Without cancelled calls, what the round hands over is what the two logs
\* say of its key, and the verdict is the policy's.
LEMMA RoundIsRight ==
    ASSUME IInv, phase = "fetching", NEW kk, HandsOver(kk)
    PROVE  /\ RoundVerdict = Abstract!Verdict(RowOf(HandedOver("pg")),
                                              RowOf(HandedOver("sq")))
           /\ cancels = 0 => /\ RowOf(HandedOver("pg")) = pgLog[kk]
                             /\ RowOf(HandedOver("sq")) = sqLog[kk]
<1> USE DEF IInv
<1>1. polled \subseteq Sides
  BY DEF TypeOK
<1>2. \A s \in polled : HandedOver(s) = head[s] /\ head[s] # None
  BY DEF HandedOver, HandsOver
<1>3. \A s \in Sides \ polled : HandedOver(s) = None
  BY DEF HandedOver
<1>4. \A s \in Sides : HandedOver(s) \in HeadRow \cup {None}
  BY <1>1, <1>2, <1>3 DEF TypeOK
<1>5. ~ (HandedOver("pg") = None /\ HandedOver("sq") = None)
  BY <1>1, <1>2 DEF HandsOver, Sides
<1>6. RoundVerdict = Abstract!Verdict(RowOf(HandedOver("pg")),
                                      RowOf(HandedOver("sq")))
  BY <1>4, <1>5, ResolveIsVerdict DEF RoundVerdict, Sides
<1>7. ASSUME cancels = 0, NEW s \in Sides
      PROVE  RowOf(HandedOver(s)) = Log(s)[kk]
  <2>1. CASE s \in polled
    BY <1>2, <2>1 DEF RowsAreReal, IsRow, HandsOver
  <2>2. CASE s \notin polled
    <3>1. kk \notin Unread(s)
      BY <2>2 DEF HandsOver
    <3>2. PICK t \in Sides : kk \in Unread(t)
      BY <1>1 DEF HandsOver
    <3>3. ~ KeyLess(kk, kk)
      BY KeyOrder, KeysAssumption DEF HandsOver
    <3>4. kk \notin Passed
      BY <1>7, <3>2, <3>3 DEF Frontier
    <3>5. Log(s)[kk] = None
      BY <3>1, <3>4 DEF Passed, InLog, HandsOver
    <3> QED
      BY <1>3, <2>2, <3>5 DEF RowOf
  <2> QED
    BY <2>1, <2>2
<1>8. Log("pg") = pgLog /\ Log("sq") = sqLog
  BY DEF Log
<1> QED
  BY <1>6, <1>7, <1>8 DEF Sides

\* What Emit and Skip have in common.
LEMMA RoundStep ==
    ASSUME IInv, phase = "fetching", inflight = {},
           head' = Advanced, fetched' = NoRows, phase' # "failed",
           UNCHANGED <<pgLog, sqLog, rest, cache, cancels>>
    PROVE  /\ head' \in [Sides -> HeadRow \cup {None}]
           /\ fetched' \in [Sides -> HeadRow \cup {None}]
           /\ \A s \in Sides : fetched'[s] = None
           /\ \A s \in Sides : head'[s] = None => rest'[s] = {}
           /\ RowsAreReal' /\ CacheIsRight' /\ SidesAreOrdered'
           /\ DeliveredAreKnown'
<1> USE DEF IInv
<1>1. \A s \in Sides : fetched'[s] = None
  BY DEF NoRows
<1>2. \A s \in Sides : head'[s] = fetched[s] \/ head'[s] = head[s]
  BY DEF Advanced
<1>3. head' \in [Sides -> HeadRow \cup {None}]
  BY DEF Advanced, TypeOK
<1>4. fetched' \in [Sides -> HeadRow \cup {None}]
  BY DEF NoRows
<1>5. \A s \in Sides : head'[s] = None => rest'[s] = {}
  BY DEF Advanced, PhaseIsRight
<1>6. RowsAreReal'
  BY <1>1, <1>2, LogsAreConstant DEF RowsAreReal, IsRow
<1>7. CacheIsRight' /\ DeliveredAreKnown'
  BY LogsAreConstant DEF CacheIsRight, DeliveredAreKnown
<1>8. SidesAreOrdered'
  BY <1>1, <1>2 DEF SidesAreOrdered
<1> QED
  BY <1>1, <1>3, <1>4, <1>5, <1>6, <1>7, <1>8

\* What has been passed after a round: the key handed over, in addition.
LEMMA PassedAfterRound ==
    ASSUME IInv, NEW kk, HandsOver(kk), UNCHANGED <<pgLog, sqLog>>,
           \A s \in Sides : Unread(s)' = Unread(s) \ {kk}
    PROVE  /\ Passed' = Passed \cup {kk}
           /\ Frontier /\ cancels = 0 /\ phase # "failed" =>
                \A j \in Passed', s \in Sides :
                    \A k \in Unread(s)' : KeyLess(j, k)
<1> USE DEF IInv
<1>1. \A s \in Sides : InLog(s)' = InLog(s)
  BY LogsAreConstant
<1>2. \E s \in Sides : kk \in InLog(s)
  BY UnreadInLog DEF HandsOver, TypeOK
<1>3. Passed' = Passed \cup {kk}
  BY <1>1, <1>2 DEF Passed, HandsOver
<1>4. \A s \in Sides : \A k \in Unread(s)' : KeyLess(kk, k)
  BY DEF HandsOver
<1> QED
  BY <1>3, <1>4 DEF Frontier

LEMMA SkipStep ==
    ASSUME IInv, Skip
    PROVE  IInv'
<1> USE DEF IInv
<1>1. /\ phase = "fetching" /\ inflight = {}
      /\ RoundVerdict = "InSync"
      /\ head' = Advanced /\ fetched' = NoRows
      /\ Round(Advanced)
      /\ UNCHANGED <<pgLog, sqLog, rest, cache, out, cancels>>
  BY DEF Skip
<1>2. /\ polled' \subseteq Sides /\ inflight' = polled'
      /\ phase' \in {"done", "fetching"}
      /\ phase' = "done" => /\ head'["pg"] = None /\ head'["sq"] = None
                            /\ polled' = {}
      /\ phase' = "fetching" =>
            /\ ~ (head'["pg"] = None /\ head'["sq"] = None)
            /\ polled' = ToPoll(head')
  BY <1>1, RoundPhase
<1>3. /\ head' \in [Sides -> HeadRow \cup {None}]
      /\ fetched' \in [Sides -> HeadRow \cup {None}]
      /\ \A s \in Sides : fetched'[s] = None
      /\ \A s \in Sides : head'[s] = None => rest'[s] = {}
      /\ RowsAreReal' /\ CacheIsRight' /\ SidesAreOrdered'
      /\ DeliveredAreKnown'
  BY <1>1, <1>2, RoundStep
<1>4. TypeOK'
  BY <1>1, <1>2, <1>3 DEF TypeOK, Phases
<1>5. PhaseIsRight'
  BY <1>2, <1>3 DEF PhaseIsRight
<1>6. PICK kk : /\ HandsOver(kk)
                /\ \A s \in Sides : Unread(s)' = Unread(s) \ {kk}
  BY <1>1, HandOver
<1>7. ReportsAscend'
  BY <1>1, <1>6, ReportsAscendKept
<1>8. /\ Passed' = Passed \cup {kk}
      /\ Frontier'
  BY <1>1, <1>6, PassedAfterRound DEF Frontier
<1>9. cancels = 0 => kk \notin Abstract!Divergent
  BY <1>1, <1>6, RoundIsRight DEF Abstract!Divergent
<1>10. OutIsRight'
  <2>1. OutKeys' = OutKeys
    BY <1>1 DEF OutKeys
  <2> QED
    BY <1>1, <1>8, <1>9, <2>1, LogsAreConstant DEF OutIsRight
<1> QED
  BY <1>3, <1>4, <1>5, <1>7, <1>8, <1>10

\* The entry that Emit returns.
NewEntry ==
    [postgres |-> HandedOver("pg"), sqlite |-> HandedOver("sq"),
     action |-> RoundVerdict]

LEMMA NewEntryIsRight ==
    ASSUME IInv, phase = "fetching", NEW kk, HandsOver(kk),
           RoundVerdict # "InSync"
    PROVE  /\ NewEntry \in SyncTruthEntry
           /\ EntryKey(NewEntry) = kk
           /\ cancels = 0 => /\ kk \in Abstract!Divergent
                             /\ ReportOf(NewEntry) = Abstract!ReportFor(kk)
<1> USE DEF IInv
<1>1. polled \subseteq Sides
  BY DEF TypeOK
<1>2. \A s \in polled : HandedOver(s) = head[s] /\ head[s] # None
                         /\ HeadKey(head[s]) = kk
  BY DEF HandedOver, HandsOver
<1>3. \A s \in Sides \ polled : HandedOver(s) = None
  BY DEF HandedOver
<1>4. \A s \in Sides : HandedOver(s) \in HeadRow \cup {None}
  BY <1>1, <1>2, <1>3 DEF TypeOK
<1>5. EntryKey(NewEntry) = kk
  <2>1. CASE "pg" \in polled
    BY <1>2, <2>1 DEF EntryKey, NewEntry
  <2>2. CASE "pg" \notin polled
    <3>1. "sq" \in polled
      BY <1>1, <2>2 DEF HandsOver, Sides
    <3> QED
      BY <1>2, <1>3, <2>2, <3>1 DEF EntryKey, NewEntry, Sides
  <2> QED
    BY <2>1, <2>2
<1>6. /\ RoundVerdict = Abstract!Verdict(RowOf(HandedOver("pg")),
                                         RowOf(HandedOver("sq")))
      /\ cancels = 0 => /\ RowOf(HandedOver("pg")) = pgLog[kk]
                        /\ RowOf(HandedOver("sq")) = sqLog[kk]
  BY RoundIsRight
<1>7. RoundVerdict \in {"ApplyFromPostgres", "ApplyFromSQLite", "Conflict"}
  BY <1>6 DEF Abstract!Verdict
<1>8. NewEntry \in SyncTruthEntry
  BY <1>4, <1>7 DEF NewEntry, SyncTruthEntry, Sides
<1>9. ASSUME cancels = 0
      PROVE  /\ kk \in Abstract!Divergent
             /\ ReportOf(NewEntry) = Abstract!ReportFor(kk)
  BY <1>5, <1>6, <1>9
     DEF Abstract!Divergent, Abstract!ReportFor, ReportOf, NewEntry, HandsOver
<1> QED
  BY <1>5, <1>8, <1>9

LEMMA EmitStep ==
    ASSUME IInv, Emit
    PROVE  IInv'
<1> USE DEF IInv
<1>1. /\ phase = "fetching" /\ inflight = {} /\ phase' = "ready"
      /\ RoundVerdict # "InSync"
      /\ out' = Append(out, NewEntry)
      /\ head' = Advanced /\ fetched' = NoRows
      /\ polled' = {} /\ inflight' = {}
      /\ UNCHANGED <<pgLog, sqLog, rest, cache, cancels>>
  BY DEF Emit, NewEntry
<1>2. /\ head' \in [Sides -> HeadRow \cup {None}]
      /\ fetched' \in [Sides -> HeadRow \cup {None}]
      /\ \A s \in Sides : fetched'[s] = None
      /\ \A s \in Sides : head'[s] = None => rest'[s] = {}
      /\ RowsAreReal' /\ CacheIsRight' /\ SidesAreOrdered'
      /\ DeliveredAreKnown'
  BY <1>1, RoundStep
<1>3. PICK kk : /\ HandsOver(kk)
                /\ \A s \in Sides : Unread(s)' = Unread(s) \ {kk}
  BY <1>1, HandOver
<1>4. /\ NewEntry \in SyncTruthEntry
      /\ EntryKey(NewEntry) = kk
      /\ cancels = 0 => /\ kk \in Abstract!Divergent
                        /\ ReportOf(NewEntry) = Abstract!ReportFor(kk)
  BY <1>1, <1>3, NewEntryIsRight
<1>5. TypeOK'
  BY <1>1, <1>2, <1>4 DEF TypeOK, Phases
<1>6. PhaseIsRight'
  BY <1>1, <1>2 DEF PhaseIsRight
<1> DEFINE e == NewEntry
<1> HIDE DEF e
<1>7. /\ DOMAIN out = 1..Len(out) /\ DOMAIN out' = 1..(Len(out) + 1)
      /\ Len(out) \in Nat
      /\ \A i \in DOMAIN out : out'[i] = out[i]
      /\ out'[Len(out) + 1] = e
  BY <1>1, <1>4 DEF TypeOK, e
<1>8. ReportsAscend'
  <2>1. \A i \in DOMAIN out : KeyLess(EntryKey(out[i]), kk)
    BY <1>3 DEF ReportsAscend, HandsOver, TypeOK
  <2>2. \A i, j \in DOMAIN out' :
           i < j => KeyLess(EntryKey(out'[i]), EntryKey(out'[j]))
    BY <1>4, <1>7, <2>1 DEF ReportsAscend, e
  <2>3. \A s \in Sides : \A k \in Unread(s)' :
           /\ KeyLess(kk, k)
           /\ \A i \in DOMAIN out : KeyLess(EntryKey(out[i]), k)
    BY <1>3 DEF HandsOver, ReportsAscend
  <2>4. \A i \in DOMAIN out', s \in Sides : \A k \in Unread(s)' :
           KeyLess(EntryKey(out'[i]), k)
    BY <1>4, <1>7, <2>3 DEF e
  <2> QED
    BY <2>2, <2>4 DEF ReportsAscend
<1>9. /\ Passed' = Passed \cup {kk}
      /\ Frontier'
  BY <1>1, <1>3, PassedAfterRound DEF Frontier
<1>10. OutKeys' = OutKeys \cup {kk}
  BY <1>4, <1>7 DEF OutKeys, e
<1>11. OutIsRight'
  BY <1>1, <1>4, <1>7, <1>9, <1>10, LogsAreConstant DEF OutIsRight, e
<1> QED
  BY <1>2, <1>5, <1>6, <1>8, <1>9, <1>11

-----------------------------------------------------------------------------
(* The theorems.                                                           *)

LEMMA NextIInv == IInv /\ [Next]_vars => IInv'
<1> SUFFICES ASSUME IInv, [Next]_vars PROVE IInv'
  OBVIOUS
<1>1. ASSUME NEW s \in Sides, PullEnd(s) PROVE IInv'
  BY <1>1, PullEndStep
<1>2. ASSUME NEW s \in Sides, PullRow(s) PROVE IInv'
  BY <1>2, PullRowStep
<1>3. ASSUME NEW s \in Sides, PullUnknownTable(s) PROVE IInv'
  <2>1. /\ rest' \in [Sides -> SUBSET Keys]
        /\ \A t \in Sides : rest'[t] \subseteq rest[t]
    BY <1>3 DEF PullUnknownTable, IInv, TypeOK
  <2> QED
    BY <1>3, <2>1, FailedStep DEF PullUnknownTable
<1>4. ASSUME NEW s \in Sides, PullError(s) PROVE IInv'
  BY <1>4, FailedStep DEF PullError, IInv, TypeOK
<1>5. CASE Primed
  BY <1>5, PrimedStep
<1>6. CASE NextEntry
  BY <1>6, NextEntryStep
<1>7. CASE Emit
  BY <1>7, EmitStep
<1>8. CASE Skip
  BY <1>8, SkipStep
<1>9. CASE Cancel
  BY <1>9, CancelStep
<1>10. CASE UNCHANGED vars
  <2> USE <1>10 DEF vars, IInv
  <2>1. TypeOK' /\ PhaseIsRight'
    BY DEF TypeOK, PhaseIsRight
  <2>2. RowsAreReal' /\ CacheIsRight' /\ SidesAreOrdered' /\ DeliveredAreKnown'
    BY LogsAreConstant
       DEF RowsAreReal, CacheIsRight, SidesAreOrdered, DeliveredAreKnown
  <2>3. \A s \in Sides : Unread(s)' = Unread(s)
    BY DEF Unread
  <2>4. ReportsAscend'
    BY <2>3, ReportsAscendKept
  <2>5. phase = "failed" => Frontier' /\ OutIsRight'
    BY LogsAreConstant DEF Frontier, OutIsRight
  <2>6. phase # "failed" => Frontier' /\ OutIsRight'
    BY <2>3, OutKept
  <2> QED
    BY <2>1, <2>2, <2>4, <2>5, <2>6
<1> QED
  BY <1>1, <1>2, <1>3, <1>4, <1>5, <1>6, <1>7, <1>8, <1>9, <1>10 DEF Next

LEMMA Invariance == Spec => []IInv
<1>1. Init => IInv
  BY InitIInv
<1>2. IInv /\ [Next]_vars => IInv'
  BY NextIInv
<1> QED
  BY <1>1, <1>2, PTL DEF Spec

\* Every variable keeps its type: in particular the rows kept as lookahead,
\* and the entries next_entry returns, are well formed.
THEOREM TypeCorrect == Spec => []TypeOK
<1>1. IInv => TypeOK
  BY DEF IInv
<1> QED
  BY <1>1, Invariance, PTL

\* next_entry never pulls from a side without a head, so the unreachable!
\* arm of resolve is unreachable and no finished stream is polled.
THEOREM UnreachableArm == Spec => []PolledSidesHaveHeads
<1>1. IInv => PolledSidesHaveHeads
  BY PolledAreSmallest DEF PolledSidesHaveHeads
<1> QED
  BY <1>1, Invariance, PTL

\* The debug_assert! of advance never fires.
THEOREM AssertHolds == Spec => []StreamsAscend
<1>1. IInv => StreamsAscend
  <2> SUFFICES ASSUME IInv, NEW s \in Sides, fetched[s] # None, head[s] # None
               PROVE  CmpHeads(fetched[s], head[s]) = "Greater"
    BY DEF StreamsAscend
  <2>1. KeyLess(HeadKey(head[s]), HeadKey(fetched[s]))
    BY DEF IInv, SidesAreOrdered
  <2>2. IsRow(s, head[s]) /\ IsRow(s, fetched[s])
    BY DEF IInv, RowsAreReal
  <2> QED
    BY <2>1, <2>2, CmpHeadsByKey DEF IsRow
<1> QED
  BY <1>1, Invariance, PTL

\* The entries of next_entry come in strictly ascending key order, and before
\* every row still to come, whichever calls the caller drops.
THEOREM ReportsInOrder == Spec => []ReportsAscend
<1>1. IInv => ReportsAscend
  BY DEF IInv
<1> QED
  BY <1>1, Invariance, PTL

\* Ok(None) is not returned past a row of a table the schema does not know.
THEOREM UnknownTableIsReported == Spec => []DoneMeansKnown
<1>1. IInv => DoneMeansKnown
  BY DEF IInv, PhaseIsRight, DeliveredAreKnown, DoneMeansKnown, Sides
<1> QED
  BY <1>1, Invariance, PTL

\* At Ok(None) nothing is left to hand over.
LEMMA DoneMeansRead ==
    ASSUME IInv, head["pg"] = None, head["sq"] = None,
           phase \in {"ready", "fetching", "done"}, polled = {} 
    PROVE  /\ \A s \in Sides : Unread(s) = {}
           /\ Abstract!Divergent \subseteq Passed
<1> USE DEF IInv
<1>1. \A s \in Sides : head[s] = None /\ rest[s] = {} /\ fetched[s] = None
  BY DEF PhaseIsRight, Sides
<1>2. \A s \in Sides : Unread(s) = {}
  BY <1>1 DEF Unread
<1>3. \A k \in Abstract!Divergent : pgLog[k] # None \/ sqLog[k] # None
  BY DEF Abstract!Divergent, Abstract!Verdict
<1>4. Abstract!Divergent \subseteq Keys
  BY DEF Abstract!Divergent
<1> QED
  BY <1>2, <1>3, <1>4 DEF Passed, InLog, Log, Sides

\* While no call has been dropped, the entries returned are the divergent
\* records passed so far, each with both rows and the policy's verdict, and
\* at Ok(None) they are all the divergent records.
THEOREM ReportsAreRight == Spec => []ReportsAreTruth
<1>1. IInv => ReportsAreTruth
  <2> SUFFICES ASSUME IInv, cancels = 0, phase = "done"
               PROVE  OutKeys = Abstract!Divergent
    BY DEF IInv, OutIsRight, ReportsAreTruth
  <2>1. Abstract!Divergent \subseteq Passed
    BY DoneMeansRead DEF IInv, PhaseIsRight
  <2> QED
    BY <2>1 DEF IInv, OutIsRight, OutKeys
<1> QED
  BY <1>1, Invariance, PTL

-----------------------------------------------------------------------------
(* Refinement: with no call dropped, the merge-join implements the         *)
(* abstract report of module TruthTableSpec.                               *)

LEMMA ReportedKeysAreOutKeys == Abstract!ReportedKeys = OutKeys
<1>1. \A e : ReportOf(e).key = EntryKey(e)
  BY DEF ReportOf
<1> QED
  BY <1>1 DEF Abstract!ReportedKeys, OutKeys

\* Emit reports the smallest divergent record not reported yet.
LEMMA EmitImplements ==
    ASSUME IInv, cancels = 0, Emit
    PROVE  \E k \in Keys : Abstract!Report(k)
<1> USE DEF IInv
<1>1. /\ phase = "fetching" /\ inflight = {} /\ phase' = "ready"
      /\ RoundVerdict # "InSync"
      /\ out' = Append(out, NewEntry)
      /\ head' = Advanced /\ fetched' = NoRows
      /\ UNCHANGED <<pgLog, sqLog, rest, cache, cancels>>
  BY DEF Emit, NewEntry
<1>2. PICK kk : HandsOver(kk)
  BY <1>1, HandOver
<1>3. /\ NewEntry \in SyncTruthEntry
      /\ EntryKey(NewEntry) = kk
      /\ kk \in Abstract!Divergent
      /\ ReportOf(NewEntry) = Abstract!ReportFor(kk)
  BY <1>1, <1>2, NewEntryIsRight
<1>4. kk \notin OutKeys
  <2>1. \A i \in DOMAIN out : KeyLess(EntryKey(out[i]), kk)
    BY <1>2 DEF ReportsAscend, HandsOver, TypeOK
  <2>2. ~ KeyLess(kk, kk)
    BY <1>2, KeyOrder, KeysAssumption DEF HandsOver
  <2> QED
    BY <2>1, <2>2 DEF OutKeys
<1>5. \A j \in Abstract!Divergent \ OutKeys : j = kk \/ KeyLess(kk, j)
  <2> TAKE j \in Abstract!Divergent \ OutKeys
  <2>1. j \notin Passed
    BY <1>1 DEF OutIsRight
  <2>2. j \in Keys /\ (pgLog[j] # None \/ sqLog[j] # None)
    BY DEF Abstract!Divergent, Abstract!Verdict
  <2>3. \E s \in Sides : j \in InLog(s)
    BY <2>2 DEF InLog, Log, Sides
  <2>4. \E s \in Sides : j \in Unread(s)
    BY <2>1, <2>2, <2>3 DEF Passed
  <2> QED
    BY <1>2, <2>4 DEF HandsOver
<1>6. \A a, b : Abstract!KeyLess(a, b) <=> KeyLess(a, b)
  BY DEF Abstract!KeyLess, KeyLess
<1>7. [i \in DOMAIN out' |-> ReportOf(out'[i])]
        = Append([i \in DOMAIN out |-> ReportOf(out[i])],
                 Abstract!ReportFor(kk))
  <2> DEFINE r == [i \in DOMAIN out |-> ReportOf(out[i])]
             e == NewEntry
  <2> HIDE DEF e
  <2>1. /\ DOMAIN out = 1..Len(out) /\ DOMAIN out' = 1..(Len(out) + 1)
        /\ Len(out) \in Nat
        /\ \A i \in DOMAIN out : out'[i] = out[i]
        /\ out'[Len(out) + 1] = e
    BY <1>1, <1>3 DEF TypeOK, e
  <2>2. r \in Seq({ReportOf(out[i]) : i \in DOMAIN out}) /\ Len(r) = Len(out)
    BY <2>1
  <2> QED
    BY <1>3, <2>1, <2>2 DEF e
<1>8. Abstract!Report(kk)
  BY <1>1, <1>3, <1>4, <1>5, <1>6, <1>7, ReportedKeysAreOutKeys
     DEF Abstract!Report
<1> QED
  BY <1>2, <1>8 DEF HandsOver

\* Every step of the merge-join is a step of the abstract report or leaves
\* it as it is.
LEMMA StepImplements ==
    ASSUME MaxCancels = 0, IInv, IInv', ReportsAreTruth', [Next]_vars
    PROVE  [Abstract!Next]_(Abstract!vars)
<1>1. cancels = 0 /\ cancels' = 0
  BY DEF IInv, TypeOK
<1>2. ASSUME UNCHANGED <<pgLog, sqLog, out>>,
             (IF phase \in {"done", "failed"} THEN phase ELSE "open")'
               = IF phase \in {"done", "failed"} THEN phase ELSE "open"
      PROVE  UNCHANGED Abstract!vars
  BY <1>2 DEF Abstract!vars
<1>3. ASSUME UNCHANGED <<pgLog, sqLog, out>>,
             phase \notin {"done", "failed"}, phase' = "failed"
      PROVE  Abstract!Next
  BY <1>3 DEF Abstract!Next, Abstract!Fail
<1>4. ASSUME UNCHANGED <<pgLog, sqLog, out>>,
             phase \notin {"done", "failed"}, phase' = "done"
      PROVE  Abstract!Next
  <2>1. OutKeys' = OutKeys
    BY <1>4 DEF OutKeys
  <2>2. Abstract!Divergent' = Abstract!Divergent
    BY <1>4, LogsAreConstant
  <2>3. OutKeys' = Abstract!Divergent'
    BY <1>1, <1>4 DEF ReportsAreTruth
  <2>4. Abstract!Finish
    BY <1>4, <2>1, <2>2, <2>3, ReportedKeysAreOutKeys DEF Abstract!Finish
  <2> QED
    BY <2>4 DEF Abstract!Next
<1>5. ASSUME NEW s \in Sides, PullEnd(s) \/ PullRow(s)
      PROVE  UNCHANGED Abstract!vars
  BY <1>2, <1>5 DEF PullEnd, PullRow
<1>6. ASSUME NEW s \in Sides, PullUnknownTable(s) \/ PullError(s)
      PROVE  Abstract!Next
  BY <1>3, <1>6 DEF PullUnknownTable, PullError, Failed, Polling
<1>7. CASE Primed
  BY <1>2, <1>7 DEF Primed
<1>8. ASSUME NEW h, Round(h), phase \notin {"done", "failed"},
             UNCHANGED <<pgLog, sqLog, out>>
      PROVE  [Abstract!Next]_(Abstract!vars)
  BY <1>2, <1>4, <1>8, RoundPhase
<1>9. CASE NextEntry
  <2>1. CASE phase = "ready"
    BY <1>8, <1>9, <2>1 DEF NextEntry
  <2>2. CASE phase = "done"
    <3>1. phase' = "done"
      BY <1>9, <2>2 DEF NextEntry, Round, IInv, PhaseIsRight
    <3> QED
      BY <1>2, <1>9, <2>2, <3>1 DEF NextEntry
  <2> QED
    BY <1>9, <2>1, <2>2 DEF NextEntry
<1>10. CASE Emit
  BY <1>1, <1>10, EmitImplements DEF Abstract!Next
<1>11. CASE Skip
  BY <1>8, <1>11 DEF Skip
<1>12. CASE Cancel
  BY <1>1, <1>12 DEF Cancel
<1>13. CASE UNCHANGED vars
  BY <1>2, <1>13 DEF vars
<1> QED
  BY <1>5, <1>6, <1>7, <1>9, <1>10, <1>11, <1>12, <1>13 DEF Next

\* If no call of next_entry is dropped, the merge-join implements the abstract
\* report: each divergent record once, in key order, with the verdict of the
\* documented policy, and Ok(None) only when none is left.
THEOREM Refinement ==
    ASSUME MaxCancels = 0
    PROVE  Spec => ImplementsAbstract
<1>1. Init => Abstract!Init
  BY DEF Init, Abstract!Init
<1>2. IInv /\ IInv' /\ ReportsAreTruth' /\ [Next]_vars
        => [Abstract!Next]_(Abstract!vars)
  BY StepImplements
<1>3. Spec => []IInv /\ []ReportsAreTruth
  BY Invariance, ReportsAreRight, PTL
<1> QED
  BY <1>1, <1>2, <1>3, PTL DEF Spec, ImplementsAbstract, Abstract!Spec
=============================================================================
