--------------------------- MODULE TruthTableSpec ---------------------------
(***************************************************************************)
(* What crates/database/src/sync/truth_table.rs promises: given the two    *)
(* sync logs, the divergent records are reported once each, in key order,  *)
(* each with the side that wins under the documented last-writer-wins      *)
(* policy; the report may stop early with an error.                        *)
(*                                                                         *)
(* Nothing here mentions streams, lookahead, symbols or fetches: the       *)
(* detailed merge-join of module TruthTable is shown to implement this.    *)
(***************************************************************************)
EXTENDS Integers, Sequences

CONSTANTS
    Keys,       \* the (table_name, record_id) pairs a log may hold
    Entries,    \* the values of a log row: op, version, updated_at
    None        \* no row for this key

VARIABLES
    pgLog,      \* the Postgres sync log: key -> entry or None
    sqLog,      \* the SQLite sync log: key -> entry or None
    reported,   \* the reports made so far, in order
    status      \* "open", "done" or "failed"

vars == <<pgLog, sqLog, reported, status>>

\* Byte-wise order of (table_name, record_id): table first, then record.
KeyLess(a, b) ==
    \/ a[1] < b[1]
    \/ a[1] = b[1] /\ a[2] < b[2]

\* The documented policy: higher version, ties broken by later updated_at.
Newer(a, b) ==
    \/ a.version > b.version
    \/ a.version = b.version /\ a.updated_at > b.updated_at

\* What has to be done about a record, from its row on each side.
Verdict(p, s) ==
    CASE p = None /\ s = None -> "InSync"
      [] p # None /\ (s = None \/ Newer(p, s)) -> "ApplyFromPostgres"
      [] s # None /\ (p = None \/ Newer(s, p)) -> "ApplyFromSQLite"
      [] OTHER -> IF p.op = s.op THEN "InSync" ELSE "Conflict"

Divergent == {k \in Keys : Verdict(pgLog[k], sqLog[k]) # "InSync"}

ReportFor(k) ==
    [key |-> k, postgres |-> pgLog[k], sqlite |-> sqLog[k],
     action |-> Verdict(pgLog[k], sqLog[k])]

ReportedKeys == {reported[i].key : i \in DOMAIN reported}

Init ==
    /\ pgLog \in [Keys -> Entries \cup {None}]
    /\ sqLog \in [Keys -> Entries \cup {None}]
    /\ reported = <<>>
    /\ status = "open"

\* The smallest divergent record not reported yet is reported.
Report(k) ==
    /\ status = "open"
    /\ k \in Divergent \ ReportedKeys
    /\ \A j \in Divergent \ ReportedKeys : j = k \/ KeyLess(k, j)
    /\ reported' = Append(reported, ReportFor(k))
    /\ UNCHANGED <<pgLog, sqLog, status>>

\* The report ends only when nothing divergent is left.
Finish ==
    /\ status = "open"
    /\ Divergent \subseteq ReportedKeys
    /\ status' = "done"
    /\ UNCHANGED <<pgLog, sqLog, reported>>

\* Either log may become unreadable at any time.
Fail ==
    /\ status = "open"
    /\ status' = "failed"
    /\ UNCHANGED <<pgLog, sqLog, reported>>

Next == (\E k \in Keys : Report(k)) \/ Finish \/ Fail

Spec == Init /\ [][Next]_vars
=============================================================================
