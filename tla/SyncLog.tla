------------------------------ MODULE SyncLog ------------------------------
(***************************************************************************)
(* What a sync log promises the merge-join that reads it, whichever        *)
(* database keeps it: at most one row per record, holding the last         *)
(* operation and a version that counts the changes by ones.  A record that *)
(* was there before the log starts at version 1.  Only removing the whole  *)
(* log, where that is offered, forgets anything.                           *)
(*                                                                         *)
(* Transactions, triggers, files and migrations do not appear: modules     *)
(* PostgresSync and SqliteSync are shown to implement this.                *)
(***************************************************************************)
EXTENDS Integers

CONSTANTS
    Records,    \* the (table_name, record_id) pairs
    Removable,  \* does the database offer to remove its log?
    None        \* no row for this record

VARIABLE log    \* record -> its row, or None

Empty == [r \in Records |-> None]

Init == log = Empty

\* A row after one more change of its record.
After(old, op) ==
    [op |-> op, version |-> IF old = None THEN 1 ELSE old.version + 1]

\* A record is inserted, updated or deleted.
Change(r, op) == log' = [log EXCEPT ![r] = After(@, op)]

\* Records older than the log enter it, and disturb no row.
Backfill ==
    \A r \in Records :
        log'[r] # log[r] => log[r] = None /\ log'[r] = After(None, "I")

Remove == Removable /\ log' = Empty

Next ==
    \/ \E r \in Records, op \in {"I", "U", "D"} : Change(r, op)
    \/ DOMAIN log' = Records /\ Backfill
    \/ Remove

Spec == Init /\ [][Next]_log
=============================================================================
