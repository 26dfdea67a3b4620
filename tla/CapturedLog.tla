---------------------------- MODULE CapturedLog ----------------------------
(***************************************************************************)
(* What change capture promises of rows and log together, where SyncLog    *)
(* speaks of the log alone: from the moment the log is there it knows the  *)
(* records that exist, and no change of a record goes by without being     *)
(* counted in the same step.                                               *)
(*                                                                         *)
(* Servers, transactions and triggers do not appear: module                *)
(* PostgresCapture is shown to implement this, as long as Postgres change  *)
(* capture is used as intended.                                            *)
(***************************************************************************)
EXTENDS Integers

CONSTANTS
    Records,    \* the (table_name, record_id) pairs
    None        \* no row for this record

VARIABLES
    present,    \* the records that exist
    changes,    \* record -> how often it has changed since there is a log,
                \* with 1 for being there already
    on,         \* is there a log?
    log         \* record -> its row, or None

Zero == [r \in Records |-> 0]

Empty == [r \in Records |-> None]

Init ==
    /\ present = {}
    /\ changes = Zero
    /\ on = FALSE
    /\ log = Empty

\* One more change of r, and its log row.
Change(r, op) ==
    /\ IF on THEN /\ changes' = [changes EXCEPT ![r] = @ + 1]
                  /\ log' = [log EXCEPT
                        ![r] = [op |-> op, version |-> changes[r] + 1]]
             ELSE UNCHANGED <<changes, log>>
    /\ UNCHANGED on

Insert(r) == r \notin present /\ present' = present \cup {r} /\ Change(r, "I")

Update(r) == r \in present /\ UNCHANGED present /\ Change(r, "U")

Delete(r) == r \in present /\ present' = present \ {r} /\ Change(r, "D")

\* The log appears, with the records there are.
Start ==
    /\ ~ on
    /\ on' = TRUE
    /\ changes' = [r \in Records |-> IF r \in present THEN 1 ELSE 0]
    /\ log' = [r \in Records |->
          IF r \in present THEN [op |-> "I", version |-> 1] ELSE None]
    /\ UNCHANGED present

Remove ==
    /\ on' = FALSE
    /\ changes' = Zero
    /\ log' = Empty
    /\ UNCHANGED present

Next ==
    \/ \E r \in Records : Insert(r) \/ Update(r) \/ Delete(r)
    \/ Start
    \/ Remove

Spec == Init /\ [][Next]_<<present, changes, on, log>>
=============================================================================
