-------------------------- MODULE MCPostgresCapture --------------------------
(***************************************************************************)
(* Instances of PostgresCapture for TLC.                                   *)
(***************************************************************************)
EXTENDS PostgresCapture

\* A key of one column is its own record.
MCRecordOf == [k \in Keys |-> k]

\* Table names short enough for a function of their own.
MCFuncOf == [t \in Tables |-> t]

\* The next two break CleanUse (see README, section 4).
\* A composite key whose last column is the same for all.
MCLastColumn == [k \in Keys |-> 1]

\* Table names that agree in their first 48 bytes.
MCTruncated == [t \in Tables |-> 1]
=============================================================================
