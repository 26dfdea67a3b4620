--------------------------- MODULE MCPostgresSync ---------------------------
(***************************************************************************)
(* Instances of PostgresSync for TLC.                                      *)
(***************************************************************************)
EXTENDS PostgresSync, TLC

\* A key of one column is its own record.
MCRecordOf == [k \in Keys |-> k]

\* Table names short enough for a function of their own.
MCFuncOf == [t \in Tables |-> t]

MCSymmetry == Permutations(Servers)
=============================================================================
