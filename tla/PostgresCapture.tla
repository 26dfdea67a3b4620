-------------------------- MODULE PostgresCapture --------------------------
(***************************************************************************)
(* PostgresSync with a history variable that counts the changes of every   *)
(* record as the clients make them, whether or not a trigger sees them.    *)
(* It lets rows and log be compared change by change, an update that       *)
(* leaves the set of rows as it is included.                               *)
(***************************************************************************)
EXTENDS PostgresSync

VARIABLE changes    \* table, record -> changes since there is a log

Zero == [p \in Tables \X Records |-> 0]

\* The records that exist.
Present ==
    {p \in Tables \X Records : \E k \in rows[p[1]] : RecordOf[k] = p[2]}

Changed(S) ==
    changes' = IF installed THEN [p \in Tables \X Records |->
                                     changes[p] + IF p \in S THEN 1 ELSE 0]
                            ELSE changes

CaptureInit == Init /\ changes = Zero

\* The steps that leave rows and log as they are.
Aside ==
    \/ \E s \in Servers : InTransaction(s)
    \/ \E t \in Tables : CreateTable(t)

\* A client changes the row with key k, which has key j afterwards.
ClientChange(t, k, j) ==
    \/ ClientStep(t, k) /\ j = k
    \/ ClientUpdateKey(t, k, j)

\* A log that appears begins with the records there are.
CaptureNext ==
    \/ Aside /\ UNCHANGED changes
    \/ \E s \in Servers :
          \/ /\ Commit(s)
             /\ changes' = IF creates[s]
                           THEN [p \in Tables \X Records |->
                                    IF p \in Present THEN 1 ELSE 0]
                           ELSE changes
          \/ DropSetup(s) /\ changes' = Zero
    \/ \E t \in Tables, k, j \in Keys :
          /\ ClientChange(t, k, j)
          /\ Changed({<<t, RecordOf[k]>>, <<t, RecordOf[j]>>})

CaptureSpec == CaptureInit /\ [][CaptureNext]_<<vars, changes>>

FairCapture == CaptureSpec /\ Fairness

\* Rows and log together: the log begins, at one instant, with the records
\* there are, and from then on every change of a record is counted in the step
\* that makes it, until the log is removed.  No interleaving of setups,
\* crashes, removals and clients has a change that is missed or counted twice.
Captured == INSTANCE CapturedLog WITH
    Records <- Tables \X Records, present <- Present, on <- installed

CapturesChanges == Captured!Spec
=============================================================================
