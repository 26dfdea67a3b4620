---------------------------- MODULE MCTruthTable ----------------------------
(***************************************************************************)
(* Instances of TruthTable for TLC.                                        *)
(***************************************************************************)
EXTENDS TruthTable

\* Two records in one table and one in the next: heads meet in the same and
\* in different tables, and each memo crosses a table boundary.
MCKeys == {<<1, 1>>, <<1, 2>>, <<2, 1>>}

\* Three tables, with two records in the second: more table changes.
MCKeysTables == {<<1, 2>>, <<2, 1>>, <<2, 2>>, <<3, 1>>}

\* Pairs of these meet every arm of resolve: a higher version with an earlier
\* time, a tie broken by time, equal stamps with equal and different ops.
MCEntries == {[op |-> "I", version |-> 1, updated_at |-> 1],
              [op |-> "D", version |-> 1, updated_at |-> 1],
              [op |-> "U", version |-> 1, updated_at |-> 2],
              [op |-> "U", version |-> 2, updated_at |-> 1]}

MCFewEntries == {[op |-> "I", version |-> 1, updated_at |-> 1],
                 [op |-> "D", version |-> 1, updated_at |-> 1]}

\* Symbols are handed out in interning order, not in name order.
MCSymbolOf == [n \in Interned |-> 10 - n]
=============================================================================
