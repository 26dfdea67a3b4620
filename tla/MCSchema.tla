------------------------------ MODULE MCSchema ------------------------------
(***************************************************************************)
(* An instance of SchemaBuilder for TLC: three tables with a column id or  *)
(* ref or both, in either order.                                           *)
(***************************************************************************)
EXTENDS SchemaBuilder

MCTableOrder == <<"a", "b", "c">>

Fk(table, column) ==
    [constraint_name |-> "fk", namespace |-> "public", table |-> table,
     column |-> column, on_update |-> "Cascade", on_delete |-> "Restrict"]

\* What the foreign keys of a column may be: none; one to the own table, to
\* one before or to one after it; several to the same table, to different
\* ones, or to one that is not there.  Cycles of two and of three are among
\* the combinations.
MCForeignKeys ==
    [a |-> {<<>>, <<Fk("a", "id")>>, <<Fk("b", "id")>>,
            <<Fk("gone", "id"), Fk("c", "ref")>>},
     b |-> {<<>>, <<Fk("c", "id")>>, <<Fk("c", "ref"), Fk("a", "id")>>},
     c |-> {<<>>, <<Fk("a", "id"), Fk("a", "id")>>, <<Fk("b", "id")>>}]

\* The checks of the two columns: none, one or two, of the column itself and
\* of a domain that columns share.
MCIdChecks == [a |-> <<>>, b |-> <<"b.id">>, c |-> <<"domain">>]

MCRefChecks ==
    [a |-> <<"a.ref", "domain">>, b |-> <<"domain">>, c |-> <<"c.ref", "c.both">>]

IdRow(table) ==
    [table |-> table, column |-> "id", type |-> "uuid", nullable |-> FALSE,
     primary |-> TRUE, unique |-> TRUE, default |-> None,
     checks |-> MCIdChecks[table], foreign_keys |-> <<>>]

\* The key of table b is that of both columns.
RefRow(table, fks) ==
    [table |-> table, column |-> "ref", type |-> "citext",
     nullable |-> table # "b", primary |-> table = "b", unique |-> FALSE,
     default |-> "'x'", checks |-> MCRefChecks[table], foreign_keys |-> fks]

MCRows ==
    LET tables == DOMAIN MCForeignKeys
    IN  {IdRow(t) : t \in tables}
        \cup UNION {{RefRow(t, fks) : fks \in MCForeignKeys[t]} : t \in tables}
=============================================================================
