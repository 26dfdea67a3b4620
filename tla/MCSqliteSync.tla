---------------------------- MODULE MCSqliteSync ----------------------------
(***************************************************************************)
(* An instance of SqliteSync for TLC.                                      *)
(***************************************************************************)
EXTENDS SqliteSync

Col(name, type) == [name |-> name, type |-> type, key |-> FALSE]
Key(name, type) == [name |-> name, type |-> type, key |-> TRUE]

\* The schemas of the server.  From 1 to 2, table a gains and loses a column,
\* another changes its type but not the one of SQLite, and table b goes.  In
\* 3 the key of a is another column.  In 4, b has a key of two columns.
MCShapes == <<
    [a |-> {Key("id", "Uuid"), Col("x", "Int"), Col("z", "Float")},
     b |-> {Key("id", "Int")}],
    [a |-> {Key("id", "Text"), Col("x", "Bool"), Col("y", "Json")},
     b |-> {}],
    [a |-> {Col("id", "Uuid"), Key("x", "Int")},
     b |-> {Key("id", "Int")}],
    [a |-> {Key("id", "Uuid")},
     b |-> {Key("id", "Int"), Key("part", "Int")}] >>

\* The first three with their hash, and 4 with the hash of 1.
MCServed ==
    {[shape |-> s, hash |-> s] : s \in 1..3} \cup {[shape |-> 4, hash |-> 1]}
=============================================================================
