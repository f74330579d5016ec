------------------------------- MODULE Tables -------------------------------
(***************************************************************************)
(* SQLite tables as the specifications use them.  A table is a function    *)
(* from the ids in use to rows.  Ids are natural numbers given out in      *)
(* increasing order, which is also the order of SQLite's rowid: the        *)
(* program's own ids are random UUIDs and carry no information.            *)
(***************************************************************************)
EXTENDS Naturals

IsTable(table, Ids, Row) ==
    DOMAIN table \subseteq Ids /\ table \in [DOMAIN table -> Row]

EmptyTable == [i \in {} |-> 0]

\* The table once a row has been inserted under an unused id.
Insert(table, id, row) ==
    [i \in DOMAIN table \cup {id} |-> IF i = id THEN row ELSE table[i]]

\* The id the next INSERT uses, as a set with at most one element: nothing
\* when the bounded id space is used up.
NextId(Ids, table) ==
    {i \in Ids \ DOMAIN table : \A j \in Ids \ DOMAIN table : i <= j}

\* The rows of S that ORDER BY created_at DESC LIMIT 1 may return: created_at
\* has whole seconds, and of the rows of one second any may come first.
Newest(table, S) == {i \in S : \A j \in S : table[j].created <= table[i].created}

\* The same for ORDER BY expires_at DESC LIMIT 1.
LastToEnd(table, S) == {i \in S : \A j \in S : table[j].expires <= table[i].expires}

=============================================================================
