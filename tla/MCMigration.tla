---------------------------- MODULE MCMigration -----------------------------
(* An empty file, one with integer ids, two of the old shape and one that    *)
(* was up to date before approved receipts came to share a key.              *)
EXTENDS Migration

New(n, rows) == [NewTable(n) EXCEPT !.rows = rows]
Old(n, columns, rows) == [ids |-> "text", shape |-> "old", columns |-> columns, rows |-> rows]
Bare(n) == [NewTable(n) EXCEPT !.columns = {}]

First == [n \in {} |-> New("users", {})]
Integer ==
    [n \in Names |->
        [ids |-> "integer", shape |-> IF n \in {"payments", "tests"} THEN "old" ELSE "new",
         columns |-> {}, rows |-> IF n = "payments" THEN {1} ELSE {}]]
Aged ==
    [users |-> Bare("users"), receipts |-> Bare("receipts"),
     payments |-> Old("payments", {}, {1}), tests |-> Old("tests", {}, {<<1, FALSE>>})]
Shared ==
    [users |-> New("users", {}), receipts |-> New("receipts", {<<1, "k">>, <<2, "k">>}),
     payments |-> Old("payments", {"contact_phone"}, {1}), tests |-> Old("tests", {"lesson_id"}, {<<1, TRUE>>})]
MCDatabases == {First, Integer, Aged, Shared}
=============================================================================
