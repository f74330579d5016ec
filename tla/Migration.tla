----------------------------- MODULE Migration ------------------------------
(***************************************************************************)
(* How a process brings the database up to date before it serves           *)
(* (traits/database/database.go, main in cmd/main.go).  Every start runs   *)
(* the whole list of steps again; each looks whether it has something to   *)
(* do.  Only the rebuilding of a table and the seed are transactions, so a *)
(* process may stop between any two statements, and a second process may   *)
(* start, or serve, meanwhile.                                             *)
(***************************************************************************)
EXTENDS Naturals, Sequences, FiniteSets

CONSTANTS
    Processes, NoProcess,
    Databases,      \* bound: the databases a first start may find
    PaymentIds, TestIds, ReceiptIds, Keys,  \* ids and transaction keys in use
    NoKey,
    MaxStops        \* bound: crashes, failed statements and waits that were too long

VARIABLES
    tables,     \* the tables in the file
    index,      \* whether approved receipts have their unique index
    writer,     \* the process whose transaction has the write lock
    draft,      \* the tables as that transaction sees them
    process,    \* what each process is doing
    consent,    \* RESET_LEGACY_INTEGER_IDS=1
    stops,
    owed,       \* the rows users and admins count on
    overtaken,  \* a process went by what it had read before another one's migration
    alone,      \* processes that nobody else has migrated beside
    deadEnds    \* steps that failed although nobody else had interfered

file == <<tables, index, writer, draft>>
ghosts == <<owed, overtaken, alone, deadEnds>>
vars == <<file, process, consent, stops, ghosts>>

Names == {"users", "receipts", "payments", "tests"}
Scratch == [payments |-> "payments_legacy_premium", tests |-> "tests_legacy_migrate"]
Columns == [users |-> {"phone"}, receipts |-> {"receipt_transaction_key"},
            payments |-> {"contact_phone", "payment_type", "premium_course_id"}, tests |-> {"lesson_id"}]

\* A table of users or receipts has been "new" from the start.
Rows == [users |-> {}, receipts |-> ReceiptIds \X (Keys \union {NoKey}),    \* approved ones
         payments |-> PaymentIds, tests |-> TestIds \X BOOLEAN]              \* with a lesson or none
Table(n) == [ids : {"integer", "text"}, shape : {"old", "new"}, columns : SUBSET Columns[n], rows : SUBSET Rows[n]]
NewTable(n) == [ids |-> "text", shape |-> "new", columns |-> Columns[n], rows |-> {}]

Down == [stage |-> "down"]
Serving == [stage |-> "serving"]
Working(stage, at, k) == [stage |-> stage, at |-> at, k |-> k]

\* Migrate, with one column of each group where several differ in nothing.
Step(do, on) == [do |-> do, on |-> on, column |-> ""]
Column(on, column) == [do |-> "column", on |-> on, column |-> column]
Migrate ==
    <<Step("guard", "users"), Step("create", "users"),
      Column("users", "phone"), Column("payments", "contact_phone"), Column("receipts", "receipt_transaction_key"),
      Column("payments", "payment_type"), Column("payments", "premium_course_id"),
      Step("rebuild", "payments"), Step("rebuild", "tests"),
      Step("index", "receipts"), Step("seed", "users")>>

ASSUME MigrationAssumption ==
    /\ NoProcess \notin Processes /\ NoKey \notin Keys
    /\ MaxStops \in Nat

\* What schemas before this one and starts that were cut short leave behind:
\* users are created first and dropped last, and no test without a column for
\* its lesson has one.
ASSUME DatabasesAssumption ==
    \A found \in Databases :
        /\ DOMAIN found \subseteq Names /\ \A n \in DOMAIN found : found[n] \in Table(n)
        /\ DOMAIN found # {} => "users" \in DOMAIN found
        /\ \A m, n \in DOMAIN found : found[m].ids = found[n].ids
        /\ \A n \in DOMAIN found \cap {"users", "receipts"} : found[n].shape = "new"
        /\ "tests" \in DOMAIN found =>
            /\ found["tests"].shape = "new" => "lesson_id" \in found["tests"].columns
            /\ "lesson_id" \notin found["tests"].columns => found["tests"].rows \subseteq TestIds \X {FALSE}

-----------------------------------------------------------------------------
(* Plausible mistakes, for checking that the properties notice them. *)

ExecutedAtOnce(p, made) == draft' = made /\ tables' = made
NotLookedAt(rows) == TRUE

-----------------------------------------------------------------------------
(* What statements see and do. *)

At(p, do, stage) ==
    /\ process[p].stage = stage /\ Migrate[process[p].at].do = do
    /\ writer \in {p, NoProcess}

On(p) == Migrate[process[p].at].on
Put(made, n, t) == [m \in DOMAIN made \union {n} |-> IF m = n THEN t ELSE made[m]]
Without(made, n) == [m \in DOMAIN made \ {n} |-> made[m]]
RowsOf(n) == IF n \in DOMAIN tables THEN tables[n].rows ELSE {}

Go(p, stage, k) == process' = [process EXCEPT ![p] = Working(stage, @.at, k)]
Advance(p) ==
    process' = [process EXCEPT ![p] =
        IF @.at = Len(Migrate) THEN Serving ELSE Working("look", @.at + 1, 1)]

\* A statement fails: Migrate returns the error and the program ends.
Fails(p) ==
    /\ process' = [process EXCEPT ![p] = Down]
    /\ deadEnds' = IF p \in alone /\ ~overtaken THEN deadEnds \union {process[p].at} ELSE deadEnds
    /\ writer' = NoProcess /\ draft' = <<>>
    /\ UNCHANGED <<tables, index, overtaken>>

\* An approved receipt's key, where it has one, is nobody else's.
Distinct(rows) == \A q, r \in rows : q[2] = r[2] /\ q[2] # NoKey => q = r

noApprovedReceiptDuplicates(rows) == Distinct(rows)

-----------------------------------------------------------------------------
(* guardLegacyIntegerIDs: rows with integer ids are only given up for the  *)
(* asking, and users go last, so that a start that was cut short is        *)
(* recognised.                                                             *)

DropOrder(k) == <<"tests", "receipts", "payments", "users">>[k]

Guard(p) ==
    /\ At(p, "guard", "look")
    /\ LET legacy == "users" \in DOMAIN tables /\ tables["users"].ids = "integer"
       IN  \/ ~legacy /\ Advance(p)
           \/ legacy /\ consent /\ Go(p, "drop", 1)
           \/ legacy /\ ~consent /\ process' = [process EXCEPT ![p] = Down]
    /\ UNCHANGED <<file, overtaken, deadEnds>>

DropTable(p) ==
    /\ At(p, "guard", "drop")
    /\ LET k == process[p].k
           n == DropOrder(k)
       IN  /\ tables' = Without(tables, n)
           /\ index' = (index /\ n # "receipts")
           /\ overtaken' = (overtaken \/ (n \in DOMAIN tables /\ tables[n].ids = "text"))
           /\ IF k = Cardinality(Names) THEN Advance(p) ELSE Go(p, "drop", k + 1)
    /\ UNCHANGED <<writer, draft, deadEnds>>

\* schemaV1: each table if there is none.
CreateTable(p) ==
    /\ At(p, "create", "look")
    /\ LET k == process[p].k
           n == <<"users", "payments", "receipts", "tests">>[k]
       IN  /\ tables' = IF n \in DOMAIN tables THEN tables ELSE Put(tables, n, NewTable(n))
           /\ IF k = Cardinality(Names) THEN Advance(p) ELSE Go(p, "look", k + 1)
    /\ UNCHANGED <<index, writer, draft, overtaken, deadEnds>>

-----------------------------------------------------------------------------
(* addColumnIfMissing: the look and the ALTER are two statements. *)

HasColumn(n, column) == n \in DOMAIN tables /\ column \in tables[n].columns

LookForColumn(p) ==
    /\ At(p, "column", "look")
    /\ IF HasColumn(On(p), Migrate[process[p].at].column) THEN Advance(p) ELSE Go(p, "act", 1)
    /\ UNCHANGED <<file, overtaken, deadEnds>>

AddColumn(p) ==
    /\ At(p, "column", "act")
    /\ LET n == On(p)
           column == Migrate[process[p].at].column
       IN  IF n \in DOMAIN tables /\ ~HasColumn(n, column)
           THEN /\ tables' = [tables EXCEPT ![n].columns = @ \union {column}]
                /\ Advance(p)
                /\ UNCHANGED <<index, writer, draft, overtaken, deadEnds>>
           ELSE Fails(p)

-----------------------------------------------------------------------------
(* migratePaymentsForPremiumCourses, migrateLessonOwnedTests: a table of   *)
(* the old shape is rebuilt in one transaction.                            *)

\* k tells whether the old tests have a lesson.
LookAtShape(p) ==
    /\ At(p, "rebuild", "look")
    /\ LET n == On(p)
       IN  IF n \in DOMAIN tables /\ tables[n].shape = "old"
           THEN Go(p, "rename", IF HasColumn(n, "lesson_id") THEN 1 ELSE 0)
           ELSE Advance(p)
    /\ UNCHANGED <<file, overtaken, deadEnds>>

\* A statement of the transaction is seen by the transaction alone.
Executed(p, made) == draft' = made /\ UNCHANGED tables

Statement(p, made, next) ==
    /\ writer' = p
    /\ Executed(p, made)
    /\ Go(p, next, process[p].k)
    /\ UNCHANGED <<index, deadEnds>>

RenameTable(p) ==
    /\ At(p, "rebuild", "rename")
    /\ LET n == On(p)
       IN  IF n \in DOMAIN tables /\ Scratch[n] \notin DOMAIN tables
           THEN /\ Statement(p, Put(Without(tables, n), Scratch[n], tables[n]), "create")
                /\ overtaken' = (overtaken \/ tables[n].shape = "new")
           ELSE Fails(p)

CreateNew(p) ==
    /\ At(p, "rebuild", "create")
    /\ Statement(p, Put(draft, On(p), NewTable(On(p))), "copy")
    /\ UNCHANGED overtaken

\* The copy names the columns that the steps before have added.
Copied(row, known) == IF known THEN row ELSE <<row[1], FALSE>>

CopyRows(p) ==
    /\ At(p, "rebuild", "copy")
    /\ LET n == On(p)
           old == draft[Scratch[n]]
           known == process[p].k = 1
           rows == IF n = "tests" THEN {Copied(row, known) : row \in old.rows} ELSE old.rows
       IN  IF n = "tests" \/ Columns[n] \subseteq old.columns
           THEN /\ Statement(p, [draft EXCEPT ![n].rows = rows, ![n].ids = old.ids], "finish")
                /\ UNCHANGED overtaken
           ELSE Fails(p)

DropOld(p) ==
    /\ At(p, "rebuild", "finish")
    /\ Statement(p, Without(draft, Scratch[On(p)]), "commit")
    /\ UNCHANGED overtaken

Commit(p) ==
    /\ At(p, "rebuild", "commit")
    /\ tables' = draft
    /\ writer' = NoProcess /\ draft' = <<>>
    /\ Advance(p)
    /\ UNCHANGED <<index, overtaken, deadEnds>>

-----------------------------------------------------------------------------
(* indexesV1, addReceiptUniqueIndexes, Seed. *)

\* The index is left out where approved receipts already share a key.
LookForDuplicates(p) ==
    /\ At(p, "index", "look")
    /\ IF /\ HasColumn("receipts", "receipt_transaction_key") /\ HasColumn("tests", "lesson_id")
          /\ "payments" \in DOMAIN tables /\ Columns["payments"] \subseteq tables["payments"].columns
       THEN /\ IF noApprovedReceiptDuplicates(RowsOf("receipts")) THEN Go(p, "act", 1) ELSE Advance(p)
            /\ UNCHANGED <<file, overtaken, deadEnds>>
       ELSE Fails(p)

CreateIndex(p) ==
    /\ At(p, "index", "act")
    /\ IF "receipts" \in DOMAIN tables /\ Distinct(RowsOf("receipts"))
       THEN /\ index' = TRUE
            /\ Advance(p)
            /\ UNCHANGED <<tables, writer, draft, overtaken, deadEnds>>
       ELSE Fails(p)

Seed(p) ==
    /\ At(p, "seed", "look")
    /\ Advance(p)
    /\ UNCHANGED <<file, overtaken, deadEnds>>

MigrationStep(p) ==
    /\ \/ Guard(p) \/ DropTable(p) \/ CreateTable(p)
       \/ LookForColumn(p) \/ AddColumn(p)
       \/ LookAtShape(p) \/ RenameTable(p) \/ CreateNew(p) \/ CopyRows(p) \/ DropOld(p) \/ Commit(p)
       \/ LookForDuplicates(p) \/ CreateIndex(p) \/ Seed(p)
    /\ UNCHANGED <<consent, stops, owed, alone>>

-----------------------------------------------------------------------------
(* Processes, and the service. *)

Migrating(p) == process[p] \notin {Down, Serving}

Start(p) ==
    /\ process[p] = Down
    /\ process' = [process EXCEPT ![p] = Working("look", 1, 1)]
    /\ alone' = IF \E q \in Processes \ {p} : Migrating(q) THEN {} ELSE {p}
    /\ UNCHANGED <<file, consent, stops, owed, overtaken, deadEnds>>

\* A crash, a failed statement or five seconds without the lock: the file
\* keeps what was committed.
Stop(p) ==
    /\ process[p] # Down /\ stops < MaxStops
    /\ stops' = stops + 1
    /\ process' = [process EXCEPT ![p] = Down]
    /\ writer' = IF writer = p THEN NoProcess ELSE writer
    /\ draft' = IF writer = p THEN <<>> ELSE draft
    /\ UNCHANGED <<tables, index, consent, ghosts>>

\* A row that somebody counts on from now on.
Write(p, n, rows) ==
    /\ process[p] = Serving /\ writer = NoProcess
    /\ n \in DOMAIN tables
    /\ tables' = [tables EXCEPT ![n].rows = rows]
    /\ owed' = [owed EXCEPT ![n] = rows]
    /\ UNCHANGED <<index, writer, draft, process, consent, stops, overtaken, alone, deadEnds>>

TakePayment(p, x) == Write(p, "payments", RowsOf("payments") \union {x})

LinkTest(p, x) == Write(p, "tests", {r \in RowsOf("tests") : r[1] # x} \union {<<x, TRUE>>})

ApproveReceipt(p, x, key) ==
    LET rows == RowsOf("receipts") \union {<<x, key>>}
    IN  /\ \A r \in RowsOf("receipts") : r[1] # x
        /\ index => Distinct(rows)
        /\ Write(p, "receipts", rows)

Serve(p) ==
    \/ \E x \in PaymentIds : TakePayment(p, x)
    \/ \E x \in TestIds : LinkTest(p, x)
    \/ \E x \in ReceiptIds, key \in Keys : ApproveReceipt(p, x, key)

Init ==
    /\ \E found \in Databases :
        /\ tables = found
        /\ consent \in BOOLEAN
        /\ owed = [n \in Names |->
            IF n \in DOMAIN found /\ ~(found[n].ids = "integer" /\ consent) THEN found[n].rows ELSE {}]
    /\ index = FALSE
    /\ writer = NoProcess /\ draft = <<>>
    /\ process = [p \in Processes |-> Down]
    /\ stops = 0
    /\ overtaken = FALSE /\ alone = {} /\ deadEnds = {}

Next == \E p \in Processes : Start(p) \/ MigrationStep(p) \/ Stop(p) \/ Serve(p)

\* A process that has started goes on; nothing makes anybody start it.
Spec == Init /\ [][Next]_vars /\ \A p \in Processes : WF_vars(MigrationStep(p))

-----------------------------------------------------------------------------
(* Properties. *)

MigrationTypeOK ==
    /\ DOMAIN tables \subseteq Names /\ \A n \in DOMAIN tables : tables[n] \in Table(n)
    /\ index \in BOOLEAN /\ consent \in BOOLEAN /\ overtaken \in BOOLEAN
    /\ writer \in Processes \union {NoProcess}
    /\ stops \in 0..MaxStops
    /\ alone \subseteq Processes /\ deadEnds \subseteq DOMAIN Migrate

\* No row that users or admins count on is lost, wherever a start stops, and a
\* database with integer ids loses none unless that was asked for. Left out is
\* a process that goes by what it read before another one had migrated.
DataSurvives == overtaken \/ \A n \in Names : owed[n] \subseteq RowsOf(n)

\* A process serves the new tables with all their columns and none with integer
\* ids, and approved receipts are kept apart by the index unless some already
\* share a key (Migrate comes before the server in main).
ServedDatabaseIsWhole ==
    (\E p \in Processes : process[p] = Serving) /\ ~overtaken =>
        /\ DOMAIN tables = Names
        /\ \A n \in Names : /\ tables[n].ids = "text" /\ tables[n].shape = "new"
                            /\ Columns[n] \subseteq tables[n].columns
        /\ index \/ ~Distinct(RowsOf("receipts"))

\* All of these.
MigrationInv == MigrationTypeOK /\ DataSurvives /\ ServedDatabaseIsWhole

\* A start comes to an end, and where no other process migrates beside it, it
\* ends in service, is refused for its integer ids or is cut off: no database
\* is left in a state that no later start can get out of.
StartsSucceed ==
    /\ [](deadEnds = {})
    /\ \A p \in Processes : Migrating(p) ~> ~Migrating(p)

=============================================================================
