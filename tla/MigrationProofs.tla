-------------------------- MODULE MigrationProofs ---------------------------
(***************************************************************************)
(* Proofs about Migration: wherever starts stop and however two of them    *)
(* meet, no row is lost and the tables are served whole, unless a process  *)
(* went by what it had read before another one's migration; no start runs  *)
(* into a dead end; and a process that migrates by itself overtakes        *)
(* nobody.                                                                 *)
(***************************************************************************)
EXTENDS Migration, FiniteSetTheorems, TLAPS

-----------------------------------------------------------------------------
(***************************************************************************)
(* The inductive invariant.                                                *)
(***************************************************************************)

\* Where a process may be in the list of steps.
Task ==
    [stage : {"look"}, at : 1..11, k : 1..4]
    \cup [stage : {"drop"}, at : {1}, k : 1..4]
    \cup [stage : {"act"}, at : {3, 4, 5, 6, 7, 10}, k : {1}]
    \cup [stage : {"rename", "create", "copy", "finish", "commit"}, at : {8, 9}, k : {0, 1}]

TypeInv ==
    /\ MigrationTypeOK
    /\ process \in [Processes -> {Down, Serving} \cup Task]
    /\ DOMAIN owed = Names

\* What the transaction of a rebuilding has made of the tables so far: nobody
\* else changes them meanwhile.
InTransaction == {"create", "copy", "finish", "commit"}

FilledRows(n, k) ==
    IF n = "tests" THEN {Copied(row, k = 1) : row \in tables[n].rows} ELSE tables[n].rows
Filled(n, k) == [NewTable(n) EXCEPT !.rows = FilledRows(n, k), !.ids = tables[n].ids]

Renamed(n) == Put(Without(tables, n), Scratch[n], tables[n])

DraftOf(n, stage, k) ==
    CASE stage = "create" -> Renamed(n)
      [] stage = "copy"   -> Put(Renamed(n), n, NewTable(n))
      [] stage = "finish" -> Put(Renamed(n), n, Filled(n, k))
      [] stage = "commit" -> Put(Without(tables, n), n, Filled(n, k))

DraftInv ==
    \A p \in Processes :
        /\ process[p].stage \in InTransaction <=> writer = p
        /\ writer = p =>
            /\ On(p) \in DOMAIN tables
            /\ draft = DraftOf(On(p), process[p].stage, process[p].k)

\* Tables never differ in their ids: a start that drops integer ones drops users
\* last and creates none before that.
OneKindOfIds ==
    \/ \A n \in DOMAIN tables : tables[n].ids = "text"
    \/ "users" \in DOMAIN tables /\ \A n \in DOMAIN tables : tables[n].ids = "integer"

SoundTables ==
    /\ OneKindOfIds
    /\ \A n \in DOMAIN tables \cap {"users", "receipts"} : tables[n].shape = "new"
    /\ "tests" \in DOMAIN tables =>
        /\ tables["tests"].shape = "new" => "lesson_id" \in tables["tests"].columns
        /\ "lesson_id" \notin tables["tests"].columns => tables["tests"].rows \subseteq TestIds \X {FALSE}

\* Rows that were given up are not owed.
Owed ==
    /\ DataSurvives
    /\ consent => \A n \in DOMAIN tables : tables[n].ids = "integer" => owed[n] = {}

\* What the steps before the i-th have made of the tables.
Progressed(i) ==
    /\ i > 1 => \A n \in DOMAIN tables : tables[n].ids = "text"
    /\ i > 2 => DOMAIN tables = Names
    /\ \A j \in 3..7 : i > j => HasColumn(Migrate[j].on, Migrate[j].column)
    /\ i > 8 => tables["payments"].shape = "new"
    /\ i > 9 => tables["tests"].shape = "new"
    /\ i > 10 => index \/ ~Distinct(RowsOf("receipts"))

Reached(s) == IF s = Down THEN 0 ELSE IF s = Serving THEN 12 ELSE s.at

CreateOrder(k) == <<"users", "payments", "receipts", "tests">>[k]

\* What a process relies on in the middle of a step.
Halfway(s) ==
    /\ s.stage = "drop" => \A j \in 1..(s.k - 1) :
            DropOrder(j) \in DOMAIN tables => tables[DropOrder(j)].ids = "text"
    /\ s.stage = "look" /\ s.at = 2 => \A j \in 1..(s.k - 1) : CreateOrder(j) \in DOMAIN tables
    /\ s.stage \in {"rename"} \cup InTransaction /\ s.at = 9 /\ tables["tests"].shape = "old" =>
            (s.k = 1 <=> HasColumn("tests", "lesson_id"))
    /\ s.stage \in InTransaction => tables[Migrate[s.at].on].shape = "old"

\* What a process that migrates alone may rely on besides.
Undisturbed(s) ==
    /\ s.stage = "drop" => "users" \in DOMAIN tables /\ tables["users"].ids = "integer"
    /\ s.stage = "act" /\ s.at \in 3..7 => ~HasColumn(Migrate[s.at].on, Migrate[s.at].column)
    /\ s.stage = "rename" => tables[Migrate[s.at].on].shape = "old"
    /\ s.stage = "act" /\ s.at = 10 => Distinct(RowsOf("receipts"))

Orderly ==
    /\ SoundTables /\ Owed
    /\ \A p \in Processes : Progressed(Reached(process[p])) /\ Halfway(process[p])
    /\ \A p \in alone : Undisturbed(process[p])

\* What holds even when a process has overtaken another.
Basics ==
    /\ TypeInv /\ DraftInv
    /\ \A p \in Processes : process[p].stage = "drop" => consent
    /\ \A p \in alone, q \in Processes : Migrating(q) => q = p

Inv == Basics /\ deadEnds = {} /\ (~overtaken => Orderly)

-----------------------------------------------------------------------------
(***************************************************************************)
(* The list of steps, and where a process is in it.                        *)
(***************************************************************************)

LEMMA StepParts ==
    /\ \A do, on : Step(do, on).do = do /\ Step(do, on).on = on
    /\ \A on, column : Column(on, column).do = "column" /\ Column(on, column).on = on
                       /\ Column(on, column).column = column
BY DEF Step, Column

LEMMA MigrateSteps ==
    /\ Len(Migrate) = 11 /\ DOMAIN Migrate = 1..11
    /\ Migrate[1] = Step("guard", "users") /\ Migrate[2] = Step("create", "users")
    /\ Migrate[3] = Column("users", "phone") /\ Migrate[4] = Column("payments", "contact_phone")
    /\ Migrate[5] = Column("receipts", "receipt_transaction_key")
    /\ Migrate[6] = Column("payments", "payment_type")
    /\ Migrate[7] = Column("payments", "premium_course_id")
    /\ Migrate[8] = Step("rebuild", "payments") /\ Migrate[9] = Step("rebuild", "tests")
    /\ Migrate[10] = Step("index", "receipts") /\ Migrate[11] = Step("seed", "users")
BY DEF Migrate

\* Which steps do what, and to which table.
LEMMA StepsByKind ==
    ASSUME NEW i \in 1..11
    PROVE  /\ Migrate[i].do = "guard" <=> i = 1
           /\ Migrate[i].do = "create" <=> i = 2
           /\ Migrate[i].do = "column" <=> i \in 3..7
           /\ Migrate[i].do = "rebuild" <=> i \in {8, 9}
           /\ Migrate[i].do = "index" <=> i = 10
           /\ Migrate[i].do = "seed" <=> i = 11
           /\ Migrate[i].on \in Names
<1>1. i \in {1, 2, 3, 4, 5, 6, 7, 8, 9, 10, 11}
  OBVIOUS
<1>2. /\ Migrate[1].do = "guard" /\ Migrate[2].do = "create" /\ Migrate[3].do = "column"
      /\ Migrate[4].do = "column" /\ Migrate[5].do = "column" /\ Migrate[6].do = "column"
      /\ Migrate[7].do = "column" /\ Migrate[8].do = "rebuild" /\ Migrate[9].do = "rebuild"
      /\ Migrate[10].do = "index" /\ Migrate[11].do = "seed"
  BY MigrateSteps, StepParts
<1>3. /\ Migrate[1].on = "users" /\ Migrate[2].on = "users" /\ Migrate[3].on = "users"
      /\ Migrate[4].on = "payments" /\ Migrate[5].on = "receipts" /\ Migrate[6].on = "payments"
      /\ Migrate[7].on = "payments" /\ Migrate[8].on = "payments" /\ Migrate[9].on = "tests"
      /\ Migrate[10].on = "receipts" /\ Migrate[11].on = "users"
  BY MigrateSteps, StepParts
<1>4. Migrate[i].on \in Names
  BY <1>1, <1>3 DEF Names
<1> QED
  BY <1>1, <1>2, <1>4

LEMMA ColumnSteps ==
    ASSUME NEW i \in 3..7
    PROVE  /\ Migrate[i].on \in {"users", "payments", "receipts"}
           /\ Migrate[i].column \in Columns[Migrate[i].on]
<1>1. i \in {3, 4, 5, 6, 7}
  OBVIOUS
<1> QED
  BY <1>1, MigrateSteps DEF Column, Columns

LEMMA RebuildSteps ==
    ASSUME NEW i \in {8, 9}
    PROVE  /\ Migrate[i].on \in {"payments", "tests"}
           /\ Migrate[i].on = "tests" <=> i = 9
           /\ Scratch[Migrate[i].on] \notin Names
<1>1. Migrate[8].on = "payments" /\ Migrate[9].on = "tests"
  BY MigrateSteps, StepParts
<1>2. Scratch["payments"] \notin Names /\ Scratch["tests"] \notin Names
  BY DEF Scratch, Names
<1> QED
  BY <1>1, <1>2

States == {Down, Serving} \cup Task

LEMMA StateFacts ==
    ASSUME NEW s \in States
    PROVE  /\ s = Down <=> s.stage = "down"
           /\ s = Serving <=> s.stage = "serving"
           /\ s \notin {Down, Serving} => s \in Task
           /\ s \in Task => Reached(s) = s.at /\ s # Down /\ s # Serving
           /\ Reached(s) \in 0..12
<1>1. CASE s = Down
  BY <1>1 DEF Down, Serving, Task, Reached
<1>2. CASE s = Serving
  BY <1>2 DEF Down, Serving, Task, Reached
<1>3. CASE s \in Task
  <2>1. s.stage \in {"look", "drop", "act", "rename", "create", "copy", "finish", "commit"} /\ s.at \in 1..11
    BY <1>3 DEF Task
  <2> QED
    BY <1>3, <2>1 DEF Down, Serving, Reached
<1> QED
  BY <1>1, <1>2, <1>3 DEF States

\* A process in a step is in the list where that step is.
LEMMA AtPlace ==
    ASSUME TypeInv, NEW p \in Processes, NEW do, NEW stage, stage \notin {"down", "serving"},
           At(p, do, stage)
    PROVE  /\ process[p] \in Task /\ process[p].stage = stage
           /\ process[p].at \in 1..11 /\ process[p].k \in Nat
           /\ Migrate[process[p].at].do = do
           /\ Migrating(p) /\ Reached(process[p]) = process[p].at
           /\ process[p] \in States
<1>1. process[p] \in States
  BY DEF TypeInv, States
<1>2. process[p].stage = stage
  BY DEF At
<1>3. process[p] # Down /\ process[p] # Serving
  BY <1>2 DEF Down, Serving
<1>4. process[p] \in Task
  BY <1>1, <1>3 DEF States
<1>5. process[p].at \in 1..11 /\ process[p].k \in Nat
  BY <1>4 DEF Task
<1> QED
  BY <1>1, <1>2, <1>3, <1>4, <1>5 DEF At, Migrating, Reached

LEMMA Kinds ==
    ASSUME NEW s \in Task
    PROVE  /\ s.stage = "look" => s.k \in 1..4
           /\ s.stage = "drop" => s.at = 1 /\ s.k \in 1..4
           /\ s.stage = "act" => s.at \in {3, 4, 5, 6, 7, 10} /\ s.k = 1
           /\ s.stage \in {"rename"} \cup InTransaction => s.at \in {8, 9} /\ s.k \in {0, 1}
           /\ s.stage \in {"look", "drop", "act", "rename"} \cup InTransaction
           /\ s.at \in 1..11
BY DEF Task, InTransaction

LEMMA Tasks ==
    /\ \A i \in 1..11, k \in 1..4 : Working("look", i, k) \in Task
    /\ \A k \in 1..4 : Working("drop", 1, k) \in Task
    /\ \A i \in {3, 4, 5, 6, 7, 10} : Working("act", i, 1) \in Task
    /\ \A stage \in {"rename"} \cup InTransaction, i \in {8, 9}, k \in {0, 1} : Working(stage, i, k) \in Task
BY DEF Task, Working, InTransaction

\* Where the next step begins.
Following(i) == IF i = 11 THEN Serving ELSE Working("look", i + 1, 1)

LEMMA FollowingState ==
    ASSUME NEW i \in 1..11
    PROVE  /\ Following(i) \in States
           /\ Reached(Following(i)) = i + 1
           /\ Following(i).stage \in {"look", "serving"}
           /\ Following(i) # Down
<1>1. CASE i = 11
  BY <1>1, StateFacts DEF Following, States, Reached, Serving, Down
<1>2. CASE i # 11
  <2>1. Working("look", i + 1, 1) \in Task
    BY <1>2, Tasks
  <2>2. Working("look", i + 1, 1).stage = "look" /\ Working("look", i + 1, 1).at = i + 1
    BY DEF Working
  <2> QED
    BY <1>2, <2>1, <2>2, StateFacts DEF Following, States
<1> QED
  BY <1>1, <1>2

\* What Go and Advance make of the process.
LEMMA Moves ==
    ASSUME TypeInv, NEW p \in Processes, process[p] \in Task
    PROVE  /\ Advance(p) => process' = [process EXCEPT ![p] = Following(process[p].at)]
           /\ \A stage, k : Go(p, stage, k) =>
                  process' = [process EXCEPT ![p] = Working(stage, process[p].at, k)]
<1>1. DOMAIN process = Processes
  BY DEF TypeInv
<1> QED
  BY <1>1, MigrateSteps DEF Advance, Go, Following

-----------------------------------------------------------------------------
(***************************************************************************)
(* Types, transactions, and who migrates alone.                            *)
(***************************************************************************)

Moved(p, s) == s \in States /\ process' = [process EXCEPT ![p] = s]

LEMMA MovedProcess ==
    ASSUME TypeInv, NEW p \in Processes, NEW s, Moved(p, s)
    PROVE  /\ process' \in [Processes -> {Down, Serving} \cup Task]
           /\ process'[p] = s
           /\ \A q \in Processes : q # p => process'[q] = process[q]
BY DEF TypeInv, Moved, States

TablesTyped == DOMAIN tables \subseteq Names /\ \A n \in DOMAIN tables : tables[n] \in Table(n)

\* Only a process with the write lock is in a transaction.
LEMMA NobodyInTransaction ==
    ASSUME Basics, NEW p \in Processes, process[p].stage \notin InTransaction, writer \in {p, NoProcess}
    PROVE  /\ writer = NoProcess
           /\ \A q \in Processes : process[q].stage \notin InTransaction
BY MigrationAssumption DEF Basics, DraftInv

LEMMA OthersIdle ==
    ASSUME Basics, NEW p \in Processes, NEW s, Moved(p, s), process[p] \in Task, UNCHANGED alone
    PROVE  \A r \in alone', q \in Processes : Migrating(q)' => q = r
<1>1. Migrating(p)
  BY StateFacts DEF Migrating, States
<1>2. \A q \in Processes : q # p => process'[q] = process[q]
  BY MovedProcess DEF Basics
<1> QED
  BY <1>1, <1>2 DEF Basics, Migrating

\* A step of the migration outside a transaction.
LEMMA QuietBasics ==
    ASSUME Basics, NEW p \in Processes, NEW s, Moved(p, s), process[p] \in Task,
           process[p].stage \notin InTransaction, s.stage \notin InTransaction,
           s.stage = "drop" => consent, writer \in {p, NoProcess},
           UNCHANGED <<writer, draft, consent, stops, owed, alone>>,
           TablesTyped', index' \in BOOLEAN, overtaken' \in BOOLEAN, deadEnds' \subseteq DOMAIN Migrate
    PROVE  Basics'
<1>1. /\ process' \in [Processes -> {Down, Serving} \cup Task] /\ process'[p] = s
      /\ \A q \in Processes : q # p => process'[q] = process[q]
  BY MovedProcess DEF Basics
<1>2. TypeInv'
  BY <1>1 DEF Basics, TypeInv, MigrationTypeOK, TablesTyped
<1>3. writer' = NoProcess /\ \A q \in Processes : process'[q].stage \notin InTransaction
  BY <1>1, NobodyInTransaction
<1>4. DraftInv'
  BY <1>3, MigrationAssumption DEF DraftInv
<1>5. \A q \in Processes : process'[q].stage = "drop" => consent'
  BY <1>1 DEF Basics
<1>6. \A r \in alone', q \in Processes : Migrating(q)' => q = r
  BY OthersIdle
<1> QED
  BY <1>2, <1>4, <1>5, <1>6 DEF Basics

\* A step that fails, and gives up its transaction.
LEMMA FailBasics ==
    ASSUME Basics, NEW p \in Processes, process[p] \in Task, Fails(p), writer \in {p, NoProcess},
           UNCHANGED <<consent, stops, owed, alone>>
    PROVE  Basics' /\ Moved(p, Down)
<1>1. Moved(p, Down)
  BY DEF Fails, Moved, States
<1>2. /\ process' \in [Processes -> {Down, Serving} \cup Task] /\ process'[p] = Down
      /\ \A q \in Processes : q # p => process'[q] = process[q]
  BY <1>1, MovedProcess DEF Basics
<1>3. TypeInv'
  <2>1. process[p].at \in DOMAIN Migrate
    BY Kinds, MigrateSteps
  <2> QED
    BY <1>2, <2>1 DEF Basics, TypeInv, MigrationTypeOK, Fails
<1>4. Down.stage \notin InTransaction /\ Down.stage # "drop"
  BY DEF Down, InTransaction
<1>5. writer' = NoProcess /\ \A q \in Processes : process'[q].stage \notin InTransaction
  BY <1>2, <1>4, MigrationAssumption DEF Basics, DraftInv, Fails
<1>6. DraftInv'
  BY <1>5, MigrationAssumption DEF DraftInv
<1>7. \A q \in Processes : process'[q].stage = "drop" => consent'
  BY <1>2, <1>4 DEF Basics
<1>8. \A r \in alone', q \in Processes : Migrating(q)' => q = r
  BY <1>1, OthersIdle
<1> QED
  BY <1>1, <1>3, <1>6, <1>7, <1>8 DEF Basics

\* The tables of a transaction, once it has been rolled into the file.
LEMMA PutParts ==
    ASSUME NEW f, NEW n, NEW t
    PROVE  /\ DOMAIN Put(f, n, t) = DOMAIN f \cup {n}
           /\ Put(f, n, t)[n] = t
           /\ \A m \in DOMAIN f : m # n => Put(f, n, t)[m] = f[m]
BY DEF Put

LEMMA WithoutParts ==
    ASSUME NEW f, NEW n
    PROVE  /\ DOMAIN Without(f, n) = DOMAIN f \ {n}
           /\ \A m \in DOMAIN f : m # n => Without(f, n)[m] = f[m]
BY DEF Without

LEMMA PutAgain ==
    ASSUME NEW f, NEW n, NEW t, NEW u
    PROVE  [Put(f, n, t) EXCEPT ![n] = u] = Put(f, n, u)
<1>1. DOMAIN Put(f, n, t) = DOMAIN f \cup {n}
  BY PutParts
<1> QED
  BY <1>1 DEF Put

LEMMA PutWithout ==
    ASSUME NEW f, NEW m, NEW n, NEW t, NEW u, m # n, m \notin DOMAIN f
    PROVE  Without(Put(Put(Without(f, n), m, t), n, u), m) = Put(Without(f, n), n, u)
<1>1. PICK w : w = Without(f, n)
  OBVIOUS
<1>2. PICK g : g = Put(w, m, t)
  OBVIOUS
<1>3. PICK d : d = Put(g, n, u)
  OBVIOUS
<1>4. PICK h : h = Put(w, n, u)
  OBVIOUS
<1>5. DOMAIN w = DOMAIN f \ {n}
  BY <1>1, WithoutParts
<1>6. DOMAIN g = DOMAIN w \cup {m} /\ \A x \in DOMAIN w : g[x] = w[x]
  BY <1>2, <1>5 DEF Put
<1>7. DOMAIN d = DOMAIN g \cup {n} /\ d[n] = u /\ \A x \in DOMAIN g : x # n => d[x] = g[x]
  BY <1>3 DEF Put
<1>8. DOMAIN h = DOMAIN w \cup {n} /\ h[n] = u /\ \A x \in DOMAIN w : x # n => h[x] = w[x]
  BY <1>4 DEF Put
<1>9. DOMAIN d \ {m} = DOMAIN h
  BY <1>5, <1>6, <1>7, <1>8
<1>10. \A x \in DOMAIN h : d[x] = h[x]
  BY <1>5, <1>6, <1>7, <1>8
<1>11. h = [x \in DOMAIN h |-> h[x]]
  BY <1>4 DEF Put
<1>12. Without(d, m) = [x \in DOMAIN d \ {m} |-> d[x]]
  BY DEF Without
<1>13. Without(d, m) = h
  BY <1>9, <1>10, <1>11, <1>12
<1> QED
  BY <1>1, <1>2, <1>3, <1>4, <1>13

LEMMA FilledTyped ==
    ASSUME Basics, NEW n \in DOMAIN tables, NEW k
    PROVE  Filled(n, k) \in Table(n)
<1>1. n \in Names /\ tables[n] \in Table(n)
  BY DEF Basics, TypeInv, MigrationTypeOK
<1>2. FilledRows(n, k) \subseteq Rows[n]
  <2>1. CASE n = "tests"
    <3>1. Rows["tests"] = TestIds \X BOOLEAN /\ tables["tests"].rows \subseteq TestIds \X BOOLEAN
      BY <1>1, <2>1 DEF Table, Rows
    <3>2. \A row \in TestIds \X BOOLEAN : Copied(row, k = 1) \in TestIds \X BOOLEAN
      BY DEF Copied
    <3> QED
      BY <2>1, <3>1, <3>2 DEF FilledRows
  <2>2. CASE n # "tests"
    BY <1>1, <2>2 DEF FilledRows, Table
  <2> QED
    BY <2>1, <2>2
<1> QED
  BY <1>1, <1>2 DEF Filled, NewTable, Table

\* A statement of a transaction.
LEMMA StatementBasics ==
    ASSUME Basics, NEW p \in Processes, process[p] \in Task,
           process[p].stage \in {"rename"} \cup InTransaction, writer \in {p, NoProcess},
           NEW made, NEW next \in InTransaction, Statement(p, made, next), UNCHANGED tables,
           draft' = made,
           On(p) \in DOMAIN tables, made = DraftOf(On(p), next, process[p].k),
           overtaken' \in BOOLEAN, UNCHANGED <<consent, stops, owed, alone>>
    PROVE  Basics' /\ Moved(p, Working(next, process[p].at, process[p].k))
<1> DEFINE s == Working(next, process[p].at, process[p].k)
<1>1. s \in Task /\ s.stage = next /\ s.at = process[p].at /\ s.k = process[p].k
  BY Kinds, Tasks DEF Working
<1>2. process' = [process EXCEPT ![p] = s]
  BY Moves DEF Basics, Statement
<1> HIDE DEF s
<1>3. Moved(p, s)
  BY <1>1, <1>2 DEF Moved, States
<1>4. /\ process' \in [Processes -> {Down, Serving} \cup Task] /\ process'[p] = s
      /\ \A q \in Processes : q # p => process'[q] = process[q]
  BY <1>3, MovedProcess DEF Basics
<1>5. UNCHANGED index /\ writer' = p /\ UNCHANGED deadEnds
  BY DEF Statement
<1>6. TypeInv'
  BY <1>4, <1>5 DEF Basics, TypeInv, MigrationTypeOK
<1>7. \A q \in Processes : q # p => process[q].stage \notin InTransaction
  BY MigrationAssumption DEF Basics, DraftInv
<1>8. DraftInv'
  <2>1. On(p)' = On(p)
    BY <1>1, <1>4 DEF On
  <2>2. draft' = DraftOf(On(p), process[p].stage, process[p].k)'
    <3>1. PICK n, k : n = On(p) /\ k = process[p].k
      OBVIOUS
    <3>2. On(p)' = n /\ process'[p].stage = next /\ process'[p].k = k
      BY <1>1, <1>4, <2>1, <3>1
    <3>3. Renamed(n)' = Renamed(n) /\ Filled(n, k)' = Filled(n, k)
      BY DEF Renamed, Filled, FilledRows
    <3>4. DraftOf(n, next, k)' = DraftOf(n, next, k)
      BY <3>3 DEF DraftOf, InTransaction
    <3>5. DraftOf(On(p), process[p].stage, process[p].k)' = DraftOf(n, next, k)'
      BY <3>2 DEF DraftOf
    <3> QED
      BY <3>1, <3>4, <3>5
  <2>3. process'[p].stage \in InTransaction
    BY <1>1, <1>4
  <2> QED
    BY <1>4, <1>5, <1>7, <2>1, <2>2, <2>3 DEF DraftInv
<1>9. \A q \in Processes : process'[q].stage = "drop" => consent'
  BY <1>1, <1>4 DEF Basics, InTransaction
<1>10. \A r \in alone', q \in Processes : Migrating(q)' => q = r
  BY <1>3, OthersIdle
<1> QED
  BY <1>3, <1>6, <1>8, <1>9, <1>10 DEF Basics, s

\* What a process in a transaction sees.
LEMMA DraftSeen ==
    ASSUME Basics, NEW p \in Processes, process[p].stage \in InTransaction
    PROVE  /\ writer = p /\ On(p) \in DOMAIN tables
           /\ draft = DraftOf(On(p), process[p].stage, process[p].k)
BY DEF Basics, DraftInv

LEMMA CreateNewBasics ==
    ASSUME Basics, NEW p \in Processes, CreateNew(p), UNCHANGED <<consent, stops, owed, alone>>
    PROVE  Basics' /\ Moved(p, Working("copy", process[p].at, process[p].k)) /\ UNCHANGED tables
<1>1. process[p] \in Task /\ process[p].stage = "create" /\ "create" \in InTransaction
      /\ "copy" \in InTransaction /\ writer \in {p, NoProcess}
  BY AtPlace DEF CreateNew, Basics, InTransaction, At
<1>2. On(p) \in DOMAIN tables /\ draft = Renamed(On(p))
  BY <1>1, DraftSeen DEF DraftOf
<1>3. Put(draft, On(p), NewTable(On(p))) = DraftOf(On(p), "copy", process[p].k)
  BY <1>2 DEF DraftOf
<1>4. PICK made : made = Put(draft, On(p), NewTable(On(p)))
  OBVIOUS
<1>5. Statement(p, made, "copy") /\ UNCHANGED overtaken
  BY <1>4 DEF CreateNew
<1>6. draft' = made /\ UNCHANGED tables
  BY <1>5 DEF Statement, Executed
<1>7. overtaken' \in BOOLEAN
  BY <1>5 DEF Basics, TypeInv, MigrationTypeOK
<1> QED
  BY <1>1, <1>2, <1>3, <1>4, <1>5, <1>6, <1>7, StatementBasics

LEMMA CopyRowsBasics ==
    ASSUME Basics, NEW p \in Processes, CopyRows(p), UNCHANGED <<consent, stops, owed, alone>>
    PROVE  /\ Basics'
           /\ \/ Moved(p, Working("finish", process[p].at, process[p].k)) /\ UNCHANGED <<tables, index, overtaken, deadEnds>>
              \/ /\ Fails(p) /\ On(p) = "payments" /\ ~(Columns[On(p)] \subseteq tables[On(p)].columns)
<1> DEFINE n == On(p)
           k == process[p].k
<1>1. process[p] \in Task /\ process[p].stage = "copy" /\ "copy" \in InTransaction
      /\ "finish" \in InTransaction /\ writer \in {p, NoProcess} /\ process[p].at \in {8, 9}
  BY AtPlace, Kinds DEF CopyRows, Basics, InTransaction, At
<1>2. n \in {"payments", "tests"} /\ Scratch[n] \notin Names
  BY <1>1, RebuildSteps DEF On
<1>3. n \in DOMAIN tables /\ draft = Put(Renamed(n), n, NewTable(n)) /\ writer = p
  BY <1>1, DraftSeen DEF DraftOf
<1>4. n \in Names
  BY <1>2 DEF Names
<1> HIDE DEF n
<1>5. draft[Scratch[n]] = tables[n]
  <2>1. DOMAIN Renamed(n) = (DOMAIN tables \ {n}) \cup {Scratch[n]} /\ Renamed(n)[Scratch[n]] = tables[n]
    BY DEF Renamed, Put, Without
  <2> QED
    BY <1>2, <1>3, <1>4, <2>1 DEF Put
<1>6. CASE n = "tests" \/ Columns[n] \subseteq tables[n].columns
  <2>1. Statement(p, [draft EXCEPT ![n].rows = FilledRows(n, k), ![n].ids = tables[n].ids], "finish") /\ UNCHANGED overtaken
    BY <1>5, <1>6 DEF CopyRows, n, FilledRows
  <2>2. [draft EXCEPT ![n].rows = FilledRows(n, k), ![n].ids = tables[n].ids]
            = [draft EXCEPT ![n] = Filled(n, k)]
    <3>1. n \in DOMAIN draft /\ draft[n] = NewTable(n)
      BY <1>3 DEF Put
    <3> QED
      BY <3>1 DEF Filled
  <2>3. [draft EXCEPT ![n] = Filled(n, k)] = DraftOf(n, "finish", k)
    BY <1>3, PutAgain DEF DraftOf
  <2>4. PICK made : made = [draft EXCEPT ![n].rows = FilledRows(n, k), ![n].ids = tables[n].ids]
    OBVIOUS
  <2>5. Statement(p, made, "finish") /\ made = DraftOf(On(p), "finish", process[p].k)
    BY <2>1, <2>2, <2>3, <2>4 DEF n
  <2>6. draft' = made /\ UNCHANGED <<tables, index, deadEnds>>
    BY <2>5 DEF Statement, Executed
  <2>7. overtaken' \in BOOLEAN /\ On(p) \in DOMAIN tables
    BY <1>3, <2>1 DEF Basics, TypeInv, MigrationTypeOK, n
  <2> QED
    BY <1>1, <2>1, <2>5, <2>6, <2>7, StatementBasics
<1>7. CASE ~(n = "tests" \/ Columns[n] \subseteq tables[n].columns)
  <2>1. Fails(p)
    BY <1>5, <1>7 DEF CopyRows, n
  <2> QED
    BY <1>1, <1>2, <1>7, <2>1, FailBasics DEF n
<1> QED
  BY <1>6, <1>7

LEMMA DropOldBasics ==
    ASSUME Basics, NEW p \in Processes, DropOld(p), UNCHANGED <<consent, stops, owed, alone>>
    PROVE  Basics' /\ Moved(p, Working("commit", process[p].at, process[p].k)) /\ UNCHANGED tables
<1>1. process[p] \in Task /\ process[p].stage = "finish" /\ "finish" \in InTransaction
      /\ "commit" \in InTransaction /\ writer \in {p, NoProcess} /\ process[p].at \in {8, 9}
  BY AtPlace, Kinds DEF DropOld, Basics, InTransaction, At
<1>2. PICK n, k : n = On(p) /\ k = process[p].k
  OBVIOUS
<1>3. n \in {"payments", "tests"} /\ Scratch[n] \notin Names
  BY <1>1, <1>2, RebuildSteps DEF On
<1>4. n \in DOMAIN tables /\ draft = Put(Renamed(n), n, Filled(n, k))
  BY <1>1, <1>2, DraftSeen DEF DraftOf
<1>5. Scratch[n] # n /\ Scratch[n] \notin DOMAIN tables
  BY <1>3 DEF Names, Basics, TypeInv, MigrationTypeOK
<1>6. PICK made : made = Without(draft, Scratch[n])
  OBVIOUS
<1>7. PICK before, old, full : before = tables /\ old = tables[n] /\ full = Filled(n, k)
  OBVIOUS
<1>8. made = Put(Without(tables, n), n, Filled(n, k))
  <2>1. Without(Put(Put(Without(before, n), Scratch[n], old), n, full), Scratch[n])
            = Put(Without(before, n), n, full)
    BY <1>5, <1>7, PutWithout
  <2> QED
    BY <1>4, <1>6, <1>7, <2>1 DEF Renamed
<1>9. made = DraftOf(On(p), "commit", process[p].k)
  BY <1>2, <1>8 DEF DraftOf
<1>10. Statement(p, made, "commit") /\ UNCHANGED overtaken
  BY <1>2, <1>6 DEF DropOld
<1>11. draft' = made /\ UNCHANGED tables /\ overtaken' \in BOOLEAN /\ On(p) \in DOMAIN tables
  BY <1>2, <1>4, <1>10 DEF Statement, Executed, Basics, TypeInv, MigrationTypeOK
<1> QED
  BY <1>1, <1>9, <1>10, <1>11, StatementBasics

LEMMA RenameBasics ==
    ASSUME Basics, NEW p \in Processes, RenameTable(p), UNCHANGED <<consent, stops, owed, alone>>
    PROVE  /\ Basics' /\ UNCHANGED <<tables, index>>
           /\ \/ /\ Moved(p, Working("create", process[p].at, process[p].k)) /\ UNCHANGED deadEnds
                 /\ On(p) \in DOMAIN tables
                 /\ overtaken' = (overtaken \/ tables[On(p)].shape = "new")
              \/ Fails(p) /\ On(p) \notin DOMAIN tables
<1>1. process[p] \in Task /\ process[p].stage = "rename" /\ "create" \in InTransaction
      /\ writer \in {p, NoProcess} /\ process[p].at \in {8, 9}
  BY AtPlace, Kinds DEF RenameTable, Basics, InTransaction, At
<1>2. PICK n : n = On(p)
  OBVIOUS
<1>3. n \in {"payments", "tests"} /\ Scratch[n] \notin Names
  BY <1>1, <1>2, RebuildSteps DEF On
<1>4. Scratch[n] \notin DOMAIN tables
  BY <1>3 DEF Basics, TypeInv, MigrationTypeOK
<1>5. CASE n \in DOMAIN tables
  <2>1. PICK made : made = Renamed(n)
    OBVIOUS
  <2>2. Statement(p, made, "create") /\ overtaken' = (overtaken \/ tables[n].shape = "new")
    BY <1>2, <1>4, <1>5, <2>1 DEF RenameTable, Renamed
  <2>3. draft' = made /\ UNCHANGED <<tables, index, deadEnds>>
    BY <2>2 DEF Statement, Executed
  <2>4. made = DraftOf(On(p), "create", process[p].k)
    BY <1>2, <2>1 DEF DraftOf
  <2>5. overtaken' \in BOOLEAN
    BY <2>2 DEF Basics, TypeInv, MigrationTypeOK
  <2>6. Basics' /\ Moved(p, Working("create", process[p].at, process[p].k))
    BY <1>1, <1>2, <1>5, <2>2, <2>3, <2>4, <2>5, StatementBasics
  <2> QED
    BY <1>2, <1>5, <2>2, <2>3, <2>6
<1>6. CASE n \notin DOMAIN tables
  <2>1. Fails(p)
    BY <1>2, <1>6 DEF RenameTable
  <2> QED
    BY <1>1, <1>2, <1>6, <2>1, FailBasics DEF Fails
<1> QED
  BY <1>5, <1>6

LEMMA CommitBasics ==
    ASSUME Basics, NEW p \in Processes, Commit(p), UNCHANGED <<consent, stops, owed, alone>>
    PROVE  /\ Basics' /\ Moved(p, Following(process[p].at)) /\ UNCHANGED <<index, overtaken, deadEnds>>
           /\ On(p) \in DOMAIN tables /\ DOMAIN tables' = DOMAIN tables
           /\ tables'[On(p)] = Filled(On(p), process[p].k)
           /\ \A m \in DOMAIN tables : m # On(p) => tables'[m] = tables[m]
<1>1. process[p] \in Task /\ process[p].stage = "commit" /\ "commit" \in InTransaction
      /\ writer \in {p, NoProcess} /\ process[p].at \in {8, 9}
  BY AtPlace, Kinds DEF Commit, Basics, InTransaction, At
<1>2. PICK n, k : n = On(p) /\ k = process[p].k
  OBVIOUS
<1>3. n \in DOMAIN tables /\ draft = Put(Without(tables, n), n, Filled(n, k)) /\ writer = p
  BY <1>1, <1>2, DraftSeen DEF DraftOf
<1>4. tables' = draft /\ writer' = NoProcess /\ Advance(p) /\ UNCHANGED <<index, overtaken, deadEnds>>
  BY DEF Commit
<1>5. /\ DOMAIN tables' = DOMAIN tables /\ tables'[n] = Filled(n, k)
      /\ \A m \in DOMAIN tables : m # n => tables'[m] = tables[m]
  BY <1>3, <1>4 DEF Put, Without
<1>6. PICK s : s = Following(process[p].at)
  OBVIOUS
<1>7. s \in States /\ s.stage \in {"look", "serving"} /\ s # Down
  BY <1>1, <1>6, FollowingState
<1>8. Moved(p, s)
  BY <1>1, <1>4, <1>6, <1>7, Moves DEF Moved, Basics
<1>9. /\ process' \in [Processes -> {Down, Serving} \cup Task] /\ process'[p] = s
      /\ \A q \in Processes : q # p => process'[q] = process[q]
  BY <1>8, MovedProcess DEF Basics
<1>10. TypeInv'
  <2>1. DOMAIN tables' \subseteq Names /\ \A m \in DOMAIN tables' : tables'[m] \in Table(m)
    BY <1>3, <1>5, FilledTyped DEF Basics, TypeInv, MigrationTypeOK
  <2> QED
    BY <1>4, <1>9, <2>1 DEF Basics, TypeInv, MigrationTypeOK
<1>11. \A q \in Processes : process'[q].stage \notin InTransaction
  BY <1>3, <1>7, <1>9, MigrationAssumption DEF Basics, DraftInv, InTransaction
<1>12. DraftInv'
  BY <1>4, <1>11, MigrationAssumption DEF DraftInv
<1>13. \A q \in Processes : process'[q].stage = "drop" => consent'
  BY <1>7, <1>9 DEF Basics
<1>14. \A r \in alone', q \in Processes : Migrating(q)' => q = r
  BY <1>1, <1>8, OthersIdle
<1> QED
  BY <1>2, <1>3, <1>4, <1>5, <1>6, <1>8, <1>10, <1>12, <1>13, <1>14 DEF Basics

LEMMA FourTables == Cardinality(Names) = 4
<1>1. IsFiniteSet({}) /\ Cardinality({}) = 0
  BY FS_EmptySet
<1>2. IsFiniteSet({} \cup {"users"}) /\ Cardinality({} \cup {"users"}) = 1
  BY <1>1, FS_AddElement
<1>3. IsFiniteSet({"users"} \cup {"receipts"}) /\ Cardinality({"users"} \cup {"receipts"}) = 2
  <2>1. {} \cup {"users"} = {"users"} /\ "receipts" \notin {"users"}
    OBVIOUS
  <2> QED
    BY <1>2, <2>1, FS_AddElement
<1>4. IsFiniteSet({"users", "receipts"} \cup {"payments"}) /\ Cardinality({"users", "receipts"} \cup {"payments"}) = 3
  <2>1. {"users"} \cup {"receipts"} = {"users", "receipts"} /\ "payments" \notin {"users", "receipts"}
    OBVIOUS
  <2> QED
    BY <1>3, <2>1, FS_AddElement
<1>5. Cardinality({"users", "receipts", "payments"} \cup {"tests"}) = 4
  <2>1. {"users", "receipts"} \cup {"payments"} = {"users", "receipts", "payments"}
        /\ "tests" \notin {"users", "receipts", "payments"}
    OBVIOUS
  <2> QED
    BY <1>4, <2>1, FS_AddElement
<1>6. {"users", "receipts", "payments"} \cup {"tests"} = Names
  BY DEF Names
<1> QED
  BY <1>5, <1>6

LEMMA GuardBasics ==
    ASSUME Basics, NEW p \in Processes, Guard(p), UNCHANGED <<consent, stops, owed, alone>>
    PROVE  /\ Basics' /\ UNCHANGED <<tables, index, overtaken, deadEnds>>
           /\ \/ /\ Moved(p, Following(1))
                 /\ ~("users" \in DOMAIN tables /\ tables["users"].ids = "integer")
              \/ /\ Moved(p, Working("drop", 1, 1))
                 /\ "users" \in DOMAIN tables /\ tables["users"].ids = "integer"
              \/ Moved(p, Down)
<1>1. /\ process[p] \in Task /\ process[p].stage = "look" /\ writer \in {p, NoProcess}
      /\ process[p].at = 1 /\ process[p].stage \notin InTransaction
  BY AtPlace, StepsByKind DEF Guard, Basics, InTransaction, At
<1>2. PICK s \in {Following(1), Working("drop", 1, 1), Down} :
        /\ process' = [process EXCEPT ![p] = s]
        /\ s = Following(1) => ~("users" \in DOMAIN tables /\ tables["users"].ids = "integer")
        /\ s = Working("drop", 1, 1) => "users" \in DOMAIN tables /\ tables["users"].ids = "integer" /\ consent
  <2>1. Following(1) # Working("drop", 1, 1) /\ Following(1) # Down
    BY FollowingState DEF Working
  <2>2. Down # Working("drop", 1, 1)
    BY DEF Down, Working
  <2> QED
    BY <1>1, <2>1, <2>2, Moves DEF Guard, Basics
<1>3. s \in States /\ s.stage \notin InTransaction
  BY FollowingState, Tasks DEF States, InTransaction, Working, Down
<1>4. s.stage = "drop" => consent
  BY <1>2, FollowingState DEF Down
<1>5. UNCHANGED <<tables, index, writer, draft, overtaken, deadEnds>>
  BY DEF Guard, file
<1>6. Moved(p, s)
  BY <1>2, <1>3 DEF Moved
<1>7. TablesTyped' /\ index' \in BOOLEAN /\ overtaken' \in BOOLEAN /\ deadEnds' \subseteq DOMAIN Migrate
  BY <1>5 DEF Basics, TypeInv, MigrationTypeOK, TablesTyped
<1>8. Basics'
  BY <1>1, <1>3, <1>4, <1>5, <1>6, <1>7, QuietBasics
<1> QED
  BY <1>2, <1>5, <1>6, <1>8

LEMMA DropBasics ==
    ASSUME Basics, NEW p \in Processes, DropTable(p), UNCHANGED <<consent, stops, owed, alone>>,
           NEW k, k = process[p].k, NEW n, n = DropOrder(k)
    PROVE  /\ Basics' /\ UNCHANGED deadEnds /\ consent
           /\ process[p].stage = "drop" /\ process[p].at = 1 /\ k \in 1..4
           /\ DOMAIN tables' = DOMAIN tables \ {n}
           /\ \A m \in DOMAIN tables' : tables'[m] = tables[m]
           /\ n \notin DOMAIN tables => \A m \in DOMAIN tables : tables'[m] = tables[m]
           /\ index' = (index /\ n # "receipts")
           /\ overtaken' = (overtaken \/ (n \in DOMAIN tables /\ tables[n].ids = "text"))
           /\ k = 4 => Moved(p, Following(1))
           /\ k # 4 => Moved(p, Working("drop", 1, k + 1))
<1>1. /\ process[p] \in Task /\ process[p].stage = "drop" /\ writer \in {p, NoProcess}
      /\ process[p].stage \notin InTransaction
  BY AtPlace DEF DropTable, Basics, InTransaction, At
<1>2. process[p].at = 1 /\ k \in 1..4
  BY <1>1, Kinds
<1>3. PICK s \in States : /\ process' = [process EXCEPT ![p] = s]
                          /\ k = 4 => s = Following(1)
                          /\ k # 4 => s = Working("drop", 1, k + 1)
  <2>1. k = 4 => Advance(p)
    BY FourTables DEF DropTable
  <2>2. k # 4 => Go(p, "drop", k + 1)
    BY FourTables DEF DropTable
  <2>3. k # 4 => Working("drop", 1, k + 1) \in States
    BY <1>2, Tasks DEF States
  <2> QED
    BY <1>1, <1>2, <2>1, <2>2, <2>3, Moves, FollowingState DEF Basics
<1>4. s.stage \notin InTransaction
  BY <1>3, FollowingState DEF InTransaction, Working
<1>5. consent
  BY <1>1 DEF Basics
<1>6. /\ tables' = Without(tables, n) /\ UNCHANGED <<writer, draft, deadEnds>>
      /\ index' = (index /\ n # "receipts")
      /\ overtaken' = (overtaken \/ (n \in DOMAIN tables /\ tables[n].ids = "text"))
  BY DEF DropTable
<1>7. DOMAIN tables' = DOMAIN tables \ {n} /\ \A m \in DOMAIN tables' : tables'[m] = tables[m]
  BY <1>6 DEF Without
<1>8. Moved(p, s)
  BY <1>3 DEF Moved
<1>9. TablesTyped' /\ index' \in BOOLEAN /\ overtaken' \in BOOLEAN /\ deadEnds' \subseteq DOMAIN Migrate
  BY <1>6, <1>7 DEF Basics, TypeInv, MigrationTypeOK, TablesTyped
<1>10. Basics'
  BY <1>1, <1>4, <1>5, <1>6, <1>8, <1>9, QuietBasics
<1> QED
  BY <1>1, <1>2, <1>3, <1>5, <1>6, <1>7, <1>8, <1>10

LEMMA CreateBasics ==
    ASSUME Basics, NEW p \in Processes, CreateTable(p), UNCHANGED <<consent, stops, owed, alone>>,
           NEW k, k = process[p].k, NEW n, n = CreateOrder(k)
    PROVE  /\ Basics' /\ UNCHANGED <<index, overtaken, deadEnds>>
           /\ process[p].stage = "look" /\ process[p].at = 2 /\ k \in 1..4 /\ n \in Names
           /\ DOMAIN tables' = DOMAIN tables \cup {n}
           /\ \A m \in DOMAIN tables : tables'[m] = tables[m]
           /\ n \notin DOMAIN tables => tables'[n] = NewTable(n)
           /\ k = 4 => Moved(p, Following(2))
           /\ k # 4 => Moved(p, Working("look", 2, k + 1))
<1>1. /\ process[p] \in Task /\ process[p].stage = "look" /\ writer \in {p, NoProcess}
      /\ process[p].at = 2 /\ process[p].stage \notin InTransaction
  BY AtPlace, StepsByKind DEF CreateTable, Basics, InTransaction, At
<1>2. k \in 1..4 /\ n \in Names
  <2>1. k \in {1, 2, 3, 4}
    BY <1>1, Kinds
  <2> QED
    BY <2>1 DEF CreateOrder, Names
<1>3. PICK s \in States : /\ process' = [process EXCEPT ![p] = s]
                          /\ k = 4 => s = Following(2)
                          /\ k # 4 => s = Working("look", 2, k + 1)
  <2>1. k = 4 => Advance(p)
    BY FourTables DEF CreateTable
  <2>2. k # 4 => Go(p, "look", k + 1)
    BY FourTables DEF CreateTable
  <2>3. k # 4 => Working("look", 2, k + 1) \in States
    BY <1>2, Tasks DEF States
  <2> QED
    BY <1>1, <1>2, <2>1, <2>2, <2>3, Moves, FollowingState DEF Basics
<1>4. s.stage \notin InTransaction /\ s.stage # "drop"
  BY <1>3, FollowingState DEF InTransaction, Working
<1>5. /\ tables' = (IF n \in DOMAIN tables THEN tables ELSE Put(tables, n, NewTable(n)))
      /\ UNCHANGED <<index, writer, draft, overtaken, deadEnds>>
  BY DEF CreateTable, CreateOrder
<1>6. /\ DOMAIN tables' = DOMAIN tables \cup {n} /\ \A m \in DOMAIN tables : tables'[m] = tables[m]
      /\ n \notin DOMAIN tables => tables'[n] = NewTable(n)
  BY <1>5 DEF Put
<1>7. Moved(p, s)
  BY <1>3 DEF Moved
<1>8. NewTable(n) \in Table(n)
  BY <1>2 DEF NewTable, Table
<1>9. TablesTyped' /\ index' \in BOOLEAN /\ overtaken' \in BOOLEAN /\ deadEnds' \subseteq DOMAIN Migrate
  BY <1>2, <1>5, <1>6, <1>8 DEF Basics, TypeInv, MigrationTypeOK, TablesTyped
<1>10. Basics'
  BY <1>1, <1>4, <1>5, <1>7, <1>9, QuietBasics
<1> QED
  BY <1>1, <1>2, <1>3, <1>5, <1>6, <1>7, <1>10

\* A look at the tables that changes nothing but where the process is.
LEMMA LookBasics ==
    ASSUME Basics, NEW p \in Processes, process[p] \in Task, process[p].stage \notin InTransaction,
           writer \in {p, NoProcess}, NEW s \in States, process' = [process EXCEPT ![p] = s],
           s.stage \notin InTransaction, s.stage # "drop", index' \in BOOLEAN,
           UNCHANGED <<tables, writer, draft, overtaken, deadEnds, consent, stops, owed, alone>>
    PROVE  Basics' /\ Moved(p, s)
<1>1. Moved(p, s)
  BY DEF Moved
<1>2. TablesTyped' /\ overtaken' \in BOOLEAN /\ deadEnds' \subseteq DOMAIN Migrate
  BY DEF Basics, TypeInv, MigrationTypeOK, TablesTyped
<1> QED
  BY <1>1, <1>2, QuietBasics

LEMMA LookForColumnBasics ==
    ASSUME Basics, NEW p \in Processes, LookForColumn(p), UNCHANGED <<consent, stops, owed, alone>>,
           NEW i, i = process[p].at
    PROVE  /\ Basics' /\ UNCHANGED <<tables, index, overtaken, deadEnds>> /\ i \in 3..7
           /\ \/ Moved(p, Following(i)) /\ HasColumn(Migrate[i].on, Migrate[i].column)
              \/ Moved(p, Working("act", i, 1)) /\ ~HasColumn(Migrate[i].on, Migrate[i].column)
<1>1. /\ process[p] \in Task /\ process[p].stage = "look" /\ writer \in {p, NoProcess}
      /\ i \in 3..7 /\ process[p].stage \notin InTransaction
  BY AtPlace, StepsByKind DEF LookForColumn, Basics, InTransaction, At
<1>2. UNCHANGED <<tables, index, writer, draft, overtaken, deadEnds>> /\ index' \in BOOLEAN
  BY DEF LookForColumn, file, Basics, TypeInv, MigrationTypeOK
<1>3. CASE HasColumn(Migrate[i].on, Migrate[i].column)
  <2>1. process' = [process EXCEPT ![p] = Following(i)]
    BY <1>1, <1>3, Moves DEF LookForColumn, On, Basics
  <2>2. Following(i) \in States /\ Following(i).stage \notin InTransaction /\ Following(i).stage # "drop"
    BY <1>1, FollowingState DEF InTransaction
  <2> QED
    BY <1>1, <1>2, <1>3, <2>1, <2>2, LookBasics
<1>4. CASE ~HasColumn(Migrate[i].on, Migrate[i].column)
  <2>1. process' = [process EXCEPT ![p] = Working("act", i, 1)]
    BY <1>1, <1>4, Moves DEF LookForColumn, On, Basics
  <2>2. Working("act", i, 1) \in States
    BY <1>1, Tasks DEF States
  <2>3. Working("act", i, 1).stage \notin InTransaction /\ Working("act", i, 1).stage # "drop"
    BY DEF InTransaction, Working
  <2> QED
    BY <1>1, <1>2, <1>4, <2>1, <2>2, <2>3, LookBasics
<1> QED
  BY <1>3, <1>4

\* The column is there, and the step is over.
Added(p, i, n, column) ==
    /\ Moved(p, Following(i)) /\ UNCHANGED <<index, overtaken, deadEnds>>
    /\ n \in DOMAIN tables /\ DOMAIN tables' = DOMAIN tables
    /\ tables'[n] = [tables[n] EXCEPT !.columns = @ \cup {column}]
    /\ \A m \in DOMAIN tables : m # n => tables'[m] = tables[m]

LEMMA AddColumnBasics ==
    ASSUME Basics, NEW p \in Processes, AddColumn(p), UNCHANGED <<consent, stops, owed, alone>>,
           NEW i, i = process[p].at, NEW n, n = Migrate[i].on, NEW column, column = Migrate[i].column
    PROVE  /\ Basics' /\ i \in 3..7 /\ process[p].stage = "act"
           /\ \/ Added(p, i, n, column)
              \/ Fails(p) /\ (n \notin DOMAIN tables \/ HasColumn(n, column))
<1>1. /\ process[p] \in Task /\ process[p].stage = "act" /\ writer \in {p, NoProcess}
      /\ i \in 3..7 /\ process[p].stage \notin InTransaction
  BY AtPlace, StepsByKind DEF AddColumn, Basics, InTransaction, At
<1>2. n \in {"users", "payments", "receipts"} /\ column \in Columns[n]
  BY <1>1, ColumnSteps
<1>3. CASE n \in DOMAIN tables /\ ~HasColumn(n, column)
  <2>1. /\ tables' = [tables EXCEPT ![n].columns = @ \cup {column}] /\ Advance(p)
        /\ UNCHANGED <<index, writer, draft, overtaken, deadEnds>>
    BY <1>3 DEF AddColumn, On
  <2>2. process' = [process EXCEPT ![p] = Following(i)]
    BY <1>1, <2>1, Moves DEF Basics
  <2>3. Following(i) \in States /\ Following(i).stage \notin InTransaction /\ Following(i).stage # "drop"
    BY <1>1, FollowingState DEF InTransaction
  <2>4. /\ DOMAIN tables' = DOMAIN tables
        /\ tables'[n] = [tables[n] EXCEPT !.columns = @ \cup {column}]
        /\ \A m \in DOMAIN tables : m # n => tables'[m] = tables[m]
    BY <1>3, <2>1
  <2>5. tables'[n] \in Table(n)
    <3>1. PICK t : t = tables[n]
      OBVIOUS
    <3>2. t \in Table(n)
      BY <1>3, <3>1 DEF Basics, TypeInv, MigrationTypeOK
    <3>3. t.columns \cup {column} \subseteq Columns[n]
      BY <1>2, <3>2 DEF Table
    <3>4. [t EXCEPT !.columns = t.columns \cup {column}] \in Table(n)
      BY <3>2, <3>3 DEF Table
    <3> QED
      BY <2>4, <3>1, <3>4
  <2>6. TablesTyped'
    BY <2>4, <2>5 DEF Basics, TypeInv, MigrationTypeOK, TablesTyped
  <2>7. Moved(p, Following(i))
    BY <2>2, <2>3 DEF Moved
  <2>8. index' \in BOOLEAN /\ overtaken' \in BOOLEAN /\ deadEnds' \subseteq DOMAIN Migrate
    BY <2>1 DEF Basics, TypeInv, MigrationTypeOK
  <2>9. Basics'
    BY <1>1, <2>1, <2>3, <2>6, <2>7, <2>8, QuietBasics
  <2> QED
    BY <1>1, <1>3, <2>1, <2>4, <2>7, <2>9 DEF Added
<1>4. CASE ~(n \in DOMAIN tables /\ ~HasColumn(n, column))
  <2>1. Fails(p)
    BY <1>4 DEF AddColumn, On
  <2> QED
    BY <1>1, <1>4, <2>1, FailBasics
<1> QED
  BY <1>3, <1>4

LEMMA LookAtShapeBasics ==
    ASSUME Basics, NEW p \in Processes, LookAtShape(p), UNCHANGED <<consent, stops, owed, alone>>,
           NEW i, i = process[p].at, NEW n, n = Migrate[i].on,
           NEW k, k = (IF HasColumn(n, "lesson_id") THEN 1 ELSE 0)
    PROVE  /\ Basics' /\ UNCHANGED <<tables, index, overtaken, deadEnds>> /\ i \in {8, 9}
           /\ \/ Moved(p, Following(i)) /\ ~(n \in DOMAIN tables /\ tables[n].shape = "old")
              \/ Moved(p, Working("rename", i, k)) /\ n \in DOMAIN tables /\ tables[n].shape = "old"
<1>1. /\ process[p] \in Task /\ process[p].stage = "look" /\ writer \in {p, NoProcess}
      /\ i \in {8, 9} /\ process[p].stage \notin InTransaction
  BY AtPlace, StepsByKind DEF LookAtShape, Basics, InTransaction, At
<1>2. UNCHANGED <<tables, index, writer, draft, overtaken, deadEnds>> /\ index' \in BOOLEAN
  BY DEF LookAtShape, file, Basics, TypeInv, MigrationTypeOK
<1>3. CASE ~(n \in DOMAIN tables /\ tables[n].shape = "old")
  <2>1. process' = [process EXCEPT ![p] = Following(i)]
    BY <1>1, <1>3, Moves DEF LookAtShape, On, Basics
  <2>2. Following(i) \in States /\ Following(i).stage \notin InTransaction /\ Following(i).stage # "drop"
    BY <1>1, FollowingState DEF InTransaction
  <2> QED
    BY <1>1, <1>2, <1>3, <2>1, <2>2, LookBasics
<1>4. CASE n \in DOMAIN tables /\ tables[n].shape = "old"
  <2>1. process' = [process EXCEPT ![p] = Working("rename", i, k)]
    BY <1>1, <1>4, Moves DEF LookAtShape, On, Basics
  <2>2. Working("rename", i, k) \in States
    BY <1>1, Tasks DEF States
  <2>3. Working("rename", i, k).stage \notin InTransaction /\ Working("rename", i, k).stage # "drop"
    BY DEF InTransaction, Working
  <2> QED
    BY <1>1, <1>2, <1>4, <2>1, <2>2, <2>3, LookBasics
<1> QED
  BY <1>3, <1>4

\* What the index looks for.
Indexable ==
    /\ HasColumn("receipts", "receipt_transaction_key") /\ HasColumn("tests", "lesson_id")
    /\ "payments" \in DOMAIN tables /\ Columns["payments"] \subseteq tables["payments"].columns

LEMMA LookForDuplicatesBasics ==
    ASSUME Basics, NEW p \in Processes, LookForDuplicates(p), UNCHANGED <<consent, stops, owed, alone>>
    PROVE  /\ Basics' /\ process[p].stage = "look" /\ process[p].at = 10
           /\ \/ /\ UNCHANGED <<tables, index, overtaken, deadEnds>>
                 /\ \/ Moved(p, Following(10)) /\ ~Distinct(RowsOf("receipts"))
                    \/ Moved(p, Working("act", 10, 1)) /\ Distinct(RowsOf("receipts"))
              \/ Fails(p) /\ ~Indexable
<1>1. /\ process[p] \in Task /\ process[p].stage = "look" /\ writer \in {p, NoProcess}
      /\ process[p].at = 10 /\ process[p].stage \notin InTransaction
  BY AtPlace, StepsByKind DEF LookForDuplicates, Basics, InTransaction, At
<1>2. CASE Indexable /\ ~Distinct(RowsOf("receipts"))
  <2>1. Advance(p) /\ UNCHANGED <<tables, index, writer, draft, overtaken, deadEnds>>
    BY <1>2 DEF LookForDuplicates, Indexable, noApprovedReceiptDuplicates, file
  <2>2. process' = [process EXCEPT ![p] = Following(10)]
    BY <1>1, <2>1, Moves DEF Basics
  <2>3. Following(10) \in States /\ Following(10).stage \notin InTransaction /\ Following(10).stage # "drop"
    BY FollowingState DEF InTransaction
  <2>4. index' \in BOOLEAN
    BY <2>1 DEF Basics, TypeInv, MigrationTypeOK
  <2> QED
    BY <1>1, <1>2, <2>1, <2>2, <2>3, <2>4, LookBasics
<1>3. CASE Indexable /\ Distinct(RowsOf("receipts"))
  <2>1. Go(p, "act", 1) /\ UNCHANGED <<tables, index, writer, draft, overtaken, deadEnds>>
    BY <1>3 DEF LookForDuplicates, Indexable, noApprovedReceiptDuplicates, file
  <2>2. process' = [process EXCEPT ![p] = Working("act", 10, 1)]
    BY <1>1, <2>1, Moves DEF Basics
  <2>3. Working("act", 10, 1) \in States
    BY Tasks DEF States
  <2>4. Working("act", 10, 1).stage \notin InTransaction /\ Working("act", 10, 1).stage # "drop"
    BY DEF InTransaction, Working
  <2>5. index' \in BOOLEAN
    BY <2>1 DEF Basics, TypeInv, MigrationTypeOK
  <2> QED
    BY <1>1, <1>3, <2>1, <2>2, <2>3, <2>4, <2>5, LookBasics
<1>4. CASE ~Indexable
  <2>1. Fails(p)
    BY <1>4 DEF LookForDuplicates, Indexable
  <2> QED
    BY <1>1, <1>4, <2>1, FailBasics
<1> QED
  BY <1>2, <1>3, <1>4

LEMMA CreateIndexBasics ==
    ASSUME Basics, NEW p \in Processes, CreateIndex(p), UNCHANGED <<consent, stops, owed, alone>>
    PROVE  /\ Basics' /\ process[p].stage = "act" /\ process[p].at = 10
           /\ \/ Moved(p, Following(10)) /\ index' /\ UNCHANGED <<tables, overtaken, deadEnds>>
              \/ Fails(p) /\ ("receipts" \notin DOMAIN tables \/ ~Distinct(RowsOf("receipts")))
<1>1. /\ process[p] \in Task /\ process[p].stage = "act" /\ writer \in {p, NoProcess}
      /\ process[p].at = 10 /\ process[p].stage \notin InTransaction
  BY AtPlace, StepsByKind DEF CreateIndex, Basics, InTransaction, At
<1>2. CASE "receipts" \in DOMAIN tables /\ Distinct(RowsOf("receipts"))
  <2>1. index' = TRUE /\ Advance(p) /\ UNCHANGED <<tables, writer, draft, overtaken, deadEnds>>
    BY <1>2 DEF CreateIndex
  <2>2. process' = [process EXCEPT ![p] = Following(10)]
    BY <1>1, <2>1, Moves DEF Basics
  <2>3. Following(10) \in States /\ Following(10).stage \notin InTransaction /\ Following(10).stage # "drop"
    BY FollowingState DEF InTransaction
  <2> QED
    BY <1>1, <2>1, <2>2, <2>3, LookBasics
<1>3. CASE ~("receipts" \in DOMAIN tables /\ Distinct(RowsOf("receipts")))
  <2>1. Fails(p)
    BY <1>3 DEF CreateIndex
  <2> QED
    BY <1>1, <1>3, <2>1, FailBasics
<1> QED
  BY <1>2, <1>3

LEMMA SeedBasics ==
    ASSUME Basics, NEW p \in Processes, Seed(p), UNCHANGED <<consent, stops, owed, alone>>
    PROVE  /\ Basics' /\ process[p].stage = "look" /\ process[p].at = 11
           /\ Moved(p, Following(11)) /\ UNCHANGED <<tables, index, overtaken, deadEnds>>
<1>1. /\ process[p] \in Task /\ process[p].stage = "look" /\ writer \in {p, NoProcess}
      /\ process[p].at = 11 /\ process[p].stage \notin InTransaction
  BY AtPlace, StepsByKind DEF Seed, Basics, InTransaction, At
<1>2. Advance(p) /\ UNCHANGED <<tables, index, writer, draft, overtaken, deadEnds>>
  BY DEF Seed, file
<1>3. process' = [process EXCEPT ![p] = Following(11)]
  BY <1>1, <1>2, Moves DEF Basics
<1>4. Following(11) \in States /\ Following(11).stage \notin InTransaction /\ Following(11).stage # "drop"
  BY FollowingState DEF InTransaction
<1>5. index' \in BOOLEAN
  BY <1>2 DEF Basics, TypeInv, MigrationTypeOK
<1> QED
  BY <1>1, <1>2, <1>3, <1>4, <1>5, LookBasics

\* Who stays where it is, while the tables stay, stays in the same transaction.
LEMMA SameDraft ==
    ASSUME Basics, NEW q \in Processes, process'[q] = process[q], UNCHANGED tables
    PROVE  /\ process[q].stage \in InTransaction <=> writer = q
           /\ writer = q => /\ On(q)' \in DOMAIN tables'
                            /\ draft = DraftOf(On(q), process[q].stage, process[q].k)'
<1>1. PICK n, stage, k : n = On(q) /\ stage = process[q].stage /\ k = process[q].k
  OBVIOUS
<1>2. On(q)' = n
  BY <1>1 DEF On
<1>3. DraftOf(n, stage, k)' = DraftOf(n, stage, k)
  BY DEF DraftOf, Renamed, Filled, FilledRows
<1>4. DraftOf(On(q), process[q].stage, process[q].k)' = DraftOf(n, stage, k)'
  BY <1>1, <1>2 DEF DraftOf, Renamed, Filled, FilledRows
<1>5. /\ stage \in InTransaction <=> writer = q
      /\ writer = q => n \in DOMAIN tables /\ draft = DraftOf(n, stage, k)
  BY <1>1 DEF Basics, DraftInv
<1> QED
  BY <1>1, <1>2, <1>3, <1>4, <1>5

LEMMA StartBasics ==
    ASSUME Basics, NEW p \in Processes, Start(p)
    PROVE  /\ Basics' /\ Moved(p, Working("look", 1, 1))
           /\ UNCHANGED <<tables, index, consent, owed, overtaken, deadEnds>> /\ alone' \subseteq {p}
<1>1. /\ process[p] = Down /\ process' = [process EXCEPT ![p] = Working("look", 1, 1)]
      /\ UNCHANGED <<tables, index, writer, draft, consent, stops, owed, overtaken, deadEnds>>
      /\ alone' \subseteq {p} /\ \A r \in alone', q \in Processes \ {p} : ~Migrating(q)
  BY DEF Start, file
<1>2. Working("look", 1, 1) \in States
  BY Tasks DEF States
<1>3. Working("look", 1, 1).stage \notin InTransaction /\ Working("look", 1, 1).stage # "drop"
      /\ process[p].stage \notin InTransaction
  BY <1>1 DEF Working, InTransaction, Down
<1>4. Moved(p, Working("look", 1, 1))
  BY <1>1, <1>2 DEF Moved
<1>5. /\ process' \in [Processes -> {Down, Serving} \cup Task] /\ process'[p] = Working("look", 1, 1)
      /\ \A q \in Processes : q # p => process'[q] = process[q]
  BY <1>4, MovedProcess DEF Basics
<1>6. TypeInv'
  BY <1>1, <1>5 DEF Basics, TypeInv, MigrationTypeOK
<1>7. \A q \in Processes : writer' = q => q # p
  BY <1>1, <1>3 DEF Basics, DraftInv
<1>8. DraftInv'
  <2> SUFFICES ASSUME NEW q \in Processes
               PROVE  /\ process'[q].stage \in InTransaction <=> writer' = q
                      /\ writer' = q => /\ On(q)' \in DOMAIN tables'
                                        /\ draft' = DraftOf(On(q), process[q].stage, process[q].k)'
    BY DEF DraftInv
  <2>1. CASE q = p
    BY <1>3, <1>5, <1>7, <2>1
  <2>2. CASE q # p
    <3>1. process'[q] = process[q]
      BY <1>5, <2>2
    <3> QED
      BY <1>1, <3>1, SameDraft
  <2> QED
    BY <2>1, <2>2
<1>9. \A q \in Processes : process'[q].stage = "drop" => consent'
  BY <1>1, <1>3, <1>5 DEF Basics
<1>10. \A r \in alone', q \in Processes : Migrating(q)' => q = r
  BY <1>1, <1>5 DEF Migrating
<1> QED
  BY <1>1, <1>4, <1>6, <1>8, <1>9, <1>10 DEF Basics

LEMMA StopBasics ==
    ASSUME Basics, NEW p \in Processes, Stop(p)
    PROVE  /\ Basics' /\ Moved(p, Down)
           /\ UNCHANGED <<tables, index, consent, owed, overtaken, alone, deadEnds>>
<1>1. /\ process' = [process EXCEPT ![p] = Down] /\ stops < MaxStops /\ stops' = stops + 1
      /\ writer' = (IF writer = p THEN NoProcess ELSE writer)
      /\ draft' = (IF writer = p THEN <<>> ELSE draft)
      /\ UNCHANGED <<tables, index, consent, owed, overtaken, alone, deadEnds>>
  BY DEF Stop, ghosts
<1>2. Down \in States /\ Down.stage \notin InTransaction /\ Down.stage # "drop"
  BY DEF Down, States, InTransaction
<1>3. Moved(p, Down)
  BY <1>1, <1>2 DEF Moved
<1>4. /\ process' \in [Processes -> {Down, Serving} \cup Task] /\ process'[p] = Down
      /\ \A q \in Processes : q # p => process'[q] = process[q]
  BY <1>3, MovedProcess DEF Basics
<1>5. TypeInv'
  BY <1>1, <1>4, MigrationAssumption DEF Basics, TypeInv, MigrationTypeOK
<1>6. DraftInv'
  <2> SUFFICES ASSUME NEW q \in Processes
               PROVE  /\ process'[q].stage \in InTransaction <=> writer' = q
                      /\ writer' = q => /\ On(q)' \in DOMAIN tables'
                                        /\ draft' = DraftOf(On(q), process[q].stage, process[q].k)'
    BY DEF DraftInv
  <2>1. CASE q = p
    BY <1>1, <1>2, <1>4, <2>1, MigrationAssumption
  <2>2. CASE q # p
    <3>1. process'[q] = process[q] /\ (writer' = q <=> writer = q) /\ (writer = q => draft' = draft)
      BY <1>1, <1>4, <2>2, MigrationAssumption
    <3> QED
      BY <1>1, <3>1, SameDraft
  <2> QED
    BY <2>1, <2>2
<1>7. \A q \in Processes : process'[q].stage = "drop" => consent'
  BY <1>1, <1>2, <1>4 DEF Basics
<1>8. \A r \in alone', q \in Processes : Migrating(q)' => q = r
  <2>1. ~Migrating(p)'
    BY <1>4 DEF Migrating
  <2> QED
    BY <1>1, <1>4, <2>1 DEF Basics, Migrating
<1> QED
  BY <1>1, <1>3, <1>5, <1>6, <1>7, <1>8 DEF Basics

LEMMA WriteBasics ==
    ASSUME Basics, NEW p \in Processes, NEW n, NEW rows, Write(p, n, rows), rows \subseteq Rows[n]
    PROVE  /\ Basics' /\ process[p] = Serving /\ writer = NoProcess /\ n \in DOMAIN tables /\ n \in Names
           /\ UNCHANGED <<index, process, consent, overtaken, alone, deadEnds>>
           /\ DOMAIN tables' = DOMAIN tables
           /\ tables'[n] = [tables[n] EXCEPT !.rows = rows]
           /\ \A m \in DOMAIN tables : m # n => tables'[m] = tables[m]
           /\ owed'[n] = rows /\ \A m \in Names : m # n => owed'[m] = owed[m]
<1>1. /\ process[p] = Serving /\ writer = NoProcess /\ n \in DOMAIN tables
      /\ tables' = [tables EXCEPT ![n].rows = rows] /\ owed' = [owed EXCEPT ![n] = rows]
      /\ UNCHANGED <<index, writer, draft, process, consent, stops, overtaken, alone, deadEnds>>
  BY DEF Write
<1>2. n \in Names /\ tables[n] \in Table(n)
  BY <1>1 DEF Basics, TypeInv, MigrationTypeOK
<1>3. /\ DOMAIN tables' = DOMAIN tables /\ tables'[n] = [tables[n] EXCEPT !.rows = rows]
      /\ \A m \in DOMAIN tables : m # n => tables'[m] = tables[m]
  BY <1>1
<1>4. tables'[n] \in Table(n)
  <2>1. PICK t : t = tables[n]
    OBVIOUS
  <2>2. [t EXCEPT !.rows = rows] \in Table(n)
    BY <1>2, <2>1 DEF Table
  <2> QED
    BY <1>3, <2>1, <2>2
<1>5. DOMAIN owed' = Names /\ owed'[n] = rows /\ \A m \in Names : m # n => owed'[m] = owed[m]
  BY <1>1, <1>2 DEF Basics, TypeInv
<1>6. TypeInv'
  BY <1>1, <1>3, <1>4, <1>5 DEF Basics, TypeInv, MigrationTypeOK
<1>7. DraftInv'
  BY <1>1, MigrationAssumption DEF Basics, DraftInv
<1>8. \A q \in Processes : process'[q].stage = "drop" => consent'
  BY <1>1 DEF Basics
<1>9. \A r \in alone', q \in Processes : Migrating(q)' => q = r
  BY <1>1 DEF Basics, Migrating
<1> QED
  BY <1>1, <1>2, <1>3, <1>5, <1>6, <1>7, <1>8, <1>9 DEF Basics

-----------------------------------------------------------------------------
(***************************************************************************)
(* Order: what processes rely on stays true, whoever takes a step, as long *)
(* as nobody is overtaken.                                                 *)
(***************************************************************************)

IndexKept == index \/ ~Distinct(RowsOf("receipts"))

\* Tables only come to have more.
Grows ==
    /\ DOMAIN tables \subseteq DOMAIN tables' /\ DOMAIN tables' \subseteq Names
    /\ \A n \in DOMAIN tables :
        /\ tables'[n].ids = tables[n].ids /\ tables[n].columns \subseteq tables'[n].columns
        /\ tables[n].shape = "new" => tables'[n].shape = "new"
        /\ n = "tests" /\ tables'[n].shape = "old" => tables'[n].columns = tables[n].columns
    /\ \A n \in DOMAIN tables' \ DOMAIN tables : tables'[n].ids = "text"
    /\ "receipts" \in DOMAIN tables /\ IndexKept => IndexKept'

\* What a state of a process relies on outlives a step of another process.
Kept(s) ==
    Progressed(Reached(s)) /\ Halfway(s) /\ (s.stage \in InTransaction => UNCHANGED tables) =>
        Progressed(Reached(s))' /\ Halfway(s)'

LEMMA SameReceipts ==
    ASSUME "receipts" \in DOMAIN tables => /\ "receipts" \in DOMAIN tables'
                                           /\ tables'["receipts"].rows = tables["receipts"].rows,
           index => index'
    PROVE  "receipts" \in DOMAIN tables /\ IndexKept => IndexKept'
<1> SUFFICES ASSUME "receipts" \in DOMAIN tables, IndexKept, ~index
             PROVE  IndexKept'
  BY DEF IndexKept
<1>1. RowsOf("receipts")' = RowsOf("receipts")
  BY DEF RowsOf
<1> QED
  BY <1>1 DEF IndexKept, Distinct

LEMMA GrowthProgress ==
    ASSUME Basics, Grows, NEW i \in 0..12, Progressed(i)
    PROVE  Progressed(i)'
<1>1. i > 1 => \A n \in DOMAIN tables' : tables'[n].ids = "text"
  BY DEF Grows, Progressed
<1>2. i > 2 => DOMAIN tables' = Names
  BY DEF Grows, Progressed
<1>3. \A j \in 3..7 : i > j => HasColumn(Migrate[j].on, Migrate[j].column)'
  <2> SUFFICES ASSUME NEW j \in 3..7, i > j
               PROVE  HasColumn(Migrate[j].on, Migrate[j].column)'
    OBVIOUS
  <2>1. HasColumn(Migrate[j].on, Migrate[j].column)
    BY DEF Progressed
  <2> QED
    BY <2>1 DEF HasColumn, Grows
<1>4. i > 2 => "payments" \in DOMAIN tables /\ "tests" \in DOMAIN tables /\ "receipts" \in DOMAIN tables
  BY DEF Progressed, Names
<1>5. (i > 8 => tables'["payments"].shape = "new") /\ (i > 9 => tables'["tests"].shape = "new")
  BY <1>4 DEF Grows, Progressed
<1>6. i > 10 => IndexKept'
  BY <1>4 DEF Grows, Progressed, IndexKept
<1> QED
  BY <1>1, <1>2, <1>3, <1>5, <1>6 DEF Progressed, IndexKept

LEMMA GrowthKeeps ==
    ASSUME Basics, Grows, NEW s \in States
    PROVE  Kept(s)
<1> SUFFICES ASSUME Progressed(Reached(s)), Halfway(s), s.stage \in InTransaction => UNCHANGED tables
             PROVE  Progressed(Reached(s))' /\ Halfway(s)'
  BY DEF Kept
<1>1. Progressed(Reached(s))'
  BY StateFacts, GrowthProgress
<1>2. s.stage = "drop" => \A j \in 1..(s.k - 1) :
            DropOrder(j) \in DOMAIN tables' => tables'[DropOrder(j)].ids = "text"
  BY DEF Halfway, Grows
<1>3. s.stage = "look" /\ s.at = 2 => \A j \in 1..(s.k - 1) : CreateOrder(j) \in DOMAIN tables'
  BY DEF Halfway, Grows
<1>4. s.stage \in {"rename"} \cup InTransaction /\ s.at = 9 /\ tables'["tests"].shape = "old" =>
            (s.k = 1 <=> HasColumn("tests", "lesson_id")')
  <2> SUFFICES ASSUME s.stage \in {"rename"} \cup InTransaction, s.at = 9, tables'["tests"].shape = "old"
               PROVE  s.k = 1 <=> HasColumn("tests", "lesson_id")'
    OBVIOUS
  <2>1. s # Down /\ s # Serving
    BY DEF InTransaction, Down, Serving
  <2>2. "tests" \in DOMAIN tables
    BY <2>1 DEF Reached, Progressed, Names
  <2>3. tables["tests"].shape # "new"
    BY <2>2 DEF Grows
  <2>4. tables["tests"].shape = "old" /\ tables["tests"].columns = tables'["tests"].columns
    BY <2>2, <2>3 DEF Grows, Basics, TypeInv, MigrationTypeOK, Table
  <2>5. "tests" \in DOMAIN tables'
    BY <2>2 DEF Grows
  <2> QED
    BY <2>2, <2>4, <2>5 DEF Halfway, HasColumn
<1>5. s.stage \in InTransaction => tables'[Migrate[s.at].on].shape = "old"
  BY DEF Halfway
<1> QED
  BY <1>1, <1>2, <1>3, <1>4, <1>5 DEF Halfway

\* A step of the migration keeps order if it keeps what others rely on and
\* leaves the process in a state that it can rely on.
LEMMA StepOrderly ==
    ASSUME Basics, Orderly, NEW p \in Processes, NEW s, Moved(p, s), process[p] \in Task,
           writer \in {p, NoProcess}, UNCHANGED alone, SoundTables', Owed',
           \A r \in States : Kept(r), Progressed(Reached(s))', Halfway(s)',
           p \in alone => Undisturbed(s)'
    PROVE  Orderly'
<1>1. process'[p] = s /\ \A q \in Processes : q # p => process'[q] = process[q]
  BY MovedProcess DEF Basics
<1>2. ASSUME NEW q \in Processes
      PROVE  Progressed(Reached(process[q]))' /\ Halfway(process[q])'
  <2>1. PICK r, t : r = process[q] /\ t = process'[q]
    OBVIOUS
  <2>2. CASE q = p
    <3>1. t = s
      BY <1>1, <2>1, <2>2
    <3>2. Progressed(Reached(t))' /\ Halfway(t)'
      BY <3>1
    <3> QED
      BY <2>1, <3>2 DEF Progressed, Halfway, Reached
  <2>3. CASE q # p
    <3>1. t = r /\ r \in States
      BY <1>1, <2>1, <2>3 DEF Basics, TypeInv, States
    <3>2. r.stage \notin InTransaction
      BY <2>1, <2>3, MigrationAssumption DEF Basics, DraftInv
    <3>3. Progressed(Reached(r)) /\ Halfway(r)
      BY <2>1 DEF Orderly
    <3>4. Progressed(Reached(t))' /\ Halfway(t)'
      BY <3>1, <3>2, <3>3 DEF Kept
    <3> QED
      BY <2>1, <3>4 DEF Progressed, Halfway, Reached
  <2> QED
    BY <2>2, <2>3
<1>3. ASSUME NEW q \in alone'
      PROVE  Undisturbed(process[q])'
  <2>1. Migrating(p)
    BY StateFacts DEF Migrating, States
  <2>2. q = p /\ q \in alone
    BY <2>1 DEF Basics
  <2>3. process'[q] = s /\ Undisturbed(s)'
    BY <1>1, <2>2
  <2> QED
    BY <2>3 DEF Undisturbed
<1> QED
  BY <1>2, <1>3 DEF Orderly

\* At the start of a step a process relies on no half of it.
LEMMA FollowingRests ==
    ASSUME NEW i \in 1..11
    PROVE  /\ Halfway(Following(i)) /\ Undisturbed(Following(i))
           /\ Halfway(Following(i))' /\ Undisturbed(Following(i))'
<1>1. PICK s : s = Following(i)
  OBVIOUS
<1>2. s.stage \in {"look", "serving"}
  BY <1>1, FollowingState
<1>3. s.stage = "look" => s.k = 1
  BY <1>1 DEF Following, Serving, Working
<1>4. Halfway(s) /\ Undisturbed(s) /\ Halfway(s)' /\ Undisturbed(s)'
  BY <1>2, <1>3 DEF Halfway, Undisturbed, InTransaction
<1> QED
  BY <1>1, <1>4

\* A step that only looks, or adds the index.
LEMMA LookOrderly ==
    ASSUME Basics, Orderly, NEW p \in Processes, NEW s, Moved(p, s), process[p] \in Task,
           writer \in {p, NoProcess}, UNCHANGED <<tables, owed, consent, overtaken, alone>>,
           index => index', Progressed(Reached(s))', Halfway(s)', p \in alone => Undisturbed(s)'
    PROVE  Orderly'
<1>1. Grows
  BY DEF Grows, Basics, TypeInv, MigrationTypeOK, IndexKept, Distinct, RowsOf
<1>2. \A r \in States : Kept(r)
  BY <1>1, GrowthKeeps
<1>3. SoundTables' /\ Owed'
  BY DEF Orderly, SoundTables, OneKindOfIds, Owed, DataSurvives, RowsOf
<1> QED
  BY <1>2, <1>3, StepOrderly

\* A step that has something to look at and goes on with the list.
LEMMA AdvanceOrderly ==
    ASSUME Basics, Orderly, NEW p \in Processes, process[p] \in Task,
           NEW i \in 1..11, Moved(p, Following(i)),
           writer \in {p, NoProcess}, UNCHANGED <<tables, owed, consent, overtaken, alone>>,
           index => index', Progressed(i + 1)'
    PROVE  Orderly'
<1>1. PICK s : s = Following(i)
  OBVIOUS
<1>2. Reached(s) = i + 1
  BY <1>1, FollowingState
<1>3. Halfway(s)' /\ Undisturbed(s)'
  BY <1>1, FollowingRests
<1>4. Progressed(Reached(s))'
  BY <1>2
<1> QED
  BY <1>1, <1>3, <1>4, LookOrderly

LEMMA FailOrderly ==
    ASSUME Basics, Orderly, NEW p \in Processes, process[p] \in Task, Fails(p),
           writer \in {p, NoProcess}, UNCHANGED <<consent, stops, owed, alone>>
    PROVE  Orderly'
<1>1. Moved(p, Down) /\ UNCHANGED <<tables, index, overtaken>>
  BY FailBasics DEF Fails
<1>2. Progressed(Reached(Down))' /\ Halfway(Down)' /\ Undisturbed(Down)'
  BY DEF Reached, Progressed, Halfway, Undisturbed, Down, InTransaction
<1> QED
  BY <1>1, <1>2, LookOrderly

\* What a process has achieved when its step ends.
LEMMA Achieved ==
    ASSUME NEW i \in 1..11, Progressed(i)',
           i = 1 => \A n \in DOMAIN tables' : tables'[n].ids = "text",
           i = 2 => DOMAIN tables' = Names,
           i \in 3..7 => HasColumn(Migrate[i].on, Migrate[i].column)',
           i = 8 => tables'["payments"].shape = "new", i = 9 => tables'["tests"].shape = "new",
           i = 10 => IndexKept'
    PROVE  Progressed(i + 1)'
<1>1. i + 1 > 1 => \A n \in DOMAIN tables' : tables'[n].ids = "text"
  BY DEF Progressed
<1>2. i + 1 > 2 => DOMAIN tables' = Names
  BY DEF Progressed
<1>3. \A j \in 3..7 : i + 1 > j => HasColumn(Migrate[j].on, Migrate[j].column)'
  <2> SUFFICES ASSUME NEW j \in 3..7, i + 1 > j
               PROVE  HasColumn(Migrate[j].on, Migrate[j].column)'
    OBVIOUS
  <2>1. CASE i = j
    BY <2>1
  <2>2. CASE i > j
    BY <2>2 DEF Progressed
  <2> QED
    BY <2>1, <2>2
<1>4. /\ i + 1 > 8 => tables'["payments"].shape = "new"
      /\ i + 1 > 9 => tables'["tests"].shape = "new"
      /\ i + 1 > 10 => IndexKept'
  BY DEF Progressed, IndexKept
<1> QED
  BY <1>1, <1>2, <1>3, <1>4 DEF Progressed, IndexKept

LEMMA SameProgress ==
    ASSUME UNCHANGED tables, index => index', NEW i, Progressed(i)
    PROVE  Progressed(i)'
BY DEF Progressed, HasColumn, Distinct, RowsOf

LEMMA GuardOrderly ==
    ASSUME Basics, Orderly, NEW p \in Processes, Guard(p), UNCHANGED <<consent, stops, owed, alone>>
    PROVE  Orderly'
<1>1. process[p] \in Task /\ process[p].at = 1 /\ writer \in {p, NoProcess}
  BY AtPlace, StepsByKind DEF Guard, Basics, At
<1>2. UNCHANGED <<tables, index, overtaken>>
  BY GuardBasics
<1>3. CASE /\ Moved(p, Following(1))
           /\ ~("users" \in DOMAIN tables /\ tables["users"].ids = "integer")
  <2>1. \A n \in DOMAIN tables' : tables'[n].ids = "text"
    BY <1>2, <1>3 DEF Orderly, SoundTables, OneKindOfIds
  <2>2. Progressed(1)'
    BY DEF Progressed
  <2>3. Progressed(1 + 1)'
    BY <2>1, <2>2, Achieved
  <2> QED
    BY <1>1, <1>2, <1>3, <2>3, AdvanceOrderly
<1>4. CASE /\ Moved(p, Working("drop", 1, 1))
           /\ "users" \in DOMAIN tables /\ tables["users"].ids = "integer"
  <2>1. PICK s : s = Working("drop", 1, 1)
    OBVIOUS
  <2>2. s.stage = "drop" /\ s.at = 1 /\ s.k = 1 /\ s # Down /\ s # Serving
    BY <2>1 DEF Working, Down, Serving
  <2>3. Progressed(Reached(s))' /\ Halfway(s)' /\ Undisturbed(s)'
    BY <1>2, <1>4, <2>2 DEF Reached, Progressed, Halfway, Undisturbed, InTransaction
  <2> QED
    BY <1>1, <1>2, <1>4, <2>1, <2>3, LookOrderly
<1>5. CASE Moved(p, Down)
  <2>1. Progressed(Reached(Down))' /\ Halfway(Down)' /\ Undisturbed(Down)'
    BY DEF Reached, Progressed, Halfway, Undisturbed, Down, InTransaction
  <2> QED
    BY <1>1, <1>2, <1>5, <2>1, LookOrderly
<1> QED
  BY <1>3, <1>4, <1>5, GuardBasics

LEMMA DropOrders ==
    /\ \A k \in 1..4 : DropOrder(k) = "users" <=> k = 4
    /\ \A n \in Names : \E k \in 1..4 : n = DropOrder(k)
<1>1. /\ DropOrder(1) = "tests" /\ DropOrder(2) = "receipts"
      /\ DropOrder(3) = "payments" /\ DropOrder(4) = "users"
  BY DEF DropOrder
<1>2. \A k \in 1..4 : k \in {1, 2, 3, 4}
  OBVIOUS
<1>3. \A k \in 1..4 : DropOrder(k) = "users" <=> k = 4
  BY <1>1, <1>2
<1>4. 1 \in 1..4 /\ 2 \in 1..4 /\ 3 \in 1..4 /\ 4 \in 1..4
  OBVIOUS
<1>5. \A n \in Names : n = DropOrder(1) \/ n = DropOrder(2) \/ n = DropOrder(3) \/ n = DropOrder(4)
  BY <1>1 DEF Names
<1>6. \A n \in Names : \E k \in 1..4 : n = DropOrder(k)
  BY <1>4, <1>5
<1> QED
  BY <1>3, <1>6

\* Dropping a table with integer ids: everybody is still at the beginning.
LEMMA DropIntegerOrderly ==
    ASSUME Basics, Orderly, ~overtaken, NEW p \in Processes, DropTable(p),
           UNCHANGED <<consent, stops, owed, alone>>, ~overtaken',
           NEW k, k = process[p].k, NEW n, n = DropOrder(k), n \in DOMAIN tables
    PROVE  /\ SoundTables' /\ Owed' /\ \A r \in States : Kept(r)
           /\ k = 4 => DOMAIN tables' = {}
<1>1. /\ consent /\ process[p].stage = "drop" /\ k \in 1..4
      /\ DOMAIN tables' = DOMAIN tables \ {n} /\ \A m \in DOMAIN tables' : tables'[m] = tables[m]
      /\ ~(n \in DOMAIN tables /\ tables[n].ids = "text")
  BY DropBasics, ZenonT(30)
<1>2. DOMAIN tables \subseteq Names /\ \A m \in DOMAIN tables : tables[m].ids \in {"integer", "text"}
  BY DEF Basics, TypeInv, MigrationTypeOK, Table
<1>3. tables[n].ids = "integer" /\ tables[n].ids # "text"
  BY <1>1, <1>2
<1>4. "users" \in DOMAIN tables /\ \A m \in DOMAIN tables : tables[m].ids = "integer"
  BY <1>3 DEF Orderly, SoundTables, OneKindOfIds
<1>5. k = 4 => DOMAIN tables' = {}
  <2> SUFFICES ASSUME k = 4, NEW m \in DOMAIN tables, m # n
               PROVE  FALSE
    BY <1>1
  <2>1. PICK j \in 1..4 : m = DropOrder(j)
    BY <1>2, DropOrders
  <2>2. j \in 1..(k - 1)
    BY <2>1
  <2>3. tables[DropOrder(j)].ids = "text"
    BY <1>1, <2>1, <2>2 DEF Orderly, Halfway
  <2> QED
    BY <1>4, <2>1, <2>3
<1>6. OneKindOfIds'
  <2>1. CASE k = 4
    BY <1>5, <2>1 DEF OneKindOfIds
  <2>2. CASE k # 4
    <3>1. n # "users"
      BY <1>1, <2>2, DropOrders
    <3> QED
      BY <1>1, <1>4, <3>1 DEF OneKindOfIds
  <2> QED
    BY <2>1, <2>2
<1>7. SoundTables'
  BY <1>1, <1>6 DEF Orderly, SoundTables
<1>8. Owed'
  <2>1. owed[n] = {}
    BY <1>1, <1>3 DEF Orderly, Owed
  <2>2. \A m \in Names : owed'[m] \subseteq RowsOf(m)'
    BY <1>1, <2>1 DEF Orderly, Owed, DataSurvives, RowsOf
  <2>3. consent' => \A m \in DOMAIN tables' : tables'[m].ids = "integer" => owed'[m] = {}
    BY <1>1 DEF Orderly, Owed
  <2> QED
    BY <2>2, <2>3 DEF Owed, DataSurvives
<1>9. ASSUME NEW r \in States
      PROVE  Kept(r)
  <2> SUFFICES ASSUME Progressed(Reached(r)), Halfway(r)
               PROVE  Progressed(Reached(r))' /\ Halfway(r)'
    BY DEF Kept
  <2>1. ~(Reached(r) > 1) /\ Reached(r) \in 0..12
    BY <1>3, StateFacts DEF Progressed
  <2>2. Progressed(Reached(r))'
    BY <2>1 DEF Progressed
  <2>3. r.stage \in {"look", "rename"} \cup InTransaction => r \in Task /\ r.at = Reached(r)
    BY StateFacts DEF InTransaction
  <2>4. ~(r.stage \in {"rename"} \cup InTransaction) /\ ~(r.stage = "look" /\ r.at = 2)
    BY <2>1, <2>3, Kinds
  <2>5. Halfway(r)'
    BY <1>1, <2>4 DEF Halfway
  <2> QED
    BY <2>2, <2>5
<1> QED
  BY <1>5, <1>7, <1>8, <1>9

LEMMA DropOrderly ==
    ASSUME Basics, Orderly, ~overtaken, NEW p \in Processes, DropTable(p),
           UNCHANGED <<consent, stops, owed, alone>>, ~overtaken'
    PROVE  Orderly'
<1>1. PICK k, n : k = process[p].k /\ n = DropOrder(k)
  OBVIOUS
<1>2. /\ process[p].stage = "drop" /\ process[p].at = 1 /\ k \in 1..4
      /\ DOMAIN tables' = DOMAIN tables \ {n} /\ \A m \in DOMAIN tables' : tables'[m] = tables[m]
      /\ n \notin DOMAIN tables => \A m \in DOMAIN tables : tables'[m] = tables[m]
      /\ index' = (index /\ n # "receipts")
      /\ k = 4 => Moved(p, Following(1))
      /\ k # 4 => Moved(p, Working("drop", 1, k + 1))
  BY <1>1, DropBasics
<1>3. process[p] \in Task /\ writer \in {p, NoProcess}
  BY AtPlace DEF DropTable, Basics, At
<1>4. /\ SoundTables' /\ Owed' /\ \A r \in States : Kept(r)
      /\ k = 4 => \A m \in DOMAIN tables' : tables'[m].ids = "text"
  <2>1. CASE n \in DOMAIN tables
    BY <1>1, <2>1, DropIntegerOrderly
  <2>2. CASE n \notin DOMAIN tables
    <3>1. DOMAIN tables' = DOMAIN tables /\ \A m \in DOMAIN tables : tables'[m] = tables[m]
      BY <1>2, <2>2
    <3>2. "receipts" \in DOMAIN tables /\ index => index'
      BY <1>2, <2>2
    <3>3. Grows
      BY <3>1, <3>2 DEF Grows, Basics, TypeInv, MigrationTypeOK, IndexKept, Distinct, RowsOf
    <3>4. SoundTables'
      BY <3>1 DEF Orderly, SoundTables, OneKindOfIds
    <3>5. Owed'
      BY <3>1 DEF Orderly, Owed, DataSurvives, RowsOf
    <3>6. k = 4 => \A m \in DOMAIN tables' : tables'[m].ids = "text"
      <4>1. k = 4 => n = "users"
        BY <1>1, DropOrders
      <4> QED
        BY <2>2, <3>1, <4>1 DEF Orderly, SoundTables, OneKindOfIds
    <3> QED
      BY <3>3, <3>4, <3>5, <3>6, GrowthKeeps
  <2> QED
    BY <2>1, <2>2
<1>5. CASE k = 4
  <2>1. PICK s : s = Following(1)
    OBVIOUS
  <2>2. Reached(s) = 2 /\ Halfway(s)' /\ Undisturbed(s)'
    BY <2>1, FollowingState, FollowingRests
  <2>3. Progressed(Reached(s))'
    BY <1>4, <1>5, <2>2 DEF Progressed
  <2>4. Moved(p, s)
    BY <1>2, <1>5, <2>1
  <2> QED
    BY <1>3, <1>4, <2>2, <2>3, <2>4, StepOrderly
<1>6. CASE k # 4
  <2>1. PICK s : s = Working("drop", 1, k + 1)
    OBVIOUS
  <2>2. s.stage = "drop" /\ s.at = 1 /\ s.k = k + 1 /\ s # Down /\ s # Serving
    BY <2>1 DEF Working, Down, Serving
  <2>3. Progressed(Reached(s))'
    BY <2>2 DEF Progressed, Reached
  <2>4. \A j \in 1..k : DropOrder(j) \in DOMAIN tables' => tables'[DropOrder(j)].ids = "text"
    <3> SUFFICES ASSUME NEW j \in 1..k, DropOrder(j) \in DOMAIN tables'
                 PROVE  tables'[DropOrder(j)].ids = "text"
      OBVIOUS
    <3>1. j # k
      BY <1>1, <1>2
    <3>2. j \in 1..(k - 1)
      BY <1>2, <3>1
    <3> QED
      BY <1>1, <1>2, <3>2 DEF Orderly, Halfway
  <2>5. Halfway(s)'
    <3>1. 1..(s.k - 1) = 1..k
      BY <1>2, <2>2
    <3> QED
      BY <2>2, <2>4, <3>1 DEF Halfway, InTransaction
  <2>6. p \in alone => Undisturbed(s)'
    <3>1. n # "users"
      BY <1>1, <1>2, <1>6, DropOrders
    <3>2. p \in alone => "users" \in DOMAIN tables /\ tables["users"].ids = "integer"
      BY <1>2 DEF Orderly, Undisturbed
    <3> QED
      BY <1>2, <2>2, <3>1, <3>2 DEF Undisturbed
  <2>7. Moved(p, s)
    BY <1>2, <1>6, <2>1
  <2> QED
    BY <1>3, <1>4, <2>3, <2>5, <2>6, <2>7, StepOrderly
<1> QED
  BY <1>5, <1>6

\* What a process in the list of steps relies on.
LEMMA OwnProgress ==
    ASSUME Basics, Orderly, NEW p \in Processes, process[p] \in Task
    PROVE  Progressed(process[p].at) /\ process[p].at \in 1..11 /\ Halfway(process[p])
<1>1. PICK s : s = process[p]
  OBVIOUS
<1>2. s \in States /\ Reached(s) = s.at /\ s.at \in 1..11
  BY <1>1, StateFacts, Kinds DEF States
<1>3. Progressed(Reached(process[p])) /\ Halfway(process[p])
  BY DEF Orderly
<1> QED
  BY <1>1, <1>2, <1>3

\* A step that adds to the tables and goes on with the list.
LEMMA GrowingOrderly ==
    ASSUME Basics, Orderly, NEW p \in Processes, process[p] \in Task,
           NEW i \in 1..11, i = process[p].at, Moved(p, Following(i)), Grows,
           writer \in {p, NoProcess}, UNCHANGED alone, SoundTables', Owed',
           i = 1 => \A n \in DOMAIN tables' : tables'[n].ids = "text",
           i = 2 => DOMAIN tables' = Names,
           i \in 3..7 => HasColumn(Migrate[i].on, Migrate[i].column)',
           i = 8 => tables'["payments"].shape = "new", i = 9 => tables'["tests"].shape = "new",
           i = 10 => IndexKept'
    PROVE  Orderly'
<1>1. Progressed(i)'
  BY OwnProgress, GrowthProgress
<1>2. PICK s : s = Following(i)
  OBVIOUS
<1>3. Reached(s) = i + 1 /\ Halfway(s)' /\ Undisturbed(s)'
  BY <1>2, FollowingState, FollowingRests
<1>4. Progressed(i + 1)'
  BY <1>1, Achieved
<1>5. Progressed(Reached(s))'
  BY <1>3, <1>4
<1>6. \A r \in States : Kept(r)
  BY GrowthKeeps
<1> QED
  BY <1>2, <1>3, <1>5, <1>6, StepOrderly

LEMMA CreateOrderly ==
    ASSUME Basics, Orderly, NEW p \in Processes, CreateTable(p), UNCHANGED <<consent, stops, owed, alone>>
    PROVE  Orderly'
<1>1. PICK k, n : k = process[p].k /\ n = CreateOrder(k)
  OBVIOUS
<1>2. /\ UNCHANGED <<index, overtaken>>
      /\ process[p].stage = "look" /\ process[p].at = 2 /\ k \in 1..4 /\ n \in Names
      /\ DOMAIN tables' = DOMAIN tables \cup {n}
      /\ \A m \in DOMAIN tables : tables'[m] = tables[m]
      /\ n \notin DOMAIN tables => tables'[n] = NewTable(n)
      /\ k = 4 => Moved(p, Following(2))
      /\ k # 4 => Moved(p, Working("look", 2, k + 1))
  BY <1>1, CreateBasics
<1>3. process[p] \in Task /\ writer \in {p, NoProcess}
  BY AtPlace DEF CreateTable, Basics, At
<1>4. Progressed(2) /\ Halfway(process[p])
  BY <1>2, <1>3, OwnProgress
<1>5. \A m \in DOMAIN tables : tables[m].ids = "text"
  BY <1>4 DEF Progressed
<1>6. \A m \in DOMAIN tables' : m \notin DOMAIN tables =>
          tables'[m].ids = "text" /\ tables'[m].shape = "new" /\ tables'[m].columns = Columns[m]
  BY <1>2 DEF NewTable
<1>7. Grows
  <2>1. "receipts" \in DOMAIN tables /\ IndexKept => IndexKept'
    BY <1>2, SameReceipts
  <2>2. DOMAIN tables \subseteq DOMAIN tables' /\ DOMAIN tables' \subseteq Names
    BY <1>2 DEF Basics, TypeInv, MigrationTypeOK
  <2>3. \A m \in DOMAIN tables' \ DOMAIN tables : tables'[m].ids = "text"
    BY <1>6
  <2>4. \A m \in DOMAIN tables :
        /\ tables'[m].ids = tables[m].ids /\ tables[m].columns \subseteq tables'[m].columns
        /\ tables[m].shape = "new" => tables'[m].shape = "new"
        /\ m = "tests" /\ tables'[m].shape = "old" => tables'[m].columns = tables[m].columns
    BY <1>2
  <2> QED
    BY <2>1, <2>2, <2>3, <2>4, Zenon DEF Grows
<1>8. SoundTables'
  <2>1. \A m \in DOMAIN tables' : tables'[m].ids = "text"
    BY <1>2, <1>5, <1>6
  <2>2. Columns["tests"] = {"lesson_id"}
    BY DEF Columns
  <2>3. \A m \in DOMAIN tables' \cap {"users", "receipts"} : tables'[m].shape = "new"
    BY <1>2, <1>6 DEF Orderly, SoundTables
  <2>4. "tests" \in DOMAIN tables' =>
            /\ tables'["tests"].shape = "new" => "lesson_id" \in tables'["tests"].columns
            /\ "lesson_id" \notin tables'["tests"].columns => tables'["tests"].rows \subseteq TestIds \X {FALSE}
    <3>1. CASE "tests" \in DOMAIN tables
      BY <1>2, <3>1 DEF Orderly, SoundTables
    <3>2. CASE "tests" \notin DOMAIN tables
      BY <1>6, <2>2, <3>2
    <3> QED
      BY <3>1, <3>2
  <2> QED
    BY <2>1, <2>3, <2>4 DEF SoundTables, OneKindOfIds
<1>9. Owed'
  <2>1. DataSurvives'
    <3>1. \A m \in Names : RowsOf(m) \subseteq RowsOf(m)'
      BY <1>2 DEF RowsOf
    <3> QED
      BY <1>2, <3>1 DEF Orderly, Owed, DataSurvives
  <2> QED
    BY <1>2, <1>5, <1>6, <2>1 DEF Owed
<1>10. \A j \in 1..k : CreateOrder(j) \in DOMAIN tables'
  <2> SUFFICES ASSUME NEW j \in 1..k
               PROVE  CreateOrder(j) \in DOMAIN tables'
    OBVIOUS
  <2>1. CASE j = k
    BY <1>1, <1>2, <2>1
  <2>2. CASE j # k
    <3>1. j \in 1..(k - 1)
      BY <1>2, <2>2
    <3> QED
      BY <1>1, <1>2, <1>4, <3>1 DEF Halfway
  <2> QED
    BY <2>1, <2>2
<1>11. CASE k = 4
  <2>1. DOMAIN tables' = Names
    <3>1. /\ CreateOrder(1) = "users" /\ CreateOrder(2) = "payments"
          /\ CreateOrder(3) = "receipts" /\ CreateOrder(4) = "tests"
      BY DEF CreateOrder
    <3> QED
      BY <1>10, <1>11, <3>1, <1>7 DEF Names, Grows
  <2>2. Moved(p, Following(2))
    BY <1>2, <1>11
  <2> QED
    BY <1>2, <1>3, <1>7, <1>8, <1>9, <2>1, <2>2, GrowingOrderly
<1>12. CASE k # 4
  <2>1. PICK s : s = Working("look", 2, k + 1)
    OBVIOUS
  <2>2. s.stage = "look" /\ s.at = 2 /\ s.k = k + 1 /\ s # Down /\ s # Serving
    BY <2>1 DEF Working, Down, Serving
  <2>3. Progressed(Reached(s))'
    BY <1>4, <1>7, <2>2, GrowthProgress DEF Reached
  <2>4. Halfway(s)'
    <3>1. 1..(s.k - 1) = 1..k
      BY <1>2, <2>2
    <3> QED
      BY <1>10, <2>2, <3>1 DEF Halfway, InTransaction
  <2>5. Undisturbed(s)'
    BY <2>2 DEF Undisturbed
  <2>6. \A r \in States : Kept(r)
    BY <1>7, GrowthKeeps
  <2>7. Moved(p, s)
    BY <1>2, <1>12, <2>1
  <2> QED
    BY <1>2, <1>3, <1>8, <1>9, <2>3, <2>4, <2>5, <2>6, <2>7, StepOrderly
<1> QED
  BY <1>11, <1>12

LEMMA LookForColumnOrderly ==
    ASSUME Basics, Orderly, NEW p \in Processes, LookForColumn(p), UNCHANGED <<consent, stops, owed, alone>>
    PROVE  Orderly'
<1>1. PICK i : i = process[p].at
  OBVIOUS
<1>2. UNCHANGED <<tables, index, overtaken>> /\ i \in 3..7
  BY <1>1, LookForColumnBasics
<1>3. process[p] \in Task /\ writer \in {p, NoProcess}
  BY AtPlace DEF LookForColumn, Basics, At
<1>4. Progressed(i)'
  BY <1>1, <1>2, <1>3, OwnProgress, SameProgress
<1>5. CASE Moved(p, Following(i)) /\ HasColumn(Migrate[i].on, Migrate[i].column)
  <2>1. HasColumn(Migrate[i].on, Migrate[i].column)'
    BY <1>2, <1>5 DEF HasColumn
  <2>2. Progressed(i + 1)'
    BY <1>2, <1>4, <2>1, Achieved
  <2> QED
    BY <1>1, <1>2, <1>3, <1>5, <2>2, AdvanceOrderly
<1>6. CASE Moved(p, Working("act", i, 1)) /\ ~HasColumn(Migrate[i].on, Migrate[i].column)
  <2>1. PICK s : s = Working("act", i, 1)
    OBVIOUS
  <2>2. s.stage = "act" /\ s.at = i /\ s # Down /\ s # Serving
    BY <2>1 DEF Working, Down, Serving
  <2>3. Progressed(Reached(s))' /\ Halfway(s)'
    BY <1>4, <2>2 DEF Reached, Halfway, InTransaction
  <2>4. Undisturbed(s)'
    BY <1>2, <1>6, <2>2 DEF Undisturbed, HasColumn
  <2> QED
    BY <1>2, <1>3, <1>6, <2>1, <2>3, <2>4, LookOrderly
<1> QED
  BY <1>1, <1>5, <1>6, LookForColumnBasics

LEMMA AddColumnOrderly ==
    ASSUME Basics, Orderly, NEW p \in Processes, AddColumn(p), UNCHANGED <<consent, stops, owed, alone>>
    PROVE  Orderly' /\ (p \in alone => ~Fails(p))
<1>1. PICK i, n, column : i = process[p].at /\ n = Migrate[i].on /\ column = Migrate[i].column
  OBVIOUS
<1>2. process[p].stage = "act" /\ i \in 3..7
  BY <1>1, AddColumnBasics
<1>3. process[p] \in Task /\ writer \in {p, NoProcess}
  BY AtPlace DEF AddColumn, Basics, At
<1>4. Progressed(i)
  BY <1>1, <1>3, OwnProgress
<1>5. n \in {"users", "payments", "receipts"} /\ n \in DOMAIN tables
  BY <1>1, <1>2, <1>4, ColumnSteps DEF Progressed, Names
<1>6. CASE /\ Moved(p, Following(i)) /\ UNCHANGED <<index, overtaken, deadEnds>>
           /\ n \in DOMAIN tables /\ DOMAIN tables' = DOMAIN tables
           /\ tables'[n] = [tables[n] EXCEPT !.columns = @ \cup {column}]
           /\ \A m \in DOMAIN tables : m # n => tables'[m] = tables[m]
  <2>1. /\ tables'[n].columns = tables[n].columns \cup {column} /\ tables'[n].ids = tables[n].ids
        /\ tables'[n].shape = tables[n].shape /\ tables'[n].rows = tables[n].rows
    <3>1. PICK t : t = tables[n]
      OBVIOUS
    <3>2. t \in Table(n)
      BY <1>5, <3>1 DEF Basics, TypeInv, MigrationTypeOK
    <3>3. tables'[n] = [t EXCEPT !.columns = t.columns \cup {column}]
      BY <1>6, <3>1
    <3> QED
      BY <3>1, <3>2, <3>3 DEF Table
  <2>2. n # "tests" /\ \A m \in DOMAIN tables : tables'[m].ids = tables[m].ids /\ tables'[m].shape = tables[m].shape
                          /\ tables'[m].rows = tables[m].rows
    BY <1>5, <1>6, <2>1
  <2>3. Grows
    <3>1. "receipts" \in DOMAIN tables /\ IndexKept => IndexKept'
      BY <1>6, <2>2, SameReceipts
    <3>2. \A m \in DOMAIN tables : tables[m].columns \subseteq tables'[m].columns
      BY <1>6, <2>1
    <3>3. \A m \in DOMAIN tables : m = "tests" => tables'[m].columns = tables[m].columns
      BY <1>6, <2>2
    <3>4. DOMAIN tables' = DOMAIN tables /\ DOMAIN tables \subseteq Names
      BY <1>6 DEF Basics, TypeInv, MigrationTypeOK
    <3>5. \A m \in DOMAIN tables :
            /\ tables'[m].ids = tables[m].ids /\ tables[m].columns \subseteq tables'[m].columns
            /\ tables[m].shape = "new" => tables'[m].shape = "new"
            /\ m = "tests" /\ tables'[m].shape = "old" => tables'[m].columns = tables[m].columns
      BY <2>2, <3>2, <3>3
    <3>6. /\ DOMAIN tables \subseteq DOMAIN tables' /\ DOMAIN tables' \subseteq Names
          /\ \A m \in DOMAIN tables' \ DOMAIN tables : tables'[m].ids = "text"
      BY <3>4
    <3> QED
      BY <3>1, <3>5, <3>6, Zenon DEF Grows
  <2>4. SoundTables'
    BY <1>5, <1>6, <2>2 DEF Orderly, SoundTables, OneKindOfIds
  <2>5. Owed'
    BY <1>6, <2>2 DEF Orderly, Owed, DataSurvives, RowsOf
  <2>6. HasColumn(n, column)'
    BY <1>6, <2>1 DEF HasColumn
  <2>7. HasColumn(Migrate[i].on, Migrate[i].column)'
    BY <1>1, <2>6
  <2>8. Orderly'
    <3>1. i \in 1..11 /\ i # 1 /\ i # 2 /\ i # 8 /\ i # 9 /\ i # 10 /\ UNCHANGED alone
      BY <1>2
    <3>2. i = process[p].at /\ Moved(p, Following(i))
      BY <1>1, <1>6
    <3> QED
      BY <1>3, <2>3, <2>4, <2>5, <2>7, <3>1, <3>2, GrowingOrderly
  <2>9. ~Fails(p)
    <3>1. process'[p] = Following(i) /\ Following(i) # Down
      BY <1>2, <1>6, MovedProcess, FollowingState DEF Basics
    <3> QED
      BY <3>1 DEF Fails, Basics, TypeInv
  <2> QED
    BY <2>8, <2>9
<1>7. CASE Fails(p) /\ (n \notin DOMAIN tables \/ HasColumn(n, column))
  <2>1. Orderly'
    BY <1>3, <1>7, FailOrderly
  <2>2. p \notin alone
    BY <1>1, <1>2, <1>5, <1>7 DEF Orderly, Undisturbed
  <2> QED
    BY <2>1, <2>2
<1>8. Added(p, i, n, column) \/ (Fails(p) /\ (n \notin DOMAIN tables \/ HasColumn(n, column)))
  BY <1>1, AddColumnBasics
<1> QED
  BY <1>6, <1>7, <1>8 DEF Added

LEMMA LookAtShapeOrderly ==
    ASSUME Basics, Orderly, NEW p \in Processes, LookAtShape(p), UNCHANGED <<consent, stops, owed, alone>>
    PROVE  Orderly'
<1>1. PICK i, n, k : i = process[p].at /\ n = Migrate[i].on /\ k = (IF HasColumn(n, "lesson_id") THEN 1 ELSE 0)
  OBVIOUS
<1>2. UNCHANGED <<tables, index, overtaken>> /\ i \in {8, 9}
  BY <1>1, LookAtShapeBasics
<1>3. process[p] \in Task /\ writer \in {p, NoProcess}
  BY AtPlace DEF LookAtShape, Basics, At
<1>4. Progressed(i) /\ Progressed(i)'
  BY <1>1, <1>2, <1>3, OwnProgress, SameProgress
<1>5. n \in {"payments", "tests"} /\ n \in DOMAIN tables /\ tables[n] \in Table(n) /\ (n = "tests" <=> i = 9)
  BY <1>1, <1>2, <1>4, RebuildSteps DEF Progressed, Names, Basics, TypeInv, MigrationTypeOK
<1>6. CASE Moved(p, Following(i)) /\ ~(n \in DOMAIN tables /\ tables[n].shape = "old")
  <2>1. tables'[n].shape = "new"
    BY <1>2, <1>5, <1>6 DEF Table
  <2>2. Progressed(i + 1)'
    BY <1>2, <1>4, <1>5, <2>1, Achieved
  <2> QED
    BY <1>1, <1>2, <1>3, <1>6, <2>2, AdvanceOrderly
<1>7. CASE Moved(p, Working("rename", i, k)) /\ n \in DOMAIN tables /\ tables[n].shape = "old"
  <2>1. PICK s : s = Working("rename", i, k)
    OBVIOUS
  <2>2. s.stage = "rename" /\ s.at = i /\ s.k = k /\ s # Down /\ s # Serving
    BY <2>1 DEF Working, Down, Serving
  <2>3. Progressed(Reached(s))'
    BY <1>4, <2>2 DEF Reached
  <2>4. s.at = 9 => (s.k = 1 <=> HasColumn("tests", "lesson_id")')
    BY <1>1, <1>2, <1>5, <2>2 DEF HasColumn
  <2>5. Halfway(s)'
    BY <2>2, <2>4 DEF Halfway, InTransaction
  <2>6. Undisturbed(s)'
    BY <1>1, <1>2, <1>7, <2>2 DEF Undisturbed
  <2> QED
    BY <1>2, <1>3, <1>7, <2>1, <2>3, <2>5, <2>6, LookOrderly
<1> QED
  BY <1>1, <1>6, <1>7, LookAtShapeBasics

\* A step into or within a transaction keeps what the process knows.
LEMMA TransactionOrderly ==
    ASSUME Basics, Orderly, NEW p \in Processes, process[p] \in Task,
           process[p].stage \in {"rename"} \cup InTransaction, writer \in {p, NoProcess},
           NEW next \in InTransaction, Moved(p, Working(next, process[p].at, process[p].k)),
           tables[Migrate[process[p].at].on].shape = "old",
           UNCHANGED <<tables, index, consent, overtaken, owed, alone>>
    PROVE  Orderly'
<1>1. PICK i, k : i = process[p].at /\ k = process[p].k
  OBVIOUS
<1>2. PICK s : s = Working(next, i, k)
  OBVIOUS
<1>3. s.stage = next /\ s.at = i /\ s.k = k /\ s # Down /\ s # Serving
  BY <1>2 DEF Working, Down, Serving, InTransaction
<1>4. Progressed(i) /\ Halfway(process[p])
  BY <1>1, OwnProgress
<1>5. Progressed(Reached(s))'
  BY <1>3, <1>4, SameProgress DEF Reached
<1>6. Halfway(s)'
  <2>1. next \notin {"drop", "look"}
    BY DEF InTransaction
  <2>2. s.at = 9 /\ tables'["tests"].shape = "old" => (s.k = 1 <=> HasColumn("tests", "lesson_id")')
    BY <1>1, <1>3, <1>4 DEF Halfway, HasColumn
  <2>3. tables'[Migrate[s.at].on].shape = "old"
    BY <1>1, <1>3
  <2> QED
    BY <1>3, <2>1, <2>2, <2>3 DEF Halfway
<1>7. Undisturbed(s)'
  BY <1>3 DEF Undisturbed, InTransaction
<1>8. Moved(p, s)
  BY <1>1, <1>2
<1> QED
  BY <1>5, <1>6, <1>7, <1>8, LookOrderly

LEMMA RenameOrderly ==
    ASSUME Basics, Orderly, ~overtaken, NEW p \in Processes, RenameTable(p),
           UNCHANGED <<consent, stops, owed, alone>>
    PROVE  /\ ~overtaken' => Orderly'
           /\ ~Fails(p) /\ UNCHANGED deadEnds
           /\ p \in alone => ~overtaken'
<1>1. /\ process[p] \in Task /\ process[p].stage = "rename" /\ writer \in {p, NoProcess}
      /\ process[p].at \in {8, 9} /\ "create" \in InTransaction
  BY AtPlace, Kinds DEF RenameTable, Basics, InTransaction, At
<1>2. PICK n : n = On(p)
  OBVIOUS
<1>3. Progressed(process[p].at)
  BY <1>1, OwnProgress
<1>4. n \in {"payments", "tests"}
  BY <1>1, <1>2, RebuildSteps DEF On
<1>5. n \in DOMAIN tables
  BY <1>1, <1>3, <1>4 DEF Progressed, Names
<1>6. tables[n].shape \in {"old", "new"}
  BY <1>5 DEF Basics, TypeInv, MigrationTypeOK, Table
<1>7. /\ Moved(p, Working("create", process[p].at, process[p].k)) /\ UNCHANGED <<tables, index, deadEnds>>
      /\ overtaken' = (overtaken \/ tables[n].shape = "new")
  BY <1>2, <1>5, RenameBasics
<1>8. ~Fails(p)
  <2>1. PICK s : s = Working("create", process[p].at, process[p].k)
    OBVIOUS
  <2>2. process'[p] = s
    BY <1>7, <2>1, MovedProcess DEF Basics
  <2>3. s # Down
    BY <2>1 DEF Working, Down
  <2> QED
    BY <2>2, <2>3 DEF Fails, Basics, TypeInv
<1>9. ASSUME ~overtaken'
      PROVE  Orderly'
  <2>1. tables[Migrate[process[p].at].on].shape = "old"
    BY <1>2, <1>6, <1>7, <1>9 DEF On
  <2>2. overtaken \in BOOLEAN /\ overtaken' \in BOOLEAN
    BY RenameBasics DEF Basics, TypeInv, MigrationTypeOK
  <2>3. UNCHANGED overtaken
    BY <1>9, <2>2
  <2> QED
    BY <1>1, <1>7, <2>1, <2>3, TransactionOrderly
<1>10. p \in alone => ~overtaken'
  BY <1>1, <1>2, <1>7 DEF Orderly, Undisturbed, On
<1> QED
  BY <1>7, <1>8, <1>9, <1>10

LEMMA CreateNewOrderly ==
    ASSUME Basics, Orderly, NEW p \in Processes, CreateNew(p), UNCHANGED <<consent, stops, owed, alone>>
    PROVE  Orderly'
<1>1. /\ process[p] \in Task /\ process[p].stage = "create" /\ writer \in {p, NoProcess}
      /\ "create" \in InTransaction /\ "copy" \in InTransaction
  BY AtPlace DEF CreateNew, Basics, InTransaction, At
<1>2. tables[Migrate[process[p].at].on].shape = "old"
  BY <1>1 DEF Orderly, Halfway
<1>3. UNCHANGED <<index, overtaken>>
  BY DEF CreateNew, Statement
<1> QED
  BY <1>1, <1>2, <1>3, CreateNewBasics, TransactionOrderly

LEMMA CopyRowsOrderly ==
    ASSUME Basics, Orderly, NEW p \in Processes, CopyRows(p), UNCHANGED <<consent, stops, owed, alone>>
    PROVE  Orderly' /\ UNCHANGED <<overtaken, deadEnds>>
<1>1. /\ process[p] \in Task /\ process[p].stage = "copy" /\ writer \in {p, NoProcess}
      /\ "copy" \in InTransaction /\ "finish" \in InTransaction /\ process[p].at \in {8, 9}
  BY AtPlace, Kinds DEF CopyRows, Basics, InTransaction, At
<1>2. tables[Migrate[process[p].at].on].shape = "old"
  BY <1>1 DEF Orderly, Halfway
<1>3. On(p) = "payments" => Columns[On(p)] \subseteq tables[On(p)].columns
  <2>1. Progressed(process[p].at)
    BY <1>1, OwnProgress
  <2>2. \A j \in {4, 6, 7} : HasColumn(Migrate[j].on, Migrate[j].column)
    BY <1>1, <2>1 DEF Progressed
  <2>3. /\ Migrate[4].on = "payments" /\ Migrate[6].on = "payments" /\ Migrate[7].on = "payments"
        /\ Migrate[4].column = "contact_phone" /\ Migrate[6].column = "payment_type"
        /\ Migrate[7].column = "premium_course_id"
    BY MigrateSteps, StepParts
  <2>4. {"contact_phone", "payment_type", "premium_course_id"} \subseteq tables["payments"].columns
    BY <2>2, <2>3 DEF HasColumn
  <2>5. Columns["payments"] = {"contact_phone", "payment_type", "premium_course_id"}
    BY DEF Columns
  <2> QED
    BY <2>4, <2>5
<1>4. /\ Moved(p, Working("finish", process[p].at, process[p].k))
      /\ UNCHANGED <<tables, index, overtaken, deadEnds>>
  BY <1>3, CopyRowsBasics
<1> QED
  BY <1>1, <1>2, <1>4, TransactionOrderly

LEMMA DropOldOrderly ==
    ASSUME Basics, Orderly, NEW p \in Processes, DropOld(p), UNCHANGED <<consent, stops, owed, alone>>
    PROVE  Orderly'
<1>1. /\ process[p] \in Task /\ process[p].stage = "finish" /\ writer \in {p, NoProcess}
      /\ "finish" \in InTransaction /\ "commit" \in InTransaction
  BY AtPlace DEF DropOld, Basics, InTransaction, At
<1>2. tables[Migrate[process[p].at].on].shape = "old"
  BY <1>1 DEF Orderly, Halfway
<1>3. UNCHANGED <<index, overtaken>>
  BY DEF DropOld, Statement
<1> QED
  BY <1>1, <1>2, <1>3, DropOldBasics, TransactionOrderly

\* The rebuilt table has the rows of the old one.
LEMMA FilledRowsSame ==
    ASSUME Basics, Orderly, NEW n \in {"payments", "tests"}, n \in DOMAIN tables, NEW k,
           n = "tests" => (k = 1 <=> HasColumn("tests", "lesson_id"))
    PROVE  FilledRows(n, k) = tables[n].rows
<1>1. CASE n = "payments"
  BY <1>1 DEF FilledRows
<1>2. CASE n = "tests"
  <2>1. PICK rows : rows = tables["tests"].rows
    OBVIOUS
  <2>2. rows \subseteq TestIds \X BOOLEAN
    BY <1>2, <2>1 DEF Basics, TypeInv, MigrationTypeOK, Table, Rows
  <2>3. k # 1 => rows \subseteq TestIds \X {FALSE}
    BY <1>2, <2>1 DEF Orderly, SoundTables, HasColumn
  <2>4. \A row \in rows : Copied(row, k = 1) = row
    <3>1. CASE k = 1
      BY <3>1 DEF Copied
    <3>2. CASE k # 1
      <4>1. ASSUME NEW row \in rows
            PROVE  row = <<row[1], FALSE>>
        <5>0. row \in TestIds \X {FALSE}
          BY <2>3, <3>2
        <5>1. PICK F : F = {FALSE}
          OBVIOUS
        <5>2. row \in TestIds \X F
          BY <5>0, <5>1
        <5>3. row = <<row[1], row[2]>> /\ row[2] \in F
          BY <5>2
        <5>4. row[2] = FALSE
          BY <5>1, <5>3
        <5> QED
          BY <5>3, <5>4
      <4> QED
        BY <3>2, <4>1 DEF Copied
    <3> QED
      BY <3>1, <3>2
  <2>5. {Copied(row, k = 1) : row \in rows} = rows
    BY <2>4
  <2> QED
    BY <1>2, <2>1, <2>5 DEF FilledRows
<1> QED
  BY <1>1, <1>2

LEMMA CommitOrderly ==
    ASSUME Basics, Orderly, NEW p \in Processes, Commit(p), UNCHANGED <<consent, stops, owed, alone>>
    PROVE  Orderly'
<1>1. PICK i, n, k : i = process[p].at /\ n = Migrate[i].on /\ k = process[p].k
  OBVIOUS
<1>2. /\ process[p] \in Task /\ process[p].stage = "commit" /\ writer \in {p, NoProcess}
      /\ "commit" \in InTransaction /\ i \in {8, 9}
  BY <1>1, AtPlace, Kinds DEF Commit, Basics, InTransaction, At
<1>3. n \in {"payments", "tests"} /\ (n = "tests" <=> i = 9)
  BY <1>1, <1>2, RebuildSteps
<1>4. /\ Moved(p, Following(i)) /\ UNCHANGED <<index, overtaken>>
      /\ n \in DOMAIN tables /\ DOMAIN tables' = DOMAIN tables
      /\ tables'[n] = Filled(n, k)
      /\ \A m \in DOMAIN tables : m # n => tables'[m] = tables[m]
  BY <1>1, CommitBasics DEF On
<1>5. tables[n].shape = "old" /\ (n = "tests" => (k = 1 <=> HasColumn("tests", "lesson_id")))
  BY <1>1, <1>2, <1>3 DEF Orderly, Halfway
<1>6. FilledRows(n, k) = tables[n].rows
  BY <1>3, <1>4, <1>5, FilledRowsSame
<1>7. /\ tables'[n].ids = tables[n].ids /\ tables'[n].shape = "new" /\ tables'[n].columns = Columns[n]
      /\ tables'[n].rows = tables[n].rows
  BY <1>4, <1>6 DEF Filled, NewTable
<1>8. tables[n].columns \subseteq Columns[n]
  BY <1>4 DEF Basics, TypeInv, MigrationTypeOK, Table
<1>9. Grows
  <2>1. "receipts" \in DOMAIN tables /\ IndexKept => IndexKept'
    BY <1>4, <1>7, SameReceipts
  <2>2. DOMAIN tables' = DOMAIN tables /\ DOMAIN tables \subseteq Names
    BY <1>4 DEF Basics, TypeInv, MigrationTypeOK
  <2>3. ASSUME NEW m \in DOMAIN tables
        PROVE  /\ tables'[m].ids = tables[m].ids /\ tables[m].columns \subseteq tables'[m].columns
               /\ tables[m].shape = "new" => tables'[m].shape = "new"
               /\ m = "tests" /\ tables'[m].shape = "old" => tables'[m].columns = tables[m].columns
    <3>1. CASE m = n
      BY <1>7, <1>8, <3>1
    <3>2. CASE m # n
      BY <1>4, <3>2
    <3> QED
      BY <3>1, <3>2
  <2>4. /\ DOMAIN tables \subseteq DOMAIN tables' /\ DOMAIN tables' \subseteq Names
        /\ \A m \in DOMAIN tables' \ DOMAIN tables : tables'[m].ids = "text"
    BY <2>2
  <2>5. \A m \in DOMAIN tables :
        /\ tables'[m].ids = tables[m].ids /\ tables[m].columns \subseteq tables'[m].columns
        /\ tables[m].shape = "new" => tables'[m].shape = "new"
        /\ m = "tests" /\ tables'[m].shape = "old" => tables'[m].columns = tables[m].columns
    BY <2>3
  <2> QED
    BY <2>1, <2>4, <2>5, Zenon DEF Grows
<1>10. SoundTables'
  <2>1. \A m \in DOMAIN tables : tables'[m].ids = tables[m].ids
    BY <1>4, <1>7
  <2>2. Columns["tests"] = {"lesson_id"}
    BY DEF Columns
  <2>3. OneKindOfIds'
    BY <1>4, <2>1 DEF Orderly, SoundTables, OneKindOfIds
  <2>4. \A m \in DOMAIN tables' \cap {"users", "receipts"} : tables'[m].shape = "new"
    BY <1>3, <1>4 DEF Orderly, SoundTables
  <2>5. "tests" \in DOMAIN tables' =>
            /\ tables'["tests"].shape = "new" => "lesson_id" \in tables'["tests"].columns
            /\ "lesson_id" \notin tables'["tests"].columns => tables'["tests"].rows \subseteq TestIds \X {FALSE}
    <3>1. CASE n = "tests"
      BY <1>7, <2>2, <3>1
    <3>2. CASE n # "tests"
      BY <1>4, <3>2 DEF Orderly, SoundTables
    <3> QED
      BY <3>1, <3>2
  <2> QED
    BY <2>3, <2>4, <2>5 DEF SoundTables
<1>11. Owed'
  <2>1. \A m \in DOMAIN tables : tables'[m].ids = tables[m].ids /\ tables'[m].rows = tables[m].rows
    BY <1>4, <1>7
  <2> QED
    BY <1>4, <2>1 DEF Orderly, Owed, DataSurvives, RowsOf
<1>12. (i = 8 => tables'["payments"].shape = "new") /\ (i = 9 => tables'["tests"].shape = "new")
  BY <1>2, <1>3, <1>7
<1> QED
  BY <1>1, <1>2, <1>4, <1>9, <1>10, <1>11, <1>12, GrowingOrderly

LEMMA LookForDuplicatesOrderly ==
    ASSUME Basics, Orderly, NEW p \in Processes, LookForDuplicates(p), UNCHANGED <<consent, stops, owed, alone>>
    PROVE  Orderly' /\ UNCHANGED <<overtaken, deadEnds>>
<1>1. process[p] \in Task /\ process[p].stage = "look" /\ process[p].at = 10 /\ writer \in {p, NoProcess}
  BY AtPlace, LookForDuplicatesBasics DEF LookForDuplicates, Basics, At
<1>2. Progressed(10)
  BY <1>1, OwnProgress
<1>3. Indexable
  <2>1. DOMAIN tables = Names /\ tables["tests"].shape = "new"
        /\ \A j \in {4, 5, 6, 7} : HasColumn(Migrate[j].on, Migrate[j].column)
    BY <1>2 DEF Progressed
  <2>2. /\ Migrate[4].on = "payments" /\ Migrate[6].on = "payments" /\ Migrate[7].on = "payments"
        /\ Migrate[4].column = "contact_phone" /\ Migrate[6].column = "payment_type"
        /\ Migrate[7].column = "premium_course_id"
        /\ Migrate[5].on = "receipts" /\ Migrate[5].column = "receipt_transaction_key"
    BY MigrateSteps, StepParts
  <2>3. /\ {"contact_phone", "payment_type", "premium_course_id"} \subseteq tables["payments"].columns
        /\ HasColumn("receipts", "receipt_transaction_key")
    BY <2>1, <2>2 DEF HasColumn
  <2>4. Columns["payments"] = {"contact_phone", "payment_type", "premium_course_id"}
    BY DEF Columns
  <2>5. HasColumn("tests", "lesson_id")
    BY <2>1 DEF Orderly, SoundTables, HasColumn, Names
  <2>6. "payments" \in DOMAIN tables
    BY <2>1 DEF Names
  <2> QED
    BY <2>3, <2>4, <2>5, <2>6 DEF Indexable
<1>4. UNCHANGED <<tables, index, overtaken, deadEnds>>
  BY <1>3, LookForDuplicatesBasics
<1>5. Progressed(10)'
  BY <1>2, <1>4, SameProgress
<1>6. CASE Moved(p, Following(10)) /\ ~Distinct(RowsOf("receipts"))
  <2>1. IndexKept'
    BY <1>4, <1>6 DEF IndexKept, Distinct, RowsOf
  <2>2. Progressed(10 + 1)'
    BY <1>5, <2>1, Achieved
  <2> QED
    BY <1>1, <1>4, <1>6, <2>2, AdvanceOrderly
<1>7. CASE Moved(p, Working("act", 10, 1)) /\ Distinct(RowsOf("receipts"))
  <2>1. PICK s : s = Working("act", 10, 1)
    OBVIOUS
  <2>2. s.stage = "act" /\ s.at = 10 /\ s # Down /\ s # Serving
    BY <2>1 DEF Working, Down, Serving
  <2>3. Progressed(Reached(s))' /\ Halfway(s)'
    BY <1>5, <2>2 DEF Reached, Halfway, InTransaction
  <2>4. Undisturbed(s)'
    BY <1>4, <1>7, <2>2 DEF Undisturbed, Distinct, RowsOf
  <2> QED
    BY <1>1, <1>4, <1>7, <2>1, <2>3, <2>4, LookOrderly
<1> QED
  BY <1>3, <1>4, <1>6, <1>7, LookForDuplicatesBasics

LEMMA CreateIndexOrderly ==
    ASSUME Basics, Orderly, NEW p \in Processes, CreateIndex(p), UNCHANGED <<consent, stops, owed, alone>>
    PROVE  Orderly' /\ (p \in alone => ~Fails(p))
<1>1. process[p] \in Task /\ process[p].stage = "act" /\ process[p].at = 10 /\ writer \in {p, NoProcess}
  BY AtPlace, CreateIndexBasics DEF CreateIndex, Basics, At
<1>2. Progressed(10)
  BY <1>1, OwnProgress
<1>3. CASE Moved(p, Following(10)) /\ index' /\ UNCHANGED <<tables, overtaken, deadEnds>>
  <2>1. Progressed(10)'
    BY <1>2, <1>3, SameProgress
  <2>2. Progressed(10 + 1)'
    BY <1>3, <2>1, Achieved DEF IndexKept
  <2>3. Orderly'
    BY <1>1, <1>3, <2>2, AdvanceOrderly
  <2>4. process'[p] = Following(10) /\ Following(10) # Down
    BY <1>3, MovedProcess, FollowingState DEF Basics
  <2>5. ~Fails(p)
    BY <2>4 DEF Fails, Basics, TypeInv
  <2> QED
    BY <2>3, <2>5
<1>4. CASE Fails(p) /\ ("receipts" \notin DOMAIN tables \/ ~Distinct(RowsOf("receipts")))
  <2>1. Orderly'
    BY <1>1, <1>4, FailOrderly
  <2>2. "receipts" \in DOMAIN tables
    BY <1>2 DEF Progressed, Names
  <2>3. p \notin alone
    BY <1>1, <1>4, <2>2 DEF Orderly, Undisturbed
  <2> QED
    BY <2>1, <2>3
<1> QED
  BY <1>3, <1>4, CreateIndexBasics

LEMMA SeedOrderly ==
    ASSUME Basics, Orderly, NEW p \in Processes, Seed(p), UNCHANGED <<consent, stops, owed, alone>>
    PROVE  Orderly'
<1>1. process[p] \in Task /\ process[p].at = 11 /\ writer \in {p, NoProcess}
  BY AtPlace, SeedBasics DEF Seed, Basics, At
<1>2. Moved(p, Following(11)) /\ UNCHANGED <<tables, index, overtaken, deadEnds>>
  BY SeedBasics
<1>3. Progressed(11)'
  BY <1>1, <1>2, OwnProgress, SameProgress
<1>4. Progressed(11 + 1)'
  BY <1>3, Achieved
<1> QED
  BY <1>1, <1>2, <1>4, AdvanceOrderly

\* A process starts or stops.
LEMMA RestOrderly ==
    ASSUME Basics, Orderly, NEW p \in Processes, NEW s \in {Down, Working("look", 1, 1)}, Moved(p, s),
           UNCHANGED <<tables, index, consent, owed, overtaken>>, alone' \subseteq alone \cup {p}
    PROVE  Orderly'
<1>1. process'[p] = s /\ \A q \in Processes : q # p => process'[q] = process[q]
  BY MovedProcess DEF Basics
<1>2. SoundTables' /\ Owed'
  BY DEF Orderly, SoundTables, OneKindOfIds, Owed, DataSurvives, RowsOf
<1>3. \A r \in States : Progressed(Reached(r)) /\ Halfway(r) => Progressed(Reached(r))' /\ Halfway(r)'
  BY SameProgress DEF Halfway, HasColumn
<1>4. \A r \in States : Undisturbed(r) => Undisturbed(r)'
  BY DEF Undisturbed, HasColumn, Distinct, RowsOf
<1>5. Progressed(Reached(s))' /\ Halfway(s)' /\ Undisturbed(s)'
  <2>1. s.stage \in {"down", "look"} /\ (s.stage = "look" => s.at = 1)
    BY DEF Down, Working
  <2>2. Reached(s) \in {0, 1}
    BY <2>1 DEF Reached, Down, Serving, Working
  <2>3. Progressed(Reached(s))'
    BY <2>2 DEF Progressed
  <2> QED
    BY <2>1, <2>3 DEF Halfway, Undisturbed, InTransaction
<1>6. ASSUME NEW q \in Processes
      PROVE  Progressed(Reached(process[q]))' /\ Halfway(process[q])'
  <2>1. PICK r, t : r = process[q] /\ t = process'[q]
    OBVIOUS
  <2>2. r \in States /\ Progressed(Reached(r)) /\ Halfway(r)
    BY <2>1 DEF Orderly, Basics, TypeInv, States
  <2>3. Progressed(Reached(t))' /\ Halfway(t)'
    BY <1>1, <1>3, <1>5, <2>1, <2>2
  <2> QED
    BY <2>1, <2>3 DEF Progressed, Halfway, Reached
<1>7. ASSUME NEW q \in alone'
      PROVE  Undisturbed(process[q])'
  <2>1. PICK r, t : r = process[q] /\ t = process'[q]
    OBVIOUS
  <2>2. q = p \/ (q \in alone /\ q \in Processes /\ q # p)
    BY DEF Basics, TypeInv, MigrationTypeOK
  <2>3. Undisturbed(t)'
    <3>1. CASE q = p
      BY <1>1, <1>5, <2>1, <3>1
    <3>2. CASE q \in alone /\ q \in Processes /\ q # p
      <4>1. t = r /\ r \in States /\ Undisturbed(r)
        BY <1>1, <2>1, <3>2 DEF Orderly, Basics, TypeInv, States
      <4> QED
        BY <1>4, <4>1
    <3> QED
      BY <2>2, <3>1, <3>2
  <2> QED
    BY <2>1, <2>3 DEF Undisturbed
<1> QED
  BY <1>2, <1>6, <1>7 DEF Orderly

\* A row is written while somebody serves: the tables are whole.
LEMMA WriteOrderly ==
    ASSUME Basics, Orderly, NEW p \in Processes, NEW n, NEW rows, Write(p, n, rows), rows \subseteq Rows[n],
           n = "receipts" => RowsOf("receipts") \subseteq rows /\ (index => Distinct(rows))
    PROVE  Orderly'
<1>1. /\ process[p] = Serving /\ writer = NoProcess /\ n \in DOMAIN tables /\ n \in Names
      /\ UNCHANGED <<index, process, consent, overtaken, alone, deadEnds>>
      /\ DOMAIN tables' = DOMAIN tables /\ tables'[n] = [tables[n] EXCEPT !.rows = rows]
      /\ \A m \in DOMAIN tables : m # n => tables'[m] = tables[m]
      /\ owed'[n] = rows /\ \A m \in Names : m # n => owed'[m] = owed[m]
  BY WriteBasics
<1>2. Progressed(12)
  <2>1. Reached(process[p]) = 12
    BY <1>1 DEF Reached, Down, Serving
  <2> QED
    BY <2>1 DEF Orderly
<1>3. /\ tables'[n].ids = tables[n].ids /\ tables'[n].shape = tables[n].shape
      /\ tables'[n].columns = tables[n].columns /\ tables'[n].rows = rows
  <2>1. PICK t : t = tables[n]
    OBVIOUS
  <2>2. t \in Table(n)
    BY <1>1, <2>1 DEF Basics, TypeInv, MigrationTypeOK
  <2>3. tables'[n] = [t EXCEPT !.rows = rows]
    BY <1>1, <2>1
  <2> QED
    BY <2>1, <2>2, <2>3 DEF Table
<1>4. \A m \in DOMAIN tables : /\ tables'[m].ids = tables[m].ids /\ tables'[m].shape = tables[m].shape
                               /\ tables'[m].columns = tables[m].columns
  BY <1>1, <1>3
<1>5. IndexKept /\ "receipts" \in DOMAIN tables /\ "tests" \in DOMAIN tables
  BY <1>2 DEF Progressed, IndexKept, Names
<1>6. n # "receipts" => RowsOf("receipts")' = RowsOf("receipts")
  BY <1>1, <1>5 DEF RowsOf
<1>7. n = "receipts" => RowsOf("receipts")' = rows
  BY <1>1, <1>3 DEF RowsOf
<1>8. IndexKept'
  <2>1. CASE index
    BY <1>1, <2>1 DEF IndexKept
  <2>2. CASE ~index
    <3>1. PICK before, after : before = RowsOf("receipts") /\ after = RowsOf("receipts")'
      OBVIOUS
    <3>2. before \subseteq after /\ ~Distinct(before)
      BY <1>5, <1>6, <1>7, <2>2, <3>1 DEF IndexKept
    <3>3. ~Distinct(after)
      BY <3>2 DEF Distinct
    <3> QED
      BY <3>1, <3>3 DEF IndexKept, Distinct
  <2> QED
    BY <2>1, <2>2
<1>9. Grows
  BY <1>1, <1>4, <1>8 DEF Grows, Basics, TypeInv, MigrationTypeOK
<1>10. SoundTables'
  <2>1. tables["tests"].shape = "new"
    BY <1>2 DEF Progressed
  <2>2. "lesson_id" \in tables'["tests"].columns
    BY <1>4, <1>5, <2>1 DEF Orderly, SoundTables
  <2> QED
    BY <1>1, <1>4, <2>2 DEF Orderly, SoundTables, OneKindOfIds
<1>11. Owed'
  <2>1. \A m \in Names : overtaken \/ owed'[m] \subseteq RowsOf(m)'
    <3> SUFFICES ASSUME NEW m \in Names, ~overtaken
                 PROVE  owed'[m] \subseteq RowsOf(m)'
      OBVIOUS
    <3>1. CASE m = n
      BY <1>1, <1>3, <3>1 DEF RowsOf
    <3>2. CASE m # n
      BY <1>1, <3>2 DEF Orderly, Owed, DataSurvives, RowsOf
    <3> QED
      BY <3>1, <3>2
  <2>2. \A m \in DOMAIN tables' : tables'[m].ids = "text"
    BY <1>1, <1>2, <1>4 DEF Progressed
  <2> QED
    BY <1>1, <2>1, <2>2 DEF Owed, DataSurvives
<1>12. ASSUME NEW q \in Processes
       PROVE  Progressed(Reached(process[q]))' /\ Halfway(process[q])'
  <2>1. PICK r : r = process[q]
    OBVIOUS
  <2>2. r \in States /\ Progressed(Reached(r)) /\ Halfway(r)
    BY <2>1 DEF Orderly, Basics, TypeInv, States
  <2>3. r.stage \notin InTransaction
    BY <1>1, <2>1, MigrationAssumption DEF Basics, DraftInv
  <2>4. Progressed(Reached(r))' /\ Halfway(r)'
    BY <1>9, <2>2, <2>3, GrowthKeeps DEF Kept
  <2> QED
    BY <1>1, <2>1, <2>4 DEF Progressed, Halfway, Reached
<1>13. ASSUME NEW q \in alone'
       PROVE  Undisturbed(process[q])'
  <2>1. PICK r : r = process[q]
    OBVIOUS
  <2>2. Undisturbed(r)
    BY <1>1, <2>1 DEF Orderly
  <2>3. r.stage = "rename" => Migrate[r.at].on \in DOMAIN tables
    <3>1. q \in Processes /\ r \in States
      BY <1>1, <2>1 DEF Basics, TypeInv, MigrationTypeOK, States
    <3>2. r.stage = "rename" => r \in Task /\ r.at \in {8, 9} /\ Reached(r) = r.at
      BY <3>1, StateFacts, Kinds
    <3>3. r.stage = "rename" => DOMAIN tables = Names /\ Migrate[r.at].on \in Names
      BY <2>1, <3>1, <3>2, RebuildSteps DEF Orderly, Progressed, Names
    <3> QED
      BY <3>3
  <2>4. r.stage = "act" /\ r.at = 10 => Distinct(RowsOf("receipts"))'
    <3>1. PICK before, after : before = RowsOf("receipts") /\ after = RowsOf("receipts")'
      OBVIOUS
    <3>2. r.stage = "act" /\ r.at = 10 => Distinct(before)
      BY <2>2, <3>1 DEF Undisturbed
    <3>3. Distinct(before) => index
      BY <1>5, <3>1 DEF IndexKept
    <3>4. Distinct(before) => Distinct(after)
      BY <1>6, <1>7, <3>1, <3>3
    <3> QED
      BY <3>1, <3>2, <3>4 DEF Distinct
  <2>5. Undisturbed(r)'
    BY <1>1, <1>4, <2>2, <2>3, <2>4 DEF Undisturbed, HasColumn
  <2> QED
    BY <1>1, <2>1, <2>5 DEF Undisturbed
<1> QED
  BY <1>10, <1>11, <1>12, <1>13 DEF Orderly

-----------------------------------------------------------------------------
(***************************************************************************)
(* The invariant.                                                          *)
(***************************************************************************)

\* A step of the migration: order is kept, and who migrates alone neither fails
\* nor overtakes anybody.
LEMMA MigrationStepInv ==
    ASSUME Basics, deadEnds = {}, ~overtaken => Orderly, NEW p \in Processes, MigrationStep(p)
    PROVE  /\ Basics' /\ deadEnds' = {}
           /\ ~overtaken' => Orderly'
           /\ ~overtaken /\ p \in alone => ~overtaken'
           /\ Migrating(p)
<1> USE DEF MigrationStep
<1>0. UNCHANGED <<consent, stops, owed, alone>>
  OBVIOUS
<1>1. CASE Guard(p)
  <2>1. Basics' /\ UNCHANGED <<overtaken, deadEnds>>
    BY <1>0, <1>1, GuardBasics
  <2>2. ~overtaken => Orderly'
    BY <1>0, <1>1, GuardOrderly
  <2>3. Migrating(p)
    BY <1>1, AtPlace DEF Guard, Basics
  <2> QED
    BY <2>1, <2>2, <2>3
<1>2. CASE DropTable(p)
  <2>1. PICK k, n : k = process[p].k /\ n = DropOrder(k)
    OBVIOUS
  <2>2. /\ Basics' /\ UNCHANGED deadEnds /\ process[p].stage = "drop"
        /\ (overtaken => overtaken')
        /\ (overtaken' => overtaken \/ (n \in DOMAIN tables /\ tables[n].ids = "text"))
    <3>1. Basics'
      BY <1>0, <1>2, <2>1, DropBasics
    <3>2. UNCHANGED deadEnds /\ process[p].stage = "drop"
      BY <1>0, <1>2, <2>1, DropBasics
    <3>3. overtaken' = (overtaken \/ (n \in DOMAIN tables /\ tables[n].ids = "text"))
      BY <1>2, <2>1 DEF DropTable
    <3> QED
      BY <3>1, <3>2, <3>3
  <2>3. ~overtaken /\ ~overtaken' => Orderly'
    BY <1>0, <1>2, DropOrderly
  <2>4. ~overtaken /\ p \in alone => ~overtaken'
    <3> SUFFICES ASSUME ~overtaken, p \in alone, n \in DOMAIN tables
                 PROVE  tables[n].ids # "text"
      BY <2>2
    <3>1. "users" \in DOMAIN tables /\ tables["users"].ids = "integer"
      BY <2>2 DEF Orderly, Undisturbed
    <3>2. \A m \in DOMAIN tables : tables[m].ids = "integer"
      BY <3>1 DEF Orderly, SoundTables, OneKindOfIds
    <3> QED
      BY <3>2
  <2>5. Migrating(p)
    BY <1>2, AtPlace DEF DropTable, Basics
  <2> QED
    BY <2>2, <2>3, <2>4, <2>5
<1>3. CASE CreateTable(p)
  <2>1. Basics' /\ UNCHANGED <<overtaken, deadEnds>>
    <3>1. PICK k, n : k = process[p].k /\ n = CreateOrder(k)
      OBVIOUS
    <3> QED
      BY <1>0, <1>3, <3>1, CreateBasics
  <2>2. ~overtaken => Orderly'
    BY <1>0, <1>3, CreateOrderly
  <2>3. Migrating(p)
    BY <1>3, AtPlace DEF CreateTable, Basics
  <2> QED
    BY <2>1, <2>2, <2>3
<1>4. CASE LookForColumn(p)
  <2>1. Basics' /\ UNCHANGED <<overtaken, deadEnds>>
    <3>1. PICK i : i = process[p].at
      OBVIOUS
    <3> QED
      BY <1>0, <1>4, <3>1, LookForColumnBasics
  <2>2. ~overtaken => Orderly'
    BY <1>0, <1>4, LookForColumnOrderly
  <2>3. Migrating(p)
    BY <1>4, AtPlace DEF LookForColumn, Basics
  <2> QED
    BY <2>1, <2>2, <2>3
<1>5. CASE AddColumn(p)
  <2>1. Basics' /\ (UNCHANGED <<overtaken, deadEnds>> \/ Fails(p))
    <3>1. PICK i, n, column : i = process[p].at /\ n = Migrate[i].on /\ column = Migrate[i].column
      OBVIOUS
    <3> QED
      BY <1>0, <1>5, <3>1, AddColumnBasics DEF Added
  <2>2. ~overtaken => Orderly' /\ (p \in alone => ~Fails(p))
    BY <1>0, <1>5, AddColumnOrderly
  <2>3. Migrating(p)
    BY <1>5, AtPlace DEF AddColumn, Basics
  <2>4. UNCHANGED overtaken /\ deadEnds' = {}
    BY <2>1, <2>2 DEF Fails
  <2> QED
    BY <2>1, <2>2, <2>3, <2>4
<1>6. CASE LookAtShape(p)
  <2>1. Basics' /\ UNCHANGED <<overtaken, deadEnds>>
    <3>1. PICK i, n, k : i = process[p].at /\ n = Migrate[i].on
                         /\ k = (IF HasColumn(n, "lesson_id") THEN 1 ELSE 0)
      OBVIOUS
    <3> QED
      BY <1>0, <1>6, <3>1, LookAtShapeBasics
  <2>2. ~overtaken => Orderly'
    BY <1>0, <1>6, LookAtShapeOrderly
  <2>3. Migrating(p)
    BY <1>6, AtPlace DEF LookAtShape, Basics
  <2> QED
    BY <2>1, <2>2, <2>3
<1>7. CASE RenameTable(p)
  <2>1. Basics' /\ (overtaken => overtaken') /\ (UNCHANGED deadEnds \/ Fails(p))
    <3>1. Basics' /\ ((UNCHANGED deadEnds /\ (overtaken => overtaken')) \/ Fails(p))
      BY <1>0, <1>7, RenameBasics
    <3>2. Fails(p) => UNCHANGED overtaken
      BY DEF Fails
    <3> QED
      BY <3>1, <3>2
  <2>2. ~overtaken => (~overtaken' => Orderly') /\ UNCHANGED deadEnds /\ (p \in alone => ~overtaken')
    BY <1>0, <1>7, RenameOrderly
  <2>3. Migrating(p)
    BY <1>7, AtPlace DEF RenameTable, Basics
  <2>4. deadEnds' = {}
    BY <2>1, <2>2 DEF Fails
  <2> QED
    BY <2>1, <2>2, <2>3, <2>4
<1>8. CASE CreateNew(p)
  <2>1. Basics' /\ UNCHANGED <<overtaken, deadEnds>>
    <3>1. Basics'
      BY <1>0, <1>8, CreateNewBasics
    <3> QED
      BY <1>8, <3>1 DEF CreateNew, Statement
  <2>2. ~overtaken => Orderly'
    BY <1>0, <1>8, CreateNewOrderly
  <2>3. Migrating(p)
    BY <1>8, AtPlace DEF CreateNew, Basics
  <2> QED
    BY <2>1, <2>2, <2>3
<1>9. CASE CopyRows(p)
  <2>1. Basics' /\ (UNCHANGED <<overtaken, deadEnds>> \/ Fails(p))
    BY <1>0, <1>9, CopyRowsBasics
  <2>2. ~overtaken => Orderly' /\ UNCHANGED <<overtaken, deadEnds>>
    BY <1>0, <1>9, CopyRowsOrderly
  <2>3. Migrating(p)
    BY <1>9, AtPlace DEF CopyRows, Basics
  <2>4. UNCHANGED overtaken /\ deadEnds' = {}
    BY <2>1, <2>2 DEF Fails
  <2> QED
    BY <2>1, <2>2, <2>3, <2>4
<1>10. CASE DropOld(p)
  <2>1. Basics' /\ UNCHANGED <<overtaken, deadEnds>>
    <3>1. Basics'
      BY <1>0, <1>10, DropOldBasics
    <3> QED
      BY <1>10, <3>1 DEF DropOld, Statement
  <2>2. ~overtaken => Orderly'
    BY <1>0, <1>10, DropOldOrderly
  <2>3. Migrating(p)
    BY <1>10, AtPlace DEF DropOld, Basics
  <2> QED
    BY <2>1, <2>2, <2>3
<1>11. CASE Commit(p)
  <2>1. Basics' /\ UNCHANGED <<overtaken, deadEnds>>
    BY <1>0, <1>11, CommitBasics
  <2>2. ~overtaken => Orderly'
    BY <1>0, <1>11, CommitOrderly
  <2>3. Migrating(p)
    BY <1>11, AtPlace DEF Commit, Basics
  <2> QED
    BY <2>1, <2>2, <2>3
<1>12. CASE LookForDuplicates(p)
  <2>1. Basics' /\ (UNCHANGED <<overtaken, deadEnds>> \/ Fails(p))
    BY <1>0, <1>12, LookForDuplicatesBasics
  <2>2. ~overtaken => Orderly' /\ UNCHANGED <<overtaken, deadEnds>>
    BY <1>0, <1>12, LookForDuplicatesOrderly
  <2>3. Migrating(p)
    BY <1>12, AtPlace DEF LookForDuplicates, Basics
  <2>4. UNCHANGED overtaken /\ deadEnds' = {}
    BY <2>1, <2>2 DEF Fails
  <2> QED
    BY <2>1, <2>2, <2>3, <2>4
<1>13. CASE CreateIndex(p)
  <2>1. Basics' /\ (UNCHANGED <<overtaken, deadEnds>> \/ Fails(p))
    BY <1>0, <1>13, CreateIndexBasics
  <2>2. ~overtaken => Orderly' /\ (p \in alone => ~Fails(p))
    BY <1>0, <1>13, CreateIndexOrderly
  <2>3. Migrating(p)
    BY <1>13, AtPlace DEF CreateIndex, Basics
  <2>4. UNCHANGED overtaken /\ deadEnds' = {}
    BY <2>1, <2>2 DEF Fails
  <2> QED
    BY <2>1, <2>2, <2>3, <2>4
<1>14. CASE Seed(p)
  <2>1. Basics' /\ UNCHANGED <<overtaken, deadEnds>>
    BY <1>0, <1>14, SeedBasics
  <2>2. ~overtaken => Orderly'
    BY <1>0, <1>14, SeedOrderly
  <2>3. Migrating(p)
    BY <1>14, AtPlace DEF Seed, Basics
  <2> QED
    BY <2>1, <2>2, <2>3
<1> QED
  BY <1>1, <1>2, <1>3, <1>4, <1>5, <1>6, <1>7, <1>8, <1>9, <1>10, <1>11, <1>12, <1>13, <1>14

LEMMA OvertakenForGood ==
    ASSUME Basics, NEW p \in Processes, MigrationStep(p)
    PROVE  overtaken => overtaken'
<1>1. CASE DropTable(p)
  <2>1. PICK n : overtaken' = (overtaken \/ (n \in DOMAIN tables /\ tables[n].ids = "text"))
    BY <1>1 DEF DropTable
  <2> QED
    BY <2>1
<1>2. CASE RenameTable(p)
  BY <1>2 DEF RenameTable, Fails
<1>3. CASE Guard(p) \/ CreateTable(p) \/ LookForColumn(p) \/ LookAtShape(p) \/ Seed(p) \/ Commit(p)
  BY <1>3 DEF Guard, CreateTable, LookForColumn, LookAtShape, Seed, Commit
<1>4. CASE CreateNew(p) \/ CopyRows(p) \/ DropOld(p)
  BY <1>4 DEF CreateNew, CopyRows, DropOld, Fails
<1>5. CASE AddColumn(p) \/ LookForDuplicates(p) \/ CreateIndex(p)
  BY <1>5 DEF AddColumn, LookForDuplicates, CreateIndex, Fails
<1> QED
  BY <1>1, <1>2, <1>3, <1>4, <1>5 DEF MigrationStep

LEMMA InitInv == Init => Inv
<1> SUFFICES ASSUME Init
             PROVE  Inv
  OBVIOUS
<1>1. PICK found \in Databases :
        /\ tables = found /\ consent \in BOOLEAN
        /\ owed = [n \in Names |->
              IF n \in DOMAIN found /\ ~(found[n].ids = "integer" /\ consent) THEN found[n].rows ELSE {}]
  BY DEF Init
<1>2. /\ index = FALSE /\ writer = NoProcess /\ process = [p \in Processes |-> Down] /\ stops = 0
      /\ overtaken = FALSE /\ alone = {} /\ deadEnds = {}
  BY DEF Init
<1>3. /\ DOMAIN tables \subseteq Names /\ \A n \in DOMAIN tables : tables[n] \in Table(n)
      /\ DOMAIN tables # {} => "users" \in DOMAIN tables
      /\ \A m, n \in DOMAIN tables : tables[m].ids = tables[n].ids
      /\ \A n \in DOMAIN tables \cap {"users", "receipts"} : tables[n].shape = "new"
      /\ "tests" \in DOMAIN tables =>
          /\ tables["tests"].shape = "new" => "lesson_id" \in tables["tests"].columns
          /\ "lesson_id" \notin tables["tests"].columns => tables["tests"].rows \subseteq TestIds \X {FALSE}
  BY <1>1, DatabasesAssumption
<1>4. \A p \in Processes : process[p] = Down
  BY <1>2
<1>5. TypeInv
  <2>1. process \in [Processes -> {Down, Serving} \cup Task]
    BY <1>2
  <2>2. stops \in 0..MaxStops
    BY <1>2, MigrationAssumption
  <2>3. DOMAIN owed = Names
    BY <1>1
  <2> QED
    BY <1>1, <1>2, <1>3, <2>1, <2>2, <2>3 DEF TypeInv, MigrationTypeOK
<1>6. DraftInv /\ \A p \in Processes : process[p].stage # "drop"
  BY <1>2, <1>4, MigrationAssumption DEF DraftInv, Down, InTransaction
<1>7. SoundTables
  <2>1. OneKindOfIds
    <3>1. \A n \in DOMAIN tables : tables[n].ids \in {"integer", "text"}
      BY <1>3 DEF Table
    <3> QED
      BY <1>3, <3>1 DEF OneKindOfIds
  <2> QED
    BY <1>3, <2>1 DEF SoundTables
<1>8. Owed
  BY <1>1, <1>3 DEF Owed, DataSurvives, RowsOf
<1>9. \A p \in Processes : Progressed(Reached(process[p])) /\ Halfway(process[p])
  BY <1>4 DEF Reached, Progressed, Halfway, Down, InTransaction
<1> QED
  BY <1>2, <1>5, <1>6, <1>7, <1>8, <1>9 DEF Inv, Basics, Orderly

LEMMA ServeWrites ==
    ASSUME Basics, NEW p \in Processes, Serve(p)
    PROVE  \E n, rows : /\ Write(p, n, rows) /\ rows \subseteq Rows[n]
                        /\ n = "receipts" => RowsOf("receipts") \subseteq rows /\ (index => Distinct(rows))
<1>1. \A n \in Names : RowsOf(n) \subseteq Rows[n]
  BY DEF Basics, TypeInv, MigrationTypeOK, RowsOf, Table
<1>2. Rows["payments"] = PaymentIds /\ Rows["tests"] = TestIds \X BOOLEAN
      /\ Rows["receipts"] = ReceiptIds \X (Keys \cup {NoKey})
  BY DEF Rows
<1>3. CASE \E x \in PaymentIds : TakePayment(p, x)
  <2>1. PICK x \in PaymentIds : TakePayment(p, x)
    BY <1>3
  <2>2. PICK rows : rows = RowsOf("payments") \cup {x}
    OBVIOUS
  <2>3. Write(p, "payments", rows) /\ rows \subseteq Rows["payments"]
    BY <1>1, <1>2, <2>1, <2>2 DEF TakePayment, Names
  <2> QED
    BY <2>3
<1>4. CASE \E x \in TestIds : LinkTest(p, x)
  <2>1. PICK x \in TestIds : LinkTest(p, x)
    BY <1>4
  <2>2. PICK rows : rows = {r \in RowsOf("tests") : r[1] # x} \cup {<<x, TRUE>>}
    OBVIOUS
  <2>3. Write(p, "tests", rows)
    BY <2>1, <2>2 DEF LinkTest
  <2>4. rows \subseteq Rows["tests"]
    BY <1>1, <1>2, <2>2 DEF Names
  <2> QED
    BY <2>3, <2>4
<1>5. CASE \E x \in ReceiptIds, key \in Keys : ApproveReceipt(p, x, key)
  <2>1. PICK x \in ReceiptIds, key \in Keys : ApproveReceipt(p, x, key)
    BY <1>5
  <2>2. PICK rows : rows = RowsOf("receipts") \cup {<<x, key>>}
    OBVIOUS
  <2>3. Write(p, "receipts", rows) /\ (index => Distinct(rows)) /\ RowsOf("receipts") \subseteq rows
    BY <2>1, <2>2 DEF ApproveReceipt
  <2>4. rows \subseteq Rows["receipts"]
    BY <1>1, <1>2, <2>2 DEF Names
  <2> QED
    BY <2>3, <2>4
<1> QED
  BY <1>3, <1>4, <1>5 DEF Serve

LEMMA NextInv == Inv /\ [Next]_vars => Inv'
<1> SUFFICES ASSUME Inv, [Next]_vars
             PROVE  Inv'
  OBVIOUS
<1>1. ASSUME NEW p \in Processes, Start(p)
      PROVE  Inv'
  <2>1. /\ Basics' /\ Moved(p, Working("look", 1, 1))
        /\ UNCHANGED <<tables, index, consent, owed, overtaken, deadEnds>> /\ alone' \subseteq {p}
    BY <1>1, StartBasics DEF Inv
  <2>2. PICK s : s = Working("look", 1, 1)
    OBVIOUS
  <2>3. ~overtaken => Orderly'
    BY <2>1, <2>2, RestOrderly DEF Inv
  <2> QED
    BY <2>1, <2>3 DEF Inv
<1>2. ASSUME NEW p \in Processes, MigrationStep(p)
      PROVE  Inv'
  BY <1>2, MigrationStepInv DEF Inv
<1>3. ASSUME NEW p \in Processes, Stop(p)
      PROVE  Inv'
  <2>1. /\ Basics' /\ Moved(p, Down)
        /\ UNCHANGED <<tables, index, consent, owed, overtaken, alone, deadEnds>>
    BY <1>3, StopBasics DEF Inv
  <2>2. ~overtaken => Orderly'
    BY <2>1, RestOrderly DEF Inv
  <2> QED
    BY <2>1, <2>2 DEF Inv
<1>4. ASSUME NEW p \in Processes, Serve(p)
      PROVE  Inv'
  <2>1. PICK n, rows :
          /\ Write(p, n, rows) /\ rows \subseteq Rows[n]
          /\ n = "receipts" => RowsOf("receipts") \subseteq rows /\ (index => Distinct(rows))
    BY <1>4, ServeWrites DEF Inv
  <2>2. Basics' /\ UNCHANGED <<overtaken, deadEnds>>
    BY <2>1, WriteBasics DEF Inv
  <2>3. ~overtaken => Orderly'
    BY <2>1, WriteOrderly DEF Inv
  <2> QED
    BY <2>2, <2>3 DEF Inv
<1>5. ASSUME UNCHANGED vars
      PROVE  Inv'
  <2>1. /\ UNCHANGED <<tables, index, writer, draft, process, consent, stops>>
        /\ UNCHANGED <<owed, overtaken, alone, deadEnds>>
    BY <1>5 DEF vars, file, ghosts
  <2>2. TypeInv'
    BY <2>1 DEF Inv, Basics, TypeInv, MigrationTypeOK
  <2>3. DraftInv'
    <3> SUFFICES ASSUME NEW q \in Processes
                 PROVE  /\ process'[q].stage \in InTransaction <=> writer' = q
                        /\ writer' = q => /\ On(q)' \in DOMAIN tables'
                                          /\ draft' = DraftOf(On(q), process[q].stage, process[q].k)'
      BY DEF DraftInv
    <3> QED
      BY <2>1, SameDraft DEF Inv
  <2>4. Basics'
    BY <2>1, <2>2, <2>3 DEF Inv, Basics, Migrating
  <2>5. ~overtaken => SoundTables' /\ Owed'
    BY <2>1 DEF SoundTables, OneKindOfIds, Owed, DataSurvives, RowsOf, Inv, Orderly
  <2>6. ASSUME NEW q \in Processes, ~overtaken
        PROVE  Progressed(Reached(process[q]))' /\ Halfway(process[q])'
    <3>1. PICK r : r = process[q]
      OBVIOUS
    <3>2. r \in States /\ Progressed(Reached(r)) /\ Halfway(r)
      BY <2>6, <3>1 DEF Inv, Orderly, Basics, TypeInv, States
    <3>3. Progressed(Reached(r))'
      BY <2>1, <3>2, SameProgress DEF Reached
    <3>4. Halfway(r)'
      BY <2>1, <3>2 DEF Halfway, HasColumn
    <3> QED
      BY <2>1, <3>1, <3>3, <3>4 DEF Progressed, Halfway, Reached
  <2>7. ASSUME NEW q \in alone, ~overtaken
        PROVE  Undisturbed(process[q])'
    <3>1. PICK r : r = process[q]
      OBVIOUS
    <3>2. Undisturbed(r)
      BY <2>7, <3>1 DEF Inv, Orderly
    <3>3. Undisturbed(r)'
      BY <2>1, <3>2 DEF Undisturbed, HasColumn, Distinct, RowsOf
    <3> QED
      BY <2>1, <3>1, <3>3 DEF Undisturbed
  <2>8. ~overtaken => Orderly'
    BY <2>1, <2>5, <2>6, <2>7 DEF Orderly
  <2> QED
    BY <2>1, <2>4, <2>8 DEF Inv
<1> QED
  BY <1>1, <1>2, <1>3, <1>4, <1>5 DEF Next

LEMMA InvAlways == Spec => []Inv
BY InitInv, NextInv, PTL DEF Spec


-----------------------------------------------------------------------------
(***************************************************************************)
(* What follows.                                                           *)
(***************************************************************************)

LEMMA ColumnsReached ==
    ASSUME Progressed(12), SoundTables
    PROVE  \A n \in Names : Columns[n] \subseteq tables[n].columns
<1>1. DOMAIN tables = Names /\ tables["tests"].shape = "new"
  BY DEF Progressed
<1>2. \A j \in 3..7 : Migrate[j].column \in tables[Migrate[j].on].columns
  BY DEF Progressed, HasColumn
<1>3. /\ "phone" \in tables["users"].columns
      /\ "contact_phone" \in tables["payments"].columns
      /\ "receipt_transaction_key" \in tables["receipts"].columns
      /\ "payment_type" \in tables["payments"].columns
      /\ "premium_course_id" \in tables["payments"].columns
  <2>1. /\ Migrate[3].column \in tables[Migrate[3].on].columns
        /\ Migrate[4].column \in tables[Migrate[4].on].columns
        /\ Migrate[5].column \in tables[Migrate[5].on].columns
        /\ Migrate[6].column \in tables[Migrate[6].on].columns
        /\ Migrate[7].column \in tables[Migrate[7].on].columns
    BY <1>2
  <2> QED
    BY <2>1, MigrateSteps, StepParts
<1>4. "lesson_id" \in tables["tests"].columns
  BY <1>1 DEF SoundTables, Names
<1> QED
  BY <1>3, <1>4 DEF Columns, Names

LEMMA InvSafe == Inv => MigrationInv
<1> SUFFICES ASSUME Inv
             PROVE  MigrationInv
  OBVIOUS
<1>1. MigrationTypeOK
  BY DEF Inv, Basics, TypeInv
<1>2. DataSurvives
  BY DEF Inv, Orderly, Owed, DataSurvives
<1>3. ASSUME NEW p \in Processes, process[p] = Serving, ~overtaken
      PROVE  /\ DOMAIN tables = Names
             /\ \A n \in Names : /\ tables[n].ids = "text" /\ tables[n].shape = "new"
                                 /\ Columns[n] \subseteq tables[n].columns
             /\ index \/ ~Distinct(RowsOf("receipts"))
  <2>1. Progressed(12) /\ SoundTables
    BY <1>3 DEF Inv, Orderly, Reached, Down, Serving
  <2>2. DOMAIN tables = Names /\ \A n \in Names : tables[n].ids = "text"
    BY <2>1 DEF Progressed
  <2>3. tables["payments"].shape = "new" /\ tables["tests"].shape = "new"
    BY <2>1 DEF Progressed
  <2>4. tables["users"].shape = "new" /\ tables["receipts"].shape = "new"
    BY <2>1, <2>2 DEF SoundTables, Names
  <2>5. index \/ ~Distinct(RowsOf("receipts"))
    BY <2>1 DEF Progressed
  <2>6. \A n \in Names : tables[n].shape = "new"
    BY <2>3, <2>4 DEF Names
  <2> QED
    BY <2>1, <2>2, <2>5, <2>6, ColumnsReached
<1>4. ServedDatabaseIsWhole
  BY <1>3 DEF ServedDatabaseIsWhole
<1> QED
  BY <1>1, <1>2, <1>4 DEF MigrationInv

\* Rows survive every start and every stop of a start, and a process that serves
\* finds the tables whole: no integer ids, every column, the new shapes, and the
\* index on approved receipts unless some already share a key (Migrate in
\* database.go, and main, which serves only once it has returned).
THEOREM MigrationSafe == Spec => []MigrationInv
BY InvAlways, InvSafe, PTL

\* No step of a start fails where nobody else has migrated beside it: whatever
\* earlier starts left behind when they stopped, the next one gets past it.  (The
\* safety half of StartsSucceed.)
THEOREM NoDeadEnds == Spec => [](deadEnds = {})
<1>1. Inv => deadEnds = {}
  BY DEF Inv
<1> QED
  BY <1>1, InvAlways, PTL

\* A process goes by what it had read before another one's migration only while
\* two of them migrate beside each other (nothing in Migrate holds a lock from
\* the look to the statement that goes by it).
OvertakenTogether ==
    [][overtaken' # overtaken => \E p \in Processes \ alone : Migrating(p)]_vars

THEOREM OnlyBesideOthers == Spec => OvertakenTogether
<1>1. Inv /\ [Next]_vars => [overtaken' # overtaken => \E p \in Processes \ alone : Migrating(p)]_vars
  <2> SUFFICES ASSUME Inv, Next, overtaken' # overtaken
               PROVE  \E p \in Processes \ alone : Migrating(p)
    OBVIOUS
  <2>1. PICK p \in Processes : Start(p) \/ MigrationStep(p) \/ Stop(p) \/ Serve(p)
    BY DEF Next
  <2>2. CASE Start(p)
    BY <2>2 DEF Start
  <2>3. CASE MigrationStep(p)
    <3>1. Migrating(p) /\ (~overtaken /\ p \in alone => ~overtaken')
      BY <2>3, MigrationStepInv DEF Inv
    <3>2. overtaken => overtaken'
      BY <2>3, OvertakenForGood DEF Inv
    <3>3. overtaken \in BOOLEAN /\ overtaken' \in BOOLEAN
      BY <2>3, MigrationStepInv DEF Inv, Basics, TypeInv, MigrationTypeOK
    <3> QED
      BY <3>1, <3>2, <3>3
  <2>4. CASE Stop(p)
    BY <2>4 DEF Stop, ghosts
  <2>5. CASE Serve(p)
    BY <2>5 DEF Serve, TakePayment, LinkTest, ApproveReceipt, Write
  <2> QED
    BY <2>1, <2>2, <2>3, <2>4, <2>5
<1> QED
  BY <1>1, InvAlways, PTL DEF Spec, OvertakenTogether

\* One process at a time migrates: what a deployment has to see to.
OneAtATime == \A p, q \in Processes : Migrating(p) /\ Migrating(q) => p = q

\* Where it does, every row that somebody counts on survives, and what is served
\* is whole, without exception.
KeepsEverything ==
    /\ \A n \in Names : owed[n] \subseteq RowsOf(n)
    /\ ServedDatabaseIsWhole /\ ~overtaken

THEOREM OneAtATimeKeepsEverything == Spec /\ []OneAtATime => []KeepsEverything
<1> DEFINE Lone == /\ Inv /\ ~overtaken
                   /\ \A p \in Processes : Migrating(p) => p \in alone
<1>1. Init /\ Inv => Lone
  BY DEF Init, Migrating
<1>2. Lone /\ Inv' /\ OneAtATime' /\ [Next]_vars => Lone'
  <2> SUFFICES ASSUME Lone, Inv', OneAtATime', [Next]_vars
               PROVE  ~overtaken' /\ \A q \in Processes : Migrating(q)' => q \in alone'
    OBVIOUS
  <2>1. ASSUME NEW p \in Processes, Start(p)
        PROVE  ~overtaken' /\ \A q \in Processes : Migrating(q)' => q \in alone'
    <3>1. /\ process[p] = Down /\ process' = [process EXCEPT ![p] = Working("look", 1, 1)]
          /\ alone' = (IF \E q \in Processes \ {p} : Migrating(q) THEN {} ELSE {p})
          /\ overtaken' = overtaken
      BY <2>1 DEF Start
    <3>2. process'[p] = Working("look", 1, 1) /\ \A q \in Processes : q # p => process'[q] = process[q]
      BY <2>1, StartBasics, MovedProcess DEF Inv, Basics
    <3>3. Migrating(p)'
      BY <3>2 DEF Migrating, Working, Down, Serving
    <3>4. \A q \in Processes \ {p} : ~Migrating(q)'
      BY <3>3 DEF OneAtATime
    <3>5. \A q \in Processes \ {p} : ~Migrating(q)
      BY <3>2, <3>4 DEF Migrating
    <3> QED
      BY <3>1, <3>4, <3>5
  <2>2. ASSUME NEW p \in Processes, MigrationStep(p)
        PROVE  ~overtaken' /\ \A q \in Processes : Migrating(q)' => q \in alone'
    <3>1. Migrating(p) /\ (p \in alone => ~overtaken')
      BY <2>2, MigrationStepInv DEF Inv
    <3>2. p \in alone /\ alone' = alone
      BY <2>2, <3>1 DEF MigrationStep
    <3>3. \A q \in Processes : Migrating(q)' => q = p
      BY <3>2 DEF Inv, Basics
    <3> QED
      BY <3>1, <3>2, <3>3
  <2>3. ASSUME NEW p \in Processes, Stop(p)
        PROVE  ~overtaken' /\ \A q \in Processes : Migrating(q)' => q \in alone'
    <3>1. Moved(p, Down) /\ UNCHANGED <<overtaken, alone>>
      BY <2>3, StopBasics DEF Inv
    <3>2. \A q \in Processes : Migrating(q)' => Migrating(q)
      BY <3>1, MovedProcess DEF Inv, Basics, Migrating
    <3> QED
      BY <3>1, <3>2
  <2>4. ASSUME NEW p \in Processes, Serve(p)
        PROVE  ~overtaken' /\ \A q \in Processes : Migrating(q)' => q \in alone'
    <3>1. UNCHANGED <<process, overtaken, alone>>
      BY <2>4 DEF Serve, TakePayment, LinkTest, ApproveReceipt, Write
    <3> QED
      BY <3>1 DEF Migrating
  <2>5. CASE UNCHANGED vars
    BY <2>5 DEF vars, ghosts, Migrating
  <2> QED
    BY <2>1, <2>2, <2>3, <2>4, <2>5 DEF Next
<1>3. Lone => KeepsEverything
  <2> SUFFICES ASSUME Lone
               PROVE  KeepsEverything
    OBVIOUS
  <2>1. MigrationInv
    BY InvSafe
  <2> QED
    BY <2>1 DEF MigrationInv, DataSurvives, KeepsEverything
<1>4. Spec /\ []OneAtATime => []Lone
  <2> HIDE DEF Lone
  <2> QED
    BY <1>1, <1>2, InvAlways, PTL DEF Spec
<1> QED
  <2> HIDE DEF Lone
  <2> QED
    BY <1>3, <1>4, PTL

=============================================================================
