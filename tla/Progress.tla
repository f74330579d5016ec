------------------------------ MODULE Progress ------------------------------
(***************************************************************************)
(* The twelve levels: lessons, tests and assignments, the coins learning   *)
(* earns, and how a user's level rises while admins edit the catalogue     *)
(* (internal/repository/progress.go and the content half of admin.go).     *)
(***************************************************************************)
EXTENDS Naturals, FiniteSets, FiniteSetsExt

CONSTANTS
    Users,
    LevelIds,        \* rows the levels table may hold
    Lessons,         \* a lesson's number is its place in its level
    Tests,
    Assigned,        \* levels with an assignment; only the seed writes these
    LastLevel,       \* 12 in the program
    LevelNumbers,    \* numbers an admin gives to levels
    SeedLevels, SeedLessons, SeedTests,   \* the catalogue at the start
    Seeded,          \* numbers of the levels the program brings along
    MaxEdits,        \* bound: edits of the catalogue
    Missing          \* a row that does not exist

VARIABLES
    active,      \* users with an active subscription
    closed,      \* users.access_closed
    level,       \* users.current_level
    levels, lessons, tests, edits,
    watched,     \* lesson_progress rows
    passed,      \* tests of which a user has a passed attempt
    granted,     \* the unique index of coin_transactions
    coins,       \* the balance from learning
    sheet,       \* the test a user's page shows
    handing,     \* a user's assignment on its way into the table
    submitted    \* assignment_submissions: who handed in for which level

membership == <<active, closed>>
catalogue == <<levels, lessons, tests, edits>>
study == <<level, watched, passed, granted, coins>>
errands == <<handing, submitted>>
progressVars == <<membership, catalogue, study, sheet, errands>>

LevelRow == [number : LevelNumbers, live : BOOLEAN]
LessonRow == [level : LevelIds, live : BOOLEAN]
TestRow == [lesson : Lessons, live : BOOLEAN, edition : Nat]
Sheet == [test : Tests, edition : Nat]
HandIn == [step : {"checked", "stored"}, assignment : LevelIds]

ASSUME CatalogueAssumption ==
    /\ IsFiniteSet(Users) /\ IsFiniteSet(Lessons) /\ IsFiniteSet(Tests)
    /\ Lessons \subseteq Nat /\ LevelNumbers \subseteq Nat
    /\ LastLevel \in Nat \ {0} /\ MaxEdits \in Nat
    /\ Missing \notin LevelRow \union LessonRow \union TestRow \union Sheet \union HandIn
    /\ SeedLevels \in [LevelIds -> LevelRow \union {Missing}]
    /\ \A v, w \in LevelIds : SeedLevels[v] # Missing /\ SeedLevels[w] # Missing
                                /\ SeedLevels[v].number = SeedLevels[w].number => v = w
    /\ SeedLessons \in [Lessons -> LessonRow \union {Missing}]
    /\ SeedTests \in [Tests -> TestRow \union {Missing}]
    /\ \A l \in Lessons : SeedLessons[l] # Missing => SeedLevels[SeedLessons[l].level] # Missing
    /\ \A t \in Tests : SeedTests[t] # Missing => SeedLessons[SeedTests[t].lesson] # Missing

-----------------------------------------------------------------------------
(* Reads. *)

Rows(table) == {id \in DOMAIN table : table[id] # Missing}

\* The number of the level a lesson belongs to.
LevelOf(l) == levels[lessons[l].level].number

\* What canUnlockNextLevel and progressForLevel count.
LessonsOf(n) ==
    {l \in Rows(lessons) :
        LevelOf(l) = n /\ lessons[l].live /\ levels[lessons[l].level].live}

\* What testPassed counts: a live test, were its lesson archived.
TestsOf(n) ==
    {t \in Rows(tests) : tests[t].live /\ LevelOf(tests[t].lesson) = n}

\* Mutant: tests of archived lessons are counted but not offered.
OfferableLive(n) ==
    {t \in Rows(tests) :
        /\ tests[t].live /\ LevelOf(tests[t].lesson) = n
        /\ lessons[tests[t].lesson].live}

\* What getTestByLevelQuery selects from.
Offerable(n) ==
    {t \in Rows(tests) : tests[t].live /\ LevelOf(tests[t].lesson) = n}

\* The test a user is given: the first to pass still, else the first.
Offered(u, n) ==
    LET open == {t \in Offerable(n) : <<u, t>> \notin passed}
        pool == IF open # {} THEN open ELSE Offerable(n)
    IN  CHOOSE t \in pool : \A o \in pool : tests[t].lesson <= tests[o].lesson

CanAccess(u, n) ==
    u \notin closed /\ n \in 1 .. LastLevel /\ n <= level[u] /\ u \in active

AllWatched(u, n, seen) == \A l \in LessonsOf(n) : <<u, l>> \in seen

AllPassed(u, n, done) ==
    TestsOf(n) # {} /\ \A t \in TestsOf(n) : <<u, t>> \in done

\* Mutant: one test is enough, as when a level had one.
FinishedByOneTest(u, n, seen, done) ==
    /\ u \in active
    /\ LessonsOf(n) # {}
    /\ AllWatched(u, n, seen)
    /\ \E t \in TestsOf(n) : <<u, t>> \in done

Finished(u, n, seen, done) ==
    /\ u \in active
    /\ LessonsOf(n) # {}
    /\ AllWatched(u, n, seen)
    /\ AllPassed(u, n, done)

CanUnlock(u, n, seen, done) ==
    n \in 1 .. LastLevel - 1 /\ Finished(u, n, seen, done)

\* Mutant: the loop has no end at the last level.
RecalculatedToTheEnd(u, seen, done) ==
    IF level[u] > 0 /\ Finished(u, level[u], seen, done) THEN level[u] + 1 ELSE level[u]

\* Mutant: one level at a time.
RecalculatedOnce(u, seen, done) ==
    IF CanUnlock(u, level[u], seen, done) THEN level[u] + 1 ELSE level[u]

\* Where the loop of recalculateUserProgressTx stops.
Recalculated(u, seen, done) ==
    IF level[u] = 0 THEN 0
    ELSE Min({n \in level[u] .. LastLevel : ~CanUnlock(u, n, seen, done)})

\* Mutant: the tests are no unit of their own.
PercentOfLessons(u, n) ==
    LET here == LessonsOf(n) IN
    IF here = {} THEN 0
    ELSE (100 * Cardinality({l \in here : <<u, l>> \in watched})) \div Cardinality(here)

\* progressForLevel's percentage, rounded half up: a unit for each lesson,
\* one for the tests together and one for the assignment, if there is one.
Percent(u, n) ==
    LET set == {v \in Assigned \intersect Rows(levels) : levels[v].number = n}
        watchedHere == {l \in LessonsOf(n) : <<u, l>> \in watched}
        handedIn == {v \in set : <<u, v>> \in submitted}
        total == Cardinality(LessonsOf(n)) + 1 + Cardinality(set)
        done == Cardinality(watchedHere) + (IF AllPassed(u, n, passed) THEN 1 ELSE 0)
                    + Cardinality(handedIn)
    IN  (200 * done + total) \div (2 * total)

\* What progressForLevel tells a user to do next.
NextRequirement(u, n) ==
    CASE u \notin active -> "renew"
      [] u \in active /\ ~AllWatched(u, n, watched) -> "lessons"
      [] u \in active /\ AllWatched(u, n, watched) /\ ~AllPassed(u, n, passed) -> "test"
      [] OTHER -> IF n >= LastLevel THEN "master" ELSE "ready"

-----------------------------------------------------------------------------
(* Learning. *)

\* Mutant: the index does not hold an award back.
AwardAgain(u, amount, source) ==
    /\ granted' = granted \union {source}
    /\ coins' = [coins EXCEPT ![u] = @ + amount]

\* AddCoinsTx: INSERT OR IGNORE against the unique index.
Award(u, amount, source) ==
    /\ granted' = granted \union {source}
    /\ coins' = IF source \in granted THEN coins ELSE [coins EXCEPT ![u] = @ + amount]

MarkLessonWatched(u, l) ==
    /\ l \in Rows(lessons) /\ lessons[l].live
    /\ CanAccess(u, LevelOf(l))
    /\ watched' = watched \union {<<u, l>>}
    /\ Award(u, 5, <<u, "lesson_watched", l>>)
    /\ level' = [level EXCEPT ![u] = Recalculated(u, watched', passed)]
    /\ UNCHANGED <<membership, catalogue, passed, sheet, errands>>

GetTest(u, n) ==
    /\ CanAccess(u, n)
    /\ Offerable(n) # {}
    /\ LET t == Offered(u, n) IN
        sheet' = [sheet EXCEPT ![u] = [test |-> t, edition |-> tests[t].edition]]
    /\ UNCHANGED <<membership, catalogue, study, errands>>

\* Answers name questions by id, and an edit gives a test new questions, at least
\* one, of which at least 1 % must be right: answers to an older edition fail it.
Answers(u, t) == sheet[u] = [test |-> t, edition |-> tests[t].edition]

\* The test is looked up again at submission; right says whether enough of
\* the answers are right for the questions they were given to.
SubmitTest(u, n, right) ==
    /\ CanAccess(u, n)
    /\ Offerable(n) # {}
    /\ LET t == Offered(u, n) IN
        IF right /\ Answers(u, t)
        THEN /\ passed' = passed \union {<<u, t>>}
             /\ Award(u, 20, <<u, "test_passed", t>>)
        ELSE UNCHANGED <<passed, granted, coins>>
    /\ level' = [level EXCEPT ![u] = Recalculated(u, watched, passed')]
    /\ UNCHANGED <<membership, catalogue, watched, sheet, errands>>

\* Handing in an assignment checks, inserts and recalculates separately.
CheckAssignment(u, n) ==
    /\ handing[u] = Missing
    /\ CanAccess(u, n)
    /\ \E v \in Assigned \intersect Rows(levels) :
        /\ levels[v].number = n
        /\ handing' = [handing EXCEPT ![u] = [step |-> "checked", assignment |-> v]]
    /\ UNCHANGED <<membership, catalogue, study, sheet, submitted>>

StoreSubmission(u) ==
    /\ handing[u] # Missing /\ handing[u].step = "checked"
    /\ handing' = [handing EXCEPT ![u].step = "stored"]
    /\ submitted' = submitted \union {<<u, handing[u].assignment>>}
    /\ UNCHANGED <<membership, catalogue, study, sheet>>

RecalculateUserProgress(u) ==
    /\ handing[u] # Missing /\ handing[u].step = "stored"
    /\ handing' = [handing EXCEPT ![u] = Missing]
    /\ level' = [level EXCEPT ![u] = Recalculated(u, watched, passed)]
    /\ UNCHANGED <<membership, catalogue, watched, passed, granted, coins, sheet, submitted>>

\* The request's context is cancelled between two of its steps.
BreakOff(u) ==
    /\ handing[u] # Missing
    /\ handing' = [handing EXCEPT ![u] = Missing]
    /\ UNCHANGED <<membership, catalogue, study, sheet, submitted>>

-----------------------------------------------------------------------------
(* Membership, as Payments has it: an approved payment opens level 1, a     *)
(* bonus or a gift adds days only, and days run out.                        *)

SubscriptionBought(u) ==
    /\ active' = active \union {u}
    /\ level' = [level EXCEPT ![u] = IF @ < 1 THEN 1 ELSE @]
    /\ UNCHANGED <<closed, catalogue, watched, passed, granted, coins, sheet, errands>>

SubscriptionGiven(u) ==
    /\ active' = active \union {u}
    /\ UNCHANGED <<closed, catalogue, study, sheet, errands>>

SubscriptionEnds(u) ==
    /\ active' = active \ {u}
    /\ UNCHANGED <<closed, catalogue, study, sheet, errands>>

SetUserAccessState(u) ==
    /\ closed' \in {closed \union {u}, closed \ {u}}
    /\ UNCHANGED <<active, catalogue, study, sheet, errands>>

-----------------------------------------------------------------------------
(* The catalogue.  No edit recalculates anybody's progress.                 *)

Edit ==
    /\ edits < MaxEdits
    /\ edits' = edits + 1
    /\ UNCHANGED <<membership, study, sheet, errands>>

\* Creating a level or changing its number or whether it is live.
UpsertLevel(v, row) ==
    /\ \A w \in Rows(levels) \ {v} : levels[w].number # row.number
    /\ levels' = [levels EXCEPT ![v] = row]
    /\ UNCHANGED <<lessons, tests>>
    /\ Edit

UpsertLesson(l, row) ==
    /\ row.level \in Rows(levels)
    /\ lessons' = [lessons EXCEPT ![l] = row]
    /\ UNCHANGED <<levels, tests>>
    /\ Edit

\* Without an id, a test of the lesson that has one already replaces it.
CreateTest(t, l, live) ==
    LET of == {o \in Rows(tests) : tests[o].lesson = l} IN
    /\ l \in Rows(lessons)
    /\ IF of = {} THEN tests[t] = Missing ELSE t \in of
    /\ tests' = [tests EXCEPT ![t] = [lesson |-> l, live |-> live, edition |-> edits + 1]]
    /\ UNCHANGED <<levels, lessons>>
    /\ Edit

\* With an id the test may move to a lesson that has none.
UpdateTest(t, l, live) ==
    /\ t \in Rows(tests) /\ l \in Rows(lessons)
    /\ \A o \in Rows(tests) \ {t} : tests[o].lesson # l
    /\ tests' = [tests EXCEPT ![t] = [lesson |-> l, live |-> live, edition |-> edits + 1]]
    /\ UNCHANGED <<levels, lessons>>
    /\ Edit

DeleteLevel(v) ==
    /\ v \in Rows(levels)
    /\ levels' = [levels EXCEPT ![v].live = FALSE]
    /\ UNCHANGED <<lessons, tests>>
    /\ Edit

DeleteLesson(l) ==
    /\ l \in Rows(lessons)
    /\ lessons' = [lessons EXCEPT ![l].live = FALSE]
    /\ UNCHANGED <<levels, tests>>
    /\ Edit

DeleteTest(t) ==
    /\ t \in Rows(tests)
    /\ tests' = [tests EXCEPT ![t].live = FALSE]
    /\ UNCHANGED <<levels, lessons>>
    /\ Edit

\* Every start of the program writes the levels it knows, live, over what
\* admins made of them. That it adds those renumbered meanwhile is left out.
seedLevels ==
    /\ Seeded \subseteq {levels[v].number : v \in Rows(levels)}
    /\ levels' = [v \in LevelIds |->
            IF levels[v] # Missing /\ levels[v].number \in Seeded
            THEN [number |-> levels[v].number, live |-> TRUE] ELSE levels[v]]
    /\ UNCHANGED <<lessons, tests, edits, membership, study, sheet, errands>>

-----------------------------------------------------------------------------

ProgressInit ==
    /\ active = {} /\ closed = {}
    /\ level = [u \in Users |-> 0]
    /\ levels = SeedLevels /\ lessons = SeedLessons /\ tests = SeedTests
    /\ edits = 0
    /\ watched = {} /\ passed = {} /\ granted = {}
    /\ coins = [u \in Users |-> 0]
    /\ sheet = [u \in Users |-> Missing]
    /\ handing = [u \in Users |-> Missing]
    /\ submitted = {}

Learn(u) ==
    \/ \E l \in Lessons : MarkLessonWatched(u, l)
    \/ \E n \in 1 .. LastLevel :
        \/ GetTest(u, n)
        \/ \E right \in BOOLEAN : SubmitTest(u, n, right)
        \/ CheckAssignment(u, n)
    \/ StoreSubmission(u)
    \/ RecalculateUserProgress(u)
    \/ BreakOff(u)

Member(u) ==
    SubscriptionBought(u) \/ SubscriptionGiven(u) \/ SubscriptionEnds(u) \/ SetUserAccessState(u)

Curate ==
    \/ \E v \in LevelIds : DeleteLevel(v) \/ \E row \in LevelRow : UpsertLevel(v, row)
    \/ \E l \in Lessons : DeleteLesson(l) \/ \E row \in LessonRow : UpsertLesson(l, row)
    \/ \E t \in Tests : DeleteTest(t)
    \/ \E t \in Tests, l \in Lessons, live \in BOOLEAN :
        CreateTest(t, l, live) \/ UpdateTest(t, l, live)
    \/ seedLevels

ProgressNext == (\E u \in Users : Learn(u) \/ Member(u)) \/ Curate

ProgressSpec == ProgressInit /\ [][ProgressNext]_progressVars

\* Users who keep watching the lessons of their level, keep opening the test
\* they are given, and each so often answer it right before they open another.
Diligent(u) ==
    /\ WF_progressVars(\E l \in LessonsOf(level[u]) : MarkLessonWatched(u, l))
    /\ WF_progressVars(GetTest(u, level[u]))
    /\ SF_progressVars(SubmitTest(u, level[u], TRUE))

DiligentSpec == ProgressSpec /\ \A u \in Users : Diligent(u)

-----------------------------------------------------------------------------
(* Properties. *)

\* The variables keep the shapes the schema and the handlers give them.
ProgressTypeOK ==
    /\ active \subseteq Users /\ closed \subseteq Users
    /\ level \in [Users -> 0 .. LastLevel]
    /\ levels \in [LevelIds -> LevelRow \union {Missing}]
    /\ lessons \in [Lessons -> LessonRow \union {Missing}]
    /\ tests \in [Tests -> TestRow \union {Missing}]
    /\ edits \in Nat
    /\ watched \subseteq Users \X Rows(lessons)
    /\ passed \subseteq Users \X Rows(tests)
    /\ coins \in [Users -> Nat]
    /\ sheet \in [Users -> Sheet \union {Missing}]
    /\ handing \in [Users -> HandIn \union {Missing}]
    /\ submitted \subseteq Users \X Rows(levels)

\* However often a lesson is watched again or a test submitted again, its
\* coins are paid once: the balance is 5 a lesson and 20 a test.
CoinsMatchLearning ==
    \A u \in Users :
        coins[u] = 5 * Cardinality({l \in Lessons : <<u, l>> \in watched})
                    + 20 * Cardinality({t \in Tests : <<u, t>> \in passed})

\* What a member reads about a level that has lessons is true: at 100 % all is
\* done that the next level asks for, and a next level called ready can open
\* (progressForLevel and canUnlockNextLevel decide by different queries).
ProgressPageIsTrue ==
    \A u \in active, n \in {k \in 1 .. LastLevel : LessonsOf(k) # {}} :
        /\ Percent(u, n) = 100 => Finished(u, n, watched, passed)
        /\ NextRequirement(u, n) = "ready" => CanUnlock(u, n, watched, passed)

\* A level above the first opens only when all below it that the step
\* passes over are finished, by a member.
LevelsAreEarned ==
    [][\A u \in Users : level'[u] > level[u] /\ level[u] > 0 =>
        /\ u \in active'
        /\ \A n \in level[u] .. level'[u] - 1 :
            /\ LessonsOf(n) # {} /\ AllWatched(u, n, watched')
            /\ AllPassed(u, n, passed')]_progressVars

\* Whoever has just watched a lesson or passed a test has every level
\* opened that this finishes, also those finished in advance.
NothingLeftToOpen ==
    [][\A u \in Users :
        (\E x \in (watched' \ watched) \union (passed' \ passed) : x[1] = u) =>
            ~CanUnlock(u, level[u], watched, passed)']_progressVars

\* Whoever keeps learning gets on: nobody is kept for good in a level he may
\* enter and that has lessons and tests, whatever was archived or moved while he
\* learned (the queries that count tests and that hand them out are two, and an
\* edit opens no level by itself).
StudyLeadsOn ==
    \A u \in Users, n \in 1 .. LastLevel - 1 :
        ~<>[](level[u] = n /\ CanAccess(u, n) /\ LessonsOf(n) # {} /\ TestsOf(n) # {})

=============================================================================
