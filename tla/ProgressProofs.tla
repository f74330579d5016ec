--------------------------- MODULE ProgressProofs ---------------------------
(***************************************************************************)
(* Proofs about Progress, for any number of users, levels, lessons, tests   *)
(* and edits.                                                              *)
(***************************************************************************)
EXTENDS Progress, FiniteSetTheorems, WellFoundedInduction, TLAPS

-----------------------------------------------------------------------------
(***************************************************************************)
(* Helpers.                                                                *)
(***************************************************************************)

\* A set of naturals has a least element, and Min is it.
LEMMA MinOfNaturals ==
    ASSUME NEW S \in SUBSET Nat, S # {}
    PROVE  Min(S) \in S /\ \A n \in S : Min(S) <= n
<1>1. PICK m \in S : \A n \in S : <<n, m>> \notin OpToRel(<, Nat)
  BY NatLessThanWellFounded, WFMin
<1>2. \A n \in S : m <= n
  <2> SUFFICES ASSUME NEW n \in S, n < m PROVE FALSE
    OBVIOUS
  <2>1. <<n, m>> \in OpToRel(<, Nat)
    BY DEF OpToRel
  <2> QED
    BY <1>1, <2>1
<1> QED
  BY <1>2 DEF Min

\* A loop over levels stops at the first it cannot pass.
LEMMA RecalculatedStops ==
    ASSUME NEW u \in Users, NEW seen, NEW done, level[u] \in 1 .. LastLevel
    PROVE  LET top == Recalculated(u, seen, done)
           IN  /\ top \in level[u] .. LastLevel
               /\ ~CanUnlock(u, top, seen, done)
               /\ \A n \in level[u] .. top - 1 : CanUnlock(u, n, seen, done)
<1> DEFINE stops == {n \in level[u] .. LastLevel : ~CanUnlock(u, n, seen, done)}
<1>1. LastLevel \in Nat \ {0}
  BY CatalogueAssumption
<1>2. LastLevel \in stops
  BY <1>1 DEF CanUnlock
<1>3. stops \in SUBSET Nat
  BY <1>1
<1>4. Min(stops) \in stops /\ \A n \in stops : Min(stops) <= n
  BY <1>2, <1>3, MinOfNaturals
<1>5. Recalculated(u, seen, done) = Min(stops)
  BY <1>1 DEF Recalculated
<1> HIDE DEF stops
<1>6. \A n \in level[u] .. Min(stops) - 1 : n \notin stops
  <2> SUFFICES ASSUME NEW n \in level[u] .. Min(stops) - 1, n \in stops PROVE FALSE
    OBVIOUS
  <2>1. Min(stops) \in Nat /\ n \in Nat /\ Min(stops) <= n
    BY <1>3, <1>4
  <2> QED
    BY <2>1
<1> QED
  BY <1>1, <1>4, <1>5, <1>6 DEF stops

\* Recalculating keeps a level among the levels, and never lowers it.
LEMMA RecalculatedType ==
    ASSUME NEW u \in Users, NEW seen, NEW done, level \in [Users -> 0 .. LastLevel]
    PROVE  /\ Recalculated(u, seen, done) \in 0 .. LastLevel
           /\ Recalculated(u, seen, done) >= level[u]
<1>1. LastLevel \in Nat \ {0}
  BY CatalogueAssumption
<1>2. CASE level[u] = 0
  BY <1>1, <1>2 DEF Recalculated
<1>3. CASE level[u] \in 1 .. LastLevel
  BY <1>1, <1>3, RecalculatedStops
<1> QED
  BY <1>1, <1>2, <1>3

\* Of some tests one is on the first lesson.
LEMMA FirstLesson ==
    ASSUME NEW pool \in SUBSET Rows(tests), pool # {}, ProgressTypeOK
    PROVE  \E t \in pool : \A o \in pool : tests[t].lesson <= tests[o].lesson
<1> DEFINE places == {tests[t].lesson : t \in pool}
<1>1. \A t \in pool : tests[t].lesson \in Nat
  BY CatalogueAssumption DEF Rows, ProgressTypeOK, TestRow
<1>2. places # {} /\ places \in SUBSET Nat
  BY <1>1
<1>3. Min(places) \in places /\ \A n \in places : Min(places) <= n
  BY <1>2, MinOfNaturals
<1>4. PICK t \in pool : tests[t].lesson = Min(places)
  BY <1>3
<1>5. \A o \in pool : tests[o].lesson \in places
  OBVIOUS
<1> QED
  BY <1>3, <1>4, <1>5

\* The test a user is given is one of those to be had, and one still to pass
\* as long as there is one.
LEMMA OfferedType ==
    ASSUME NEW u \in Users, NEW n, ProgressTypeOK, Offerable(n) # {}
    PROVE  /\ Offered(u, n) \in Offerable(n)
           /\ (\E t \in Offerable(n) : <<u, t>> \notin passed) => <<u, Offered(u, n)>> \notin passed
<1> DEFINE open == {t \in Offerable(n) : <<u, t>> \notin passed}
           pool == IF open # {} THEN open ELSE Offerable(n)
<1>1. pool # {} /\ pool \subseteq Offerable(n)
  OBVIOUS
<1>2. Offerable(n) \subseteq Rows(tests)
  BY DEF Offerable
<1>3. Offered(u, n) = CHOOSE t \in pool : \A o \in pool : tests[t].lesson <= tests[o].lesson
  BY DEF Offered
<1> HIDE DEF pool
<1>4. \E t \in pool : \A o \in pool : tests[t].lesson <= tests[o].lesson
  BY <1>1, <1>2, FirstLesson
<1>5. Offered(u, n) \in pool
  BY <1>3, <1>4
<1> QED
  BY <1>1, <1>5 DEF pool

-----------------------------------------------------------------------------
(***************************************************************************)
(* The inductive invariant.  Types alone are not inductive: an assignment   *)
(* on its way names a level that exists.  Coins are counted right because   *)
(* the unique index and the tables of learning say the same.                *)
(***************************************************************************)

HandInRefers ==
    \A u \in Users : handing[u] # Missing => handing[u].assignment \in Rows(levels)

IndexIsLearning ==
    \A u \in Users :
        /\ \A l \in Lessons : <<u, "lesson_watched", l>> \in granted <=> <<u, l>> \in watched
        /\ \A t \in Tests : <<u, "test_passed", t>> \in granted <=> <<u, t>> \in passed

TypeInv == ProgressTypeOK /\ HandInRefers

LEMMA TypeInvInit == ProgressInit => TypeInv
BY CatalogueAssumption
   DEF ProgressInit, TypeInv, ProgressTypeOK, HandInRefers, Rows

\* Learning keeps the types.
LEMMA LearnType ==
    ASSUME NEW u \in Users, TypeInv, Learn(u)
    PROVE  TypeInv'
<1> USE DEF TypeInv
<1>1. LastLevel \in Nat \ {0}
  BY CatalogueAssumption
<1>2. \A seen, done : Recalculated(u, seen, done) \in 0 .. LastLevel
  BY RecalculatedType DEF ProgressTypeOK
<1>3. ASSUME NEW l \in Lessons, MarkLessonWatched(u, l) PROVE TypeInv'
  BY <1>2, <1>3
     DEF MarkLessonWatched, Award, ProgressTypeOK, HandInRefers, Rows, membership, catalogue, errands
<1>4. ASSUME NEW n \in 1 .. LastLevel, GetTest(u, n) PROVE TypeInv'
  <2>1. Offered(u, n) \in Rows(tests) /\ tests[Offered(u, n)] \in TestRow
    BY <1>4, OfferedType DEF GetTest, Offerable, Rows, ProgressTypeOK
  <2>2. [test |-> Offered(u, n), edition |-> tests[Offered(u, n)].edition] \in Sheet
    BY <2>1 DEF Sheet, TestRow, Rows, ProgressTypeOK
  <2> QED
    BY <1>4, <2>2
       DEF GetTest, ProgressTypeOK, HandInRefers, Rows, membership, catalogue, study, errands
<1>5. ASSUME NEW n \in 1 .. LastLevel, NEW right \in BOOLEAN, SubmitTest(u, n, right)
      PROVE TypeInv'
  <2>1. Offered(u, n) \in Rows(tests)
    BY <1>5, OfferedType DEF SubmitTest, Offerable
  <2> QED
    BY <1>2, <1>5, <2>1
       DEF SubmitTest, Award, ProgressTypeOK, HandInRefers, Rows, membership, catalogue, errands
<1>6. ASSUME NEW n \in 1 .. LastLevel, CheckAssignment(u, n) PROVE TypeInv'
  BY <1>6, CatalogueAssumption
     DEF CheckAssignment, ProgressTypeOK, HandInRefers, HandIn, Rows, membership, catalogue, study
<1>7. CASE StoreSubmission(u)
  BY <1>7
     DEF StoreSubmission, ProgressTypeOK, HandInRefers, HandIn, Rows, membership, catalogue, study
<1>8. CASE RecalculateUserProgress(u)
  BY <1>2, <1>8
     DEF RecalculateUserProgress, ProgressTypeOK, HandInRefers, Rows, membership, catalogue
<1>9. CASE BreakOff(u)
  BY <1>9 DEF BreakOff, ProgressTypeOK, HandInRefers, Rows, membership, catalogue, study
<1> QED
  BY <1>3, <1>4, <1>5, <1>6, <1>7, <1>8, <1>9 DEF Learn

\* So does what happens to a membership.
LEMMA MemberType ==
    ASSUME NEW u \in Users, TypeInv, Member(u)
    PROVE  TypeInv'
BY CatalogueAssumption
   DEF TypeInv, ProgressTypeOK, HandInRefers, Rows, Member, SubscriptionBought,
       SubscriptionGiven, SubscriptionEnds, SetUserAccessState,
       membership, catalogue, study, errands

\* And an edit: a row may change, but none goes away.
LEMMA CurateType ==
    ASSUME TypeInv, Curate
    PROVE  TypeInv'
<1> USE DEF TypeInv, Edit, membership, study, errands
<1>1. ASSUME NEW v \in LevelIds, NEW row \in LevelRow, UpsertLevel(v, row) PROVE TypeInv'
  BY <1>1, CatalogueAssumption DEF UpsertLevel, ProgressTypeOK, HandInRefers, Rows
<1>2. ASSUME NEW l \in Lessons, NEW row \in LessonRow, UpsertLesson(l, row) PROVE TypeInv'
  BY <1>2, CatalogueAssumption DEF UpsertLesson, ProgressTypeOK, HandInRefers, Rows
<1>3. ASSUME NEW t \in Tests, NEW l \in Lessons, NEW live \in BOOLEAN,
             CreateTest(t, l, live) \/ UpdateTest(t, l, live)
      PROVE TypeInv'
  <2>1. edits + 1 \in Nat
    BY DEF ProgressTypeOK
  <2>2. [lesson |-> l, live |-> live, edition |-> edits + 1] \in TestRow
    BY <2>1 DEF TestRow
  <2> QED
    BY <1>3, <2>1, <2>2, CatalogueAssumption
     DEF CreateTest, UpdateTest, ProgressTypeOK, HandInRefers, Rows
<1>4. ASSUME NEW v \in LevelIds, DeleteLevel(v) PROVE TypeInv'
  <2>1. levels[v] \in LevelRow
    BY <1>4 DEF DeleteLevel, Rows, ProgressTypeOK
  <2>2. PICK row \in LevelRow : levels' = [levels EXCEPT ![v] = row]
    BY <1>4, <2>1 DEF DeleteLevel, LevelRow
  <2>3. UNCHANGED <<lessons, tests>> /\ Edit
    BY <1>4 DEF DeleteLevel
  <2> QED
    BY <2>2, <2>3, CatalogueAssumption DEF ProgressTypeOK, HandInRefers, Rows
<1>5. ASSUME NEW l \in Lessons, DeleteLesson(l) PROVE TypeInv'
  <2>1. lessons[l] \in LessonRow
    BY <1>5 DEF DeleteLesson, Rows, ProgressTypeOK
  <2>2. PICK row \in LessonRow : lessons' = [lessons EXCEPT ![l] = row]
    BY <1>5, <2>1 DEF DeleteLesson, LessonRow
  <2>3. UNCHANGED <<levels, tests>> /\ Edit
    BY <1>5 DEF DeleteLesson
  <2> QED
    BY <2>2, <2>3, CatalogueAssumption DEF ProgressTypeOK, HandInRefers, Rows
<1>6. ASSUME NEW t \in Tests, DeleteTest(t) PROVE TypeInv'
  <2>1. tests[t] \in TestRow
    BY <1>6 DEF DeleteTest, Rows, ProgressTypeOK
  <2>2. PICK row \in TestRow : tests' = [tests EXCEPT ![t] = row]
    BY <1>6, <2>1 DEF DeleteTest, TestRow
  <2>3. UNCHANGED <<levels, lessons>> /\ Edit
    BY <1>6 DEF DeleteTest
  <2> QED
    BY <2>2, <2>3, CatalogueAssumption DEF ProgressTypeOK, HandInRefers, Rows
<1>7. ASSUME seedLevels PROVE TypeInv'
  <2> DEFINE after(v) ==
        IF levels[v] # Missing /\ levels[v].number \in Seeded
        THEN [number |-> levels[v].number, live |-> TRUE] ELSE levels[v]
  <2>1. ASSUME NEW v \in LevelIds
        PROVE  /\ after(v) \in LevelRow \union {Missing}
               /\ levels[v] # Missing => after(v) # Missing
    <3>1. levels[v] \in LevelRow \union {Missing} /\ Missing \notin LevelRow
      BY CatalogueAssumption DEF ProgressTypeOK
    <3>2. CASE levels[v] = Missing
      BY <3>2
    <3>3. CASE levels[v] \in LevelRow
      <4>1. [number |-> levels[v].number, live |-> TRUE] \in LevelRow
        BY <3>3 DEF LevelRow
      <4> QED
        BY <3>1, <3>3, <4>1
    <3> QED
      BY <3>1, <3>2, <3>3
  <2>2. levels' = [v \in LevelIds |-> after(v)]
    BY <1>7 DEF seedLevels
  <2>3. UNCHANGED <<lessons, tests, edits, active, closed, level, watched, passed, granted,
                    coins, sheet, handing, submitted>>
    BY <1>7 DEF seedLevels
  <2> HIDE DEF after
  <2>4. levels' \in [LevelIds -> LevelRow \union {Missing}]
    BY <2>1, <2>2
  <2>5. \A v \in LevelIds : levels'[v] = after(v)
    BY <2>2
  <2>6. DOMAIN levels = LevelIds
    BY DEF ProgressTypeOK
  <2>7. Rows(levels) \subseteq Rows(levels')
    BY <2>1, <2>4, <2>5, <2>6 DEF Rows
  <2> QED
    BY <2>3, <2>4, <2>7 DEF ProgressTypeOK, HandInRefers, Rows
<1> QED
  BY <1>1, <1>2, <1>3, <1>4, <1>5, <1>6, <1>7 DEF Curate

-----------------------------------------------------------------------------
(***************************************************************************)
(* Coins.                                                                  *)
(***************************************************************************)

LessonsBy(u) == {l \in Lessons : <<u, l>> \in watched}
TestsBy(u) == {t \in Tests : <<u, t>> \in passed}

CoinInv == TypeInv /\ IndexIsLearning /\ CoinsMatchLearning

\* The balance in terms of the two sets, which are finite.
LEMMA Balance ==
    /\ CoinsMatchLearning <=>
        \A u \in Users : coins[u] = 5 * Cardinality(LessonsBy(u)) + 20 * Cardinality(TestsBy(u))
    /\ CoinsMatchLearning' <=>
        \A u \in Users : coins'[u] = 5 * Cardinality(LessonsBy(u)') + 20 * Cardinality(TestsBy(u)')
    /\ \A u \in Users :
        /\ IsFiniteSet(LessonsBy(u)) /\ Cardinality(LessonsBy(u)) \in Nat
        /\ IsFiniteSet(TestsBy(u)) /\ Cardinality(TestsBy(u)) \in Nat
<1>1. \A u \in Users : IsFiniteSet(LessonsBy(u)) /\ IsFiniteSet(TestsBy(u))
  BY FS_Subset, CatalogueAssumption DEF LessonsBy, TestsBy
<1> QED
  BY <1>1, FS_CardinalityType DEF CoinsMatchLearning, LessonsBy, TestsBy

LEMMA CoinInvInit == ProgressInit => CoinInv
<1> SUFFICES ASSUME ProgressInit PROVE CoinInv
  OBVIOUS
<1>1. IndexIsLearning
  BY DEF ProgressInit, IndexIsLearning
<1>2. \A u \in Users : LessonsBy(u) = {} /\ TestsBy(u) = {} /\ coins[u] = 0
  BY DEF ProgressInit, LessonsBy, TestsBy
<1> QED
  BY <1>1, <1>2, TypeInvInit, Balance, FS_EmptySet DEF CoinInv

\* A lesson watched for the first time is paid for, again is not.
LEMMA WatchingPaysOnce ==
    ASSUME NEW u \in Users, NEW l \in Lessons, CoinInv, MarkLessonWatched(u, l)
    PROVE  IndexIsLearning' /\ CoinsMatchLearning'
<1>1. IndexIsLearning'
  BY DEF CoinInv, IndexIsLearning, MarkLessonWatched, Award
<1>2. \A w \in Users : TestsBy(w)' = TestsBy(w)
  BY DEF TestsBy, MarkLessonWatched
<1>3. \A w \in Users \ {u} : LessonsBy(w)' = LessonsBy(w) /\ coins'[w] = coins[w]
  BY DEF LessonsBy, MarkLessonWatched, Award, CoinInv, TypeInv, ProgressTypeOK
<1>4. LessonsBy(u)' = LessonsBy(u) \union {l}
  BY DEF LessonsBy, MarkLessonWatched
<1>5. CASE <<u, l>> \in watched
  <2>1. LessonsBy(u)' = LessonsBy(u) /\ coins'[u] = coins[u]
    BY <1>4, <1>5 DEF LessonsBy, MarkLessonWatched, Award, CoinInv, IndexIsLearning
  <2> QED
    BY <1>1, <1>2, <1>3, <2>1, Balance DEF CoinInv
<1>6. CASE <<u, l>> \notin watched
  <2>1. coins'[u] = coins[u] + 5
    <3>1. <<u, "lesson_watched", l>> \notin granted
      BY <1>6 DEF CoinInv, IndexIsLearning
    <3>2. Award(u, 5, <<u, "lesson_watched", l>>)
      BY DEF MarkLessonWatched
    <3> QED
      BY <3>1, <3>2 DEF Award, CoinInv, TypeInv, ProgressTypeOK
  <2>2. Cardinality(LessonsBy(u)') = Cardinality(LessonsBy(u)) + 1
    <3>1. l \notin LessonsBy(u) /\ IsFiniteSet(LessonsBy(u))
      BY <1>6, Balance DEF LessonsBy
    <3> QED
      BY <1>4, <3>1, FS_AddElement
  <2> QED
    BY <1>1, <1>2, <1>3, <2>1, <2>2, Balance DEF CoinInv
<1> QED
  BY <1>5, <1>6

\* So with a test passed for the first time, again, or not at all.
LEMMA SubmittingPaysOnce ==
    ASSUME NEW u \in Users, NEW n, NEW right, CoinInv, SubmitTest(u, n, right)
    PROVE  IndexIsLearning' /\ CoinsMatchLearning'
<1> DEFINE t == Offered(u, n)
<1>1. t \in Tests
  BY OfferedType DEF SubmitTest, Offerable, Rows, CoinInv, TypeInv, ProgressTypeOK
<1>2. \A w \in Users : LessonsBy(w)' = LessonsBy(w)
  BY DEF LessonsBy, SubmitTest
<1> HIDE DEF t
<1>3. CASE UNCHANGED <<passed, granted, coins>>
  <2>1. \A w \in Users : TestsBy(w)' = TestsBy(w) /\ coins'[w] = coins[w]
    BY <1>3 DEF TestsBy
  <2>2. IndexIsLearning'
    BY <1>3 DEF SubmitTest, CoinInv, IndexIsLearning
  <2> QED
    BY <1>2, <2>1, <2>2, Balance DEF CoinInv
<1>4. CASE passed' = passed \union {<<u, t>>} /\ Award(u, 20, <<u, "test_passed", t>>)
  <2>1. IndexIsLearning'
    BY <1>4 DEF SubmitTest, Award, CoinInv, IndexIsLearning
  <2>2. \A w \in Users \ {u} : TestsBy(w)' = TestsBy(w) /\ coins'[w] = coins[w]
    BY <1>4 DEF TestsBy, Award, CoinInv, TypeInv, ProgressTypeOK
  <2>3. TestsBy(u)' = TestsBy(u) \union {t}
    BY <1>1, <1>4 DEF TestsBy
  <2>4. CASE <<u, t>> \in passed
    <3>1. TestsBy(u)' = TestsBy(u) /\ coins'[u] = coins[u]
      BY <1>1, <1>4, <2>3, <2>4 DEF TestsBy, Award, CoinInv, IndexIsLearning
    <3> QED
      BY <1>2, <2>1, <2>2, <3>1, Balance DEF CoinInv
  <2>5. CASE <<u, t>> \notin passed
    <3>1. coins'[u] = coins[u] + 20
      <4>1. <<u, "test_passed", t>> \notin granted
        BY <1>1, <2>5 DEF CoinInv, IndexIsLearning
      <4> QED
        BY <1>4, <4>1 DEF Award, CoinInv, TypeInv, ProgressTypeOK
    <3>2. Cardinality(TestsBy(u)') = Cardinality(TestsBy(u)) + 1
      <4>1. t \notin TestsBy(u) /\ IsFiniteSet(TestsBy(u))
        BY <2>5, Balance DEF TestsBy
      <4> QED
        BY <2>3, <4>1, FS_AddElement
    <3> QED
      BY <1>2, <2>1, <2>2, <3>1, <3>2, Balance DEF CoinInv
  <2> QED
    BY <2>4, <2>5
<1> QED
  BY <1>3, <1>4 DEF SubmitTest, t

\* No other step touches coins or what they are counted from.
LEMMA CoinsElsewhere ==
    ASSUME CoinInv, UNCHANGED <<watched, passed, granted, coins>>
    PROVE  IndexIsLearning' /\ CoinsMatchLearning'
BY DEF CoinInv, IndexIsLearning, CoinsMatchLearning

LEMMA CoinInvNext == CoinInv /\ [ProgressNext]_progressVars => CoinInv'
<1> SUFFICES ASSUME CoinInv, [ProgressNext]_progressVars PROVE CoinInv'
  OBVIOUS
<1>1. ASSUME NEW u \in Users, Learn(u) PROVE CoinInv'
  <2>1. ASSUME NEW l \in Lessons, MarkLessonWatched(u, l) PROVE IndexIsLearning' /\ CoinsMatchLearning'
    BY <2>1, WatchingPaysOnce
  <2>2. ASSUME NEW n \in 1 .. LastLevel, NEW right \in BOOLEAN, SubmitTest(u, n, right)
        PROVE IndexIsLearning' /\ CoinsMatchLearning'
    BY <2>2, SubmittingPaysOnce
  <2>3. ASSUME \/ \E n \in 1 .. LastLevel : GetTest(u, n) \/ CheckAssignment(u, n)
               \/ StoreSubmission(u) \/ RecalculateUserProgress(u) \/ BreakOff(u)
        PROVE  IndexIsLearning' /\ CoinsMatchLearning'
    BY <2>3, CoinsElsewhere
       DEF GetTest, CheckAssignment, StoreSubmission, RecalculateUserProgress, BreakOff, study
  <2>4. TypeInv'
    BY <1>1, LearnType DEF CoinInv
  <2> QED
    BY <1>1, <2>1, <2>2, <2>3, <2>4 DEF Learn, CoinInv
<1>2. ASSUME NEW u \in Users, Member(u) PROVE CoinInv'
  BY <1>2, MemberType, CoinsElsewhere
     DEF CoinInv, Member, SubscriptionBought, SubscriptionGiven, SubscriptionEnds,
         SetUserAccessState, study
<1>3. CASE Curate
  <2>1. UNCHANGED <<watched, passed, granted, coins>>
    BY <1>3
       DEF Curate, UpsertLevel, UpsertLesson, CreateTest, UpdateTest, DeleteLevel,
           DeleteLesson, DeleteTest, seedLevels, Edit, study
  <2> QED
    BY <1>3, <2>1, CurateType, CoinsElsewhere DEF CoinInv
<1>4. CASE UNCHANGED progressVars
  <2>1. UNCHANGED <<watched, passed, granted, coins>>
    BY <1>4 DEF progressVars, study
  <2>2. TypeInv'
    BY <1>4
       DEF CoinInv, TypeInv, ProgressTypeOK, HandInRefers, Rows,
           progressVars, membership, catalogue, study, errands
  <2> QED
    BY <2>1, <2>2, CoinsElsewhere DEF CoinInv
<1> QED
  BY <1>1, <1>2, <1>3, <1>4 DEF ProgressNext

\* Every table of the learning side keeps to its columns: progress.go and the
\* content half of admin.go never write a row of another shape.
THEOREM LearningTypes == ProgressSpec => []ProgressTypeOK
<1>1. CoinInv => ProgressTypeOK
  BY DEF CoinInv, TypeInv
<1> QED
  BY <1>1, CoinInvInit, CoinInvNext, PTL DEF ProgressSpec

\* Coins are paid once for each lesson and each test, whatever is repeated
\* and edited (AddCoinsTx in MarkLessonWatched and SubmitTest).
THEOREM CoinsPaidOnce == ProgressSpec => []CoinsMatchLearning
<1>1. CoinInv => CoinsMatchLearning
  BY DEF CoinInv
<1> QED
  BY <1>1, CoinInvInit, CoinInvNext, PTL DEF ProgressSpec

-----------------------------------------------------------------------------
(***************************************************************************)
(* Levels.                                                                 *)
(***************************************************************************)

\* A level that rises by recalculation rises over finished levels.
LEMMA RecalculatedIsEarned ==
    ASSUME NEW u \in Users, NEW seen, NEW done, ProgressTypeOK,
           level[u] > 0, Recalculated(u, seen, done) > level[u]
    PROVE  /\ u \in active
           /\ \A n \in level[u] .. Recalculated(u, seen, done) - 1 :
                LessonsOf(n) # {} /\ AllWatched(u, n, seen) /\ AllPassed(u, n, done)
<1> DEFINE top == Recalculated(u, seen, done)
<1>1. level[u] \in 1 .. LastLevel
  BY CatalogueAssumption DEF ProgressTypeOK
<1>2. top \in level[u] .. LastLevel /\ \A n \in level[u] .. top - 1 : CanUnlock(u, n, seen, done)
  BY <1>1, RecalculatedStops
<1>3. level[u] \in level[u] .. top - 1
  BY <1>1, <1>2, CatalogueAssumption
<1> HIDE DEF top
<1>4. \A n \in level[u] .. top - 1 : Finished(u, n, seen, done)
  BY <1>2 DEF CanUnlock
<1> QED
  BY <1>3, <1>4 DEF Finished, top

\* The two steps of learning that set a level, and the request that hands in
\* an assignment, set nobody else's.
LEMMA OneLevelMoves ==
    ASSUME NEW u \in Users, ProgressTypeOK, Learn(u)
    PROVE  /\ UNCHANGED <<active, levels, lessons, tests>>
           /\ \A w \in Users \ {u} : level'[w] = level[w]
           /\ level'[u] # level[u] => level'[u] = Recalculated(u, watched', passed')
<1>1. ASSUME NEW l \in Lessons, MarkLessonWatched(u, l)
      PROVE  level' = [level EXCEPT ![u] = Recalculated(u, watched', passed')]
  BY <1>1 DEF MarkLessonWatched
<1>2. ASSUME NEW n \in 1 .. LastLevel, NEW right \in BOOLEAN, SubmitTest(u, n, right)
      PROVE  level' = [level EXCEPT ![u] = Recalculated(u, watched', passed')]
  <2>1. watched' = watched /\ level' = [level EXCEPT ![u] = Recalculated(u, watched, passed')]
    BY <1>2 DEF SubmitTest
  <2> QED
    BY <2>1
<1>3. ASSUME RecalculateUserProgress(u)
      PROVE  level' = [level EXCEPT ![u] = Recalculated(u, watched', passed')]
  <2>1. /\ watched' = watched /\ passed' = passed
        /\ level' = [level EXCEPT ![u] = Recalculated(u, watched, passed)]
    BY <1>3 DEF RecalculateUserProgress
  <2> QED
    BY <2>1
<1>4. ASSUME \/ \E n \in 1 .. LastLevel : GetTest(u, n) \/ CheckAssignment(u, n)
             \/ StoreSubmission(u) \/ BreakOff(u)
      PROVE  level' = level
  BY <1>4 DEF GetTest, CheckAssignment, StoreSubmission, BreakOff, study
<1>5. UNCHANGED <<active, levels, lessons, tests>>
  BY DEF Learn, MarkLessonWatched, GetTest, SubmitTest, CheckAssignment, StoreSubmission,
         RecalculateUserProgress, BreakOff, membership, catalogue
<1>6. \/ level' = level
      \/ level' = [level EXCEPT ![u] = Recalculated(u, watched', passed')]
  BY <1>1, <1>2, <1>3, <1>4 DEF Learn
<1> QED
  BY <1>5, <1>6 DEF ProgressTypeOK

\* Nobody passes over a level without having finished it as it then is, or
\* without an active subscription (canUnlockNextLevel).
THEOREM LevelsMustBeEarned == ProgressSpec => LevelsAreEarned
<1> DEFINE Earned(u) ==
        level'[u] > level[u] /\ level[u] > 0 =>
            /\ u \in active'
            /\ \A n \in level[u] .. level'[u] - 1 :
                /\ LessonsOf(n) # {} /\ AllWatched(u, n, watched')
                /\ AllPassed(u, n, passed')
<1>1. CoinInv /\ [ProgressNext]_progressVars => [\A u \in Users : Earned(u)]_progressVars
  <2> SUFFICES ASSUME CoinInv, ProgressNext, NEW w \in Users PROVE Earned(w)
    OBVIOUS
  <2>1. ProgressTypeOK
    BY DEF CoinInv, TypeInv
  <2>2. ASSUME NEW u \in Users, Learn(u) PROVE Earned(w)
    <3>1. CASE level'[w] = level[w]
      BY <2>1, <3>1 DEF ProgressTypeOK
    <3>2. CASE level'[w] # level[w]
      <4>1. w = u /\ active' = active /\ level'[w] = Recalculated(w, watched', passed')
        BY <2>1, <2>2, <3>2, OneLevelMoves
      <4> QED
        BY <2>1, <4>1, RecalculatedIsEarned
    <3> QED
      BY <3>1, <3>2
  <2>3. ASSUME NEW u \in Users, Member(u) PROVE Earned(w)
    <3>1. level'[w] = level[w] \/ level[w] < 1
      BY <2>1, <2>3
         DEF Member, SubscriptionBought, SubscriptionGiven, SubscriptionEnds,
             SetUserAccessState, study, ProgressTypeOK
    <3> QED
      BY <2>1, <3>1 DEF ProgressTypeOK
  <2>4. ASSUME Curate PROVE Earned(w)
    <3>1. level' = level
      BY <2>4
         DEF Curate, UpsertLevel, UpsertLesson, CreateTest, UpdateTest, DeleteLevel,
             DeleteLesson, DeleteTest, seedLevels, Edit, study
    <3> QED
      BY <2>1, <3>1 DEF ProgressTypeOK
  <2> QED
    BY <2>2, <2>3, <2>4 DEF ProgressNext
<1> QED
  BY <1>1, CoinInvInit, CoinInvNext, PTL DEF ProgressSpec, LevelsAreEarned

\* Whoever has just learned something has every level opened that is due: the
\* loop of recalculateUserProgressTx runs to its end in the same transaction.
THEOREM LevelsOpenAtOnce == ProgressSpec => NothingLeftToOpen
<1> DEFINE Due(u) ==
        (\E x \in (watched' \ watched) \union (passed' \ passed) : x[1] = u) =>
            ~CanUnlock(u, level[u], watched, passed)'
<1>1. CoinInv /\ [ProgressNext]_progressVars => [\A u \in Users : Due(u)]_progressVars
  <2> SUFFICES ASSUME CoinInv, ProgressNext, NEW w \in Users,
                      NEW x \in (watched' \ watched) \union (passed' \ passed), x[1] = w
               PROVE  ~CanUnlock(w, level[w], watched, passed)'
    OBVIOUS
  <2>1. ProgressTypeOK
    BY DEF CoinInv, TypeInv
  <2>2. PICK u \in Users : \/ \E l \in Lessons : MarkLessonWatched(u, l)
                           \/ \E n \in 1 .. LastLevel, right \in BOOLEAN : SubmitTest(u, n, right)
    <3>1. \E u \in Users : Learn(u)
      BY DEF ProgressNext, Member, Curate, SubscriptionBought, SubscriptionGiven,
             SubscriptionEnds, SetUserAccessState, UpsertLevel, UpsertLesson, CreateTest,
             UpdateTest, DeleteLevel, DeleteLesson, DeleteTest, seedLevels, Edit, study
    <3> QED
      BY <3>1 DEF Learn, GetTest, CheckAssignment, StoreSubmission,
                  RecalculateUserProgress, BreakOff, study
  <2>3. u = w
    <3>1. ASSUME NEW l \in Lessons, MarkLessonWatched(u, l) PROVE x = <<u, l>>
      BY <3>1 DEF MarkLessonWatched
    <3>2. ASSUME NEW n \in 1 .. LastLevel, NEW right \in BOOLEAN, SubmitTest(u, n, right)
          PROVE  x = <<u, Offered(u, n)>>
      BY <3>2 DEF SubmitTest
    <3> QED
      BY <2>2, <3>1, <3>2
  <2>4. level[w] \in 1 .. LastLevel
    <3>1. ASSUME NEW n, CanAccess(w, n) PROVE level[w] \in 1 .. LastLevel
      BY <2>1, <3>1, CatalogueAssumption DEF CanAccess, ProgressTypeOK
    <3> QED
      BY <2>2, <2>3, <3>1 DEF MarkLessonWatched, SubmitTest
  <2>5. level'[w] = Recalculated(w, watched', passed')
    <3>1. ASSUME NEW l \in Lessons, MarkLessonWatched(w, l)
          PROVE  level'[w] = Recalculated(w, watched', passed')
      BY <2>1, <3>1 DEF MarkLessonWatched, ProgressTypeOK
    <3>2. ASSUME NEW n \in 1 .. LastLevel, NEW right \in BOOLEAN, SubmitTest(w, n, right)
          PROVE  level'[w] = Recalculated(w, watched', passed')
      <4>1. watched' = watched /\ level' = [level EXCEPT ![w] = Recalculated(w, watched, passed')]
        BY <3>2 DEF SubmitTest
      <4> QED
        BY <2>1, <4>1 DEF ProgressTypeOK
    <3> QED
      BY <2>2, <2>3, <3>1, <3>2
  <2>6. ~CanUnlock(w, level'[w], watched', passed')
    BY <2>4, <2>5, RecalculatedStops
  <2>7. UNCHANGED <<active, levels, lessons, tests>>
    BY <2>1, <2>2, <2>3, OneLevelMoves DEF Learn
  <2> QED
    BY <2>6, <2>7
       DEF CanUnlock, Finished, AllWatched, AllPassed, LessonsOf, TestsOf, LevelOf, Rows
<1> QED
  BY <1>1, CoinInvInit, CoinInvNext, PTL DEF ProgressSpec, NothingLeftToOpen

-----------------------------------------------------------------------------
(***************************************************************************)
(* The progress page.                                                      *)
(***************************************************************************)

\* No two levels have one number: the schema's unique column, which UpsertLevel
\* runs into and neither DeleteLevel nor the seed changes.
NumbersDistinct ==
    \A v, w \in Rows(levels) : levels[v].number = levels[w].number => v = w

LEMMA NumbersStay ==
    ASSUME TypeInv, NumbersDistinct, ProgressNext
    PROVE  NumbersDistinct'
<1>1. DOMAIN levels = LevelIds /\ \A v \in Rows(levels) : levels[v] \in LevelRow
  BY DEF TypeInv, ProgressTypeOK, Rows
<1>2. ASSUME levels' \in [LevelIds -> LevelRow \union {Missing}],
             \A v \in LevelIds : /\ levels'[v] # Missing => levels[v] # Missing
                                 /\ levels'[v] # Missing => levels'[v].number = levels[v].number
      PROVE  NumbersDistinct'
  BY <1>1, <1>2 DEF NumbersDistinct, Rows
<1>3. CASE UNCHANGED levels
  BY <1>3 DEF NumbersDistinct, Rows
<1>4. ASSUME NEW v \in LevelIds, NEW row \in LevelRow, UpsertLevel(v, row)
      PROVE  NumbersDistinct'
  <2>1. levels'[v] = row /\ DOMAIN levels' = LevelIds /\ \A w \in LevelIds \ {v} : levels'[w] = levels[w]
    BY <1>1, <1>4 DEF UpsertLevel
  <2>2. \A w \in Rows(levels) \ {v} : levels[w].number # row.number
    BY <1>4 DEF UpsertLevel
  <2>3. Rows(levels') \subseteq Rows(levels) \union {v}
    BY <1>1, <2>1 DEF Rows
  <2>4. \A w \in Rows(levels') : w # v => w \in Rows(levels) /\ levels'[w] = levels[w]
    BY <1>1, <2>1, <2>3 DEF Rows
  <2> QED
    BY <2>1, <2>2, <2>4 DEF NumbersDistinct
<1>5. ASSUME NEW v \in LevelIds, DeleteLevel(v)
      PROVE  NumbersDistinct'
  <2>1. v \in Rows(levels) /\ levels' = [levels EXCEPT ![v].live = FALSE]
    BY <1>5 DEF DeleteLevel
  <2>2. PICK row : row = levels[v]
    OBVIOUS
  <2>3. row \in LevelRow /\ levels' = [levels EXCEPT ![v] = [row EXCEPT !.live = FALSE]]
    BY <1>1, <2>1, <2>2
  <2>4. [row EXCEPT !.live = FALSE] \in LevelRow /\ [row EXCEPT !.live = FALSE].number = row.number
    BY <2>3 DEF LevelRow
  <2>5. levels' \in [LevelIds -> LevelRow \union {Missing}]
    BY <2>3, <2>4 DEF TypeInv, ProgressTypeOK
  <2>6. levels'[v].number = levels[v].number /\ \A w \in LevelIds \ {v} : levels'[w] = levels[w]
    BY <1>1, <2>2, <2>3, <2>4
  <2>7. levels[v] # Missing
    BY <2>1 DEF Rows
  <2> QED
    BY <1>2, <2>5, <2>6, <2>7
<1>6. CASE seedLevels
  <2>1. levels' = [v \in LevelIds |->
            IF levels[v] # Missing /\ levels[v].number \in Seeded
            THEN [number |-> levels[v].number, live |-> TRUE] ELSE levels[v]]
    BY <1>6 DEF seedLevels
  <2>2. \A v \in LevelIds : levels'[v] # Missing =>
            levels[v] # Missing /\ levels'[v].number = levels[v].number
    BY <2>1
  <2>3. DOMAIN levels' = LevelIds
    BY <2>1
  <2> QED
    BY <1>1, <2>2, <2>3 DEF NumbersDistinct, Rows
<1>7. CASE \E u \in Users : Learn(u) \/ Member(u)
  <2>1. ASSUME NEW u \in Users, Learn(u)
        PROVE  UNCHANGED levels
    <3>1. ASSUME NEW l \in Lessons, MarkLessonWatched(u, l)
          PROVE  UNCHANGED levels
      BY <3>1 DEF MarkLessonWatched, catalogue
    <3>2. ASSUME NEW n, NEW right, GetTest(u, n) \/ SubmitTest(u, n, right) \/ CheckAssignment(u, n)
          PROVE  UNCHANGED levels
      BY <3>2 DEF GetTest, SubmitTest, CheckAssignment, catalogue
    <3>3. CASE StoreSubmission(u) \/ RecalculateUserProgress(u) \/ BreakOff(u)
      BY <3>3 DEF StoreSubmission, RecalculateUserProgress, BreakOff, catalogue
    <3> QED
      BY <2>1, <3>1, <3>2, <3>3, Zenon DEF Learn
  <2>2. ASSUME NEW u \in Users, Member(u)
        PROVE  UNCHANGED levels
    BY <2>2 DEF Member, SubscriptionBought, SubscriptionGiven, SubscriptionEnds, SetUserAccessState, catalogue
  <2> QED
    BY <1>3, <1>7, <2>1, <2>2
<1>8. CASE \/ \E l \in Lessons : DeleteLesson(l) \/ \E row \in LessonRow : UpsertLesson(l, row)
           \/ \E t \in Tests : DeleteTest(t)
           \/ \E t \in Tests, l \in Lessons, live \in BOOLEAN : CreateTest(t, l, live) \/ UpdateTest(t, l, live)
  <2>1. UNCHANGED levels
    BY <1>8 DEF DeleteLesson, UpsertLesson, DeleteTest, CreateTest, UpdateTest
  <2> QED
    BY <1>3, <2>1
<1> QED
  BY <1>4, <1>5, <1>6, <1>7, <1>8 DEF ProgressNext, Curate

LEMMA NumbersAlways == ProgressSpec => []NumbersDistinct
<1>1. ProgressInit => NumbersDistinct
  BY CatalogueAssumption DEF ProgressInit, NumbersDistinct, Rows
<1>2. CoinInv /\ NumbersDistinct /\ [ProgressNext]_progressVars => NumbersDistinct'
  <2>1. CoinInv /\ NumbersDistinct /\ UNCHANGED progressVars => NumbersDistinct'
    BY DEF NumbersDistinct, Rows, progressVars, catalogue
  <2> QED
    BY <2>1, NumbersStay DEF CoinInv
<1> QED
  BY <1>1, <1>2, CoinInvInit, CoinInvNext, PTL DEF ProgressSpec

\* A part that counts as much as the whole is the whole.
LEMMA AllOfThem ==
    ASSUME NEW S, NEW T \in SUBSET S, IsFiniteSet(S), Cardinality(T) = Cardinality(S)
    PROVE  T = S
BY FS_Subset

\* Rounded half up, below two hundred units only all of them make 100 %.
LEMMA HundredIsAll ==
    ASSUME NEW done \in Nat, NEW total \in Nat \ {0}, done <= total, total < 200,
           (200 * done + total) \div (2 * total) = 100
    PROVE  done = total
<1>1. \A x \in Nat, y \in Nat \ {0} : x \div y = 100 => 100 * y <= x
  OBVIOUS
<1>2. 200 * done + total \in Nat /\ 2 * total \in Nat \ {0}
  OBVIOUS
<1>3. 100 * (2 * total) <= 200 * done + total
  BY <1>1, <1>2
<1> QED
  BY <1>3

\* Levels have at most 197 lessons: with a test and an assignment that is 199
\* units, and one of two hundred would be rounded away.
FewLessons == \A n \in 1 .. LastLevel : Cardinality(LessonsOf(n)) <= 197

\* What a member reads about a level is true, as long as no level has more
\* lessons than the rounding of its percentage can tell apart.
THEOREM PageIsTrue == ProgressSpec => [](FewLessons => ProgressPageIsTrue)
<1>1. TypeInv /\ NumbersDistinct => (FewLessons => ProgressPageIsTrue)
  <2> SUFFICES ASSUME TypeInv, NumbersDistinct, FewLessons,
                      NEW u \in active, NEW n \in 1 .. LastLevel, LessonsOf(n) # {}
               PROVE  /\ Percent(u, n) = 100 => Finished(u, n, watched, passed)
                      /\ NextRequirement(u, n) = "ready" => CanUnlock(u, n, watched, passed)
    BY DEF ProgressPageIsTrue
  <2>1. n \in Nat /\ LastLevel \in Nat \ {0}
    BY CatalogueAssumption
  <2>2. ASSUME NextRequirement(u, n) = "ready"
        PROVE  CanUnlock(u, n, watched, passed)
    <3>1. AllWatched(u, n, watched) /\ AllPassed(u, n, passed)
      BY <2>2 DEF NextRequirement
    <3>2. ~(n >= LastLevel)
      BY <2>2, <3>1 DEF NextRequirement
    <3>3. n \in 1 .. LastLevel - 1
      BY <2>1, <3>2
    <3> QED
      BY <3>1, <3>3 DEF CanUnlock, Finished
  <2>3. ASSUME Percent(u, n) = 100
        PROVE  Finished(u, n, watched, passed)
    <3> DEFINE here == LessonsOf(n)
               set == {v \in Assigned \intersect Rows(levels) : levels[v].number = n}
               watchedHere == {l \in LessonsOf(n) : <<u, l>> \in watched}
               handedIn == {v \in set : <<u, v>> \in submitted}
               tested == IF AllPassed(u, n, passed) THEN 1 ELSE 0
               total == Cardinality(here) + 1 + Cardinality(set)
               done == Cardinality(watchedHere) + tested + Cardinality(handedIn)
    <3>1. (200 * done + total) \div (2 * total) = 100
      BY <2>3 DEF Percent
    <3>2. IsFiniteSet(here) /\ Cardinality(here) \in Nat /\ Cardinality(here) <= 197
      <4>1. here \subseteq Lessons
        BY DEF LessonsOf, Rows, TypeInv, ProgressTypeOK
      <4> QED
        BY <4>1, CatalogueAssumption, FS_Subset, FS_CardinalityType DEF FewLessons
    <3>3. IsFiniteSet(set) /\ Cardinality(set) \in {0, 1}
      <4>1. \A v, w \in set : v = w
        BY DEF NumbersDistinct
      <4>2. set = {} \/ \E v : set = {v}
        BY <4>1
      <4> HIDE DEF set
      <4> QED
        BY <4>2, FS_EmptySet, FS_Singleton
    <3>4. /\ watchedHere \in SUBSET here /\ IsFiniteSet(watchedHere)
          /\ Cardinality(watchedHere) \in Nat /\ Cardinality(watchedHere) <= Cardinality(here)
      <4>1. watchedHere \in SUBSET here
        OBVIOUS
      <4> HIDE DEF watchedHere, here
      <4> QED
        BY <3>2, <4>1, FS_Subset, FS_CardinalityType
    <3>5. Cardinality(handedIn) \in Nat /\ Cardinality(handedIn) <= Cardinality(set)
      <4>1. handedIn \in SUBSET set
        OBVIOUS
      <4> HIDE DEF handedIn, set
      <4> QED
        BY <3>3, <4>1, FS_Subset, FS_CardinalityType
    <3>6. tested \in {0, 1} /\ (tested = 1 => AllPassed(u, n, passed))
      OBVIOUS
    <3>7. Cardinality(watchedHere) = Cardinality(here) /\ tested = 1
      <4> HIDE DEF here, set, watchedHere, handedIn, tested
      <4>1. done \in Nat /\ total \in Nat \ {0} /\ done <= total /\ total < 200
        BY <3>2, <3>3, <3>4, <3>5, <3>6
      <4>2. done = total
        <5> HIDE DEF done, total
        <5> QED
          BY <3>1, <4>1, HundredIsAll
      <4> QED
        BY <3>2, <3>3, <3>4, <3>5, <3>6, <4>2
    <3>8. watchedHere = here
      <4> HIDE DEF watchedHere, here
      <4> QED
        BY <3>2, <3>4, <3>7, AllOfThem
    <3>9. AllWatched(u, n, watched)
      BY <3>8 DEF AllWatched
    <3> QED
      BY <3>6, <3>7, <3>9 DEF Finished
  <2> QED
    BY <2>2, <2>3
<1>2. CoinInv => TypeInv
  BY DEF CoinInv
<1> QED
  BY <1>1, <1>2, CoinInvInit, CoinInvNext, NumbersAlways, PTL DEF ProgressSpec

=============================================================================
