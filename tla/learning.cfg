\* Learning: one user learns through three levels while an admin makes two edits.
SPECIFICATION DiligentSpec

CONSTANTS
    ann = ann
    one = one
    two = two
    quizA = quizA
    quizB = quizB
    quizC = quizC
    Missing = Missing
    Users = {ann}
    LevelIds = {one, two}
    Lessons = {1, 2, 3}
    Tests = {quizA, quizB, quizC}
    Assigned = {one}
    LastLevel = 3
    LevelNumbers = {1, 2, 3}
    SeedLevels <- TwoLevels
    Seeded = {1, 2}
    SeedLessons <- BothInOne
    SeedTests <- TestEach
    MaxEdits = 2

INVARIANTS
    ProgressTypeOK
    CoinsMatchLearning
    ProgressPageIsTrue

PROPERTIES
    LevelsAreEarned
    NothingLeftToOpen
    StudyLeadsOn
