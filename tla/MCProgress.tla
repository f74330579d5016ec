----------------------------- MODULE MCProgress -----------------------------
(***************************************************************************)
(* Constant values for model-checking Progress.                            *)
(***************************************************************************)
EXTENDS Progress

CONSTANTS ann,       \* the user
          one, two,  \* two of the levels
          quizA, quizB, quizC   \* tests

\* Two lessons, each with a test, in the first level; the second is empty and a
\* third lesson and its test are not written yet.
TwoLevels == [v \in LevelIds |-> [number |-> IF v = one THEN 1 ELSE 2, live |-> TRUE]]
BothInOne ==
    [l \in Lessons |-> IF l < 3 THEN [level |-> one, live |-> TRUE] ELSE Missing]
TestEach ==
    [x \in Tests |->
        IF x = quizC THEN Missing
        ELSE [lesson |-> IF x = quizA THEN 1 ELSE 2, live |-> TRUE, edition |-> 0]]

=============================================================================
