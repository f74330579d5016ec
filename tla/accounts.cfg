\* Two people come by the bot and by the Mini App; the bot's process crashes
\* once, or the files of the agreement are replaced.
SPECIFICATION Spec

CONSTANTS
    ann = ann
    bob = bob
    People = {ann, bob}
    Nobody = Nobody
    Questions = 2
    Messages <- MCMessages
    MaxMessages = 4
    MaxCrashes = 1
    MaxFaults = 1
    Readers = {ann}
    MaxRevisions = 1
    Openings <- MCOpenings
    Followed <- MCFollowed

CHECK_DEADLOCK FALSE

INVARIANTS
    RegistryInv
    AnswersFitQuestions
    TermsSeenBeforePaying

PROPERTIES
    EveryMessageHandledOnce
