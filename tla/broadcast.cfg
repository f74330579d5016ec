\* Broadcasts: two processes share one database, one of them stops or crashes.
SPECIFICATION FairSpec

CONSTANTS
    Users = {ann, bob}
    BroadcastIds = {1, 2}
    AskedTargets = {"inactive", "everyone"}
    Processes = {blue, green}
    MaxTime = 1
    MaxExits = 1

CHECK_DEADLOCK FALSE

INVARIANTS
    BroadcastSafe
    ReportIsTrue

PROPERTIES
    AnnouncementEnds
    ImplementsMailing
