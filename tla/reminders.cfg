\* Reminders: three jobs, a restart with Redis or without, moved streams.
SPECIFICATION RemindersSpec

CONSTANTS
    ann = ann
    bob = bob
    talk = talk
    Users = {ann, bob}
    MaxTime = 4
    Streams = {talk}
    Windows = {1, 2}
    ZoomMinutes = {1}
    DayLength = 4
    Lead = 3
    Slack = 1
    ZoomTTL = 7
    SubscriptionTTL = 9
    StreamTTL = 3
    Term = 3
    SeedExpiry <- Ends
    SeedStart <- Planned
    Stores = {"redis", "memory"}
    Followed = {{"zoom"}, {"ending"}, {"stream"}}
    MaxChanges = 1
    MaxFaults = 2

CHECK_DEADLOCK FALSE

INVARIANTS
    RemindersSafe
    NothingLostQuietly
