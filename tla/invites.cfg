\* Links to a level, a course and a channel; one user asks, is blocked and let back in.
SPECIFICATION Spec

CONSTANTS
    Users = {ann}
    level = level
    course = course
    channel = channel
    Destinations = {level, course, channel}
    Source <- MCSource
    ByBot = {level, course, channel}
    Manual = {channel}
    Chats = {"hall", "club"}
    NoChat = NoChat
    SeedChats <- MCSeedChats
    Rights <- MCRights
    SeedUntil <- MCSeedUntil
    LinkIds = {1, 2}
    InviteIds = {1, 2}
    Tabs = {phone}
    Day = 2
    Term = 1
    CourseTerms = {3}
    FixedEnds = {1}
    Bought = {"subscription", course}
    Taken = {course}
    Edits <- MCEdits
    MaxTime = 2
    MaxChanges = 2
    MaxFaults = 1

CHECK_DEADLOCK FALSE

INVARIANTS
    BlockedIsOut
    InvitesSafe

PROPERTIES
    AppLinkEndsWithAccess
