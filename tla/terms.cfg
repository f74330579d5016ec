\* Terms: one user buys a tariff and a course, sold until a date, while an admin
\* grants, revokes and gives, and the minute job runs under fairness.
SPECIFICATION FairSpec

CONSTANTS
    ann = ann
    bob = bob
    cid = cid
    basic = basic
    vip = vip
    zen = zen
    check = check
    qr = qr
    ours = ours
    NoUser = NoUser
    Missing = Missing
    Null = Null
    Users = {ann}
    Tariffs = {basic}
    Basic = basic
    Courses = {zen}
    Inviter <- NobodyInvites
    Thresholds = {1, 3}
    WeekGoal = 1
    MonthGoal = 3
    WeekDays = 1
    MonthDays = 2
    SubscriptionIds = {1, 2}
    AdminStatuses = {"active"}
    GiftDays = {1}
    MaxGifts = 1
    DefaultTerm <- SellsUntilOne
    GrantTerms <- AdminTerms
    PaymentIds = {1, 2}
    ReceiptIds = {1}
    PaymentTTL = 1
    SubscriptionDays = 1
    ReviewDays = {1}
    Docs = {"clean"}
    Text <- DocText
    Price <- Prices
    AllowedBins = {ours}
    Tolerance = 1
    DateSlack = 0
    DayLength = 10
    MaxTime = 3

CHECK_DEADLOCK FALSE

INVARIANTS
    ApprovedDelivers
    OneOpenPending

PROPERTIES
    SweepsAreExact
