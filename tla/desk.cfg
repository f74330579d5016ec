\* Uploads and reviews of one payment, for a tariff or for a course sold until a
\* date, each in several steps, under the fairness of started handlers.
SPECIFICATION FairDeskSpec

CONSTANTS
    ann = ann
    bob = bob
    cid = cid
    basic = basic
    vip = vip
    zen = zen
    check = check
    qr = qr
    ours = ours
    NoUser = NoUser
    Missing = Missing
    Null = Null
    Users = {ann}
    Tariffs = {basic}
    Basic = basic
    Courses = {zen}
    Inviter <- NobodyInvites
    Thresholds = {1, 3}
    WeekGoal = 1
    MonthGoal = 3
    WeekDays = 1
    MonthDays = 2
    SubscriptionIds = {1, 2}
    AdminStatuses = {}
    GiftDays = {}
    MaxGifts = 0
    DefaultTerm <- SellsUntilOne
    GrantTerms = {}
    PaymentIds = {1}
    ReceiptIds = {1, 2}
    PaymentTTL = 0
    SubscriptionDays = 1
    ReviewDays = {1}
    Docs = {"clean", "wrongAmount"}
    Text <- DocText
    Price <- Prices
    AllowedBins = {ours}
    Tolerance = 1
    DateSlack = 0
    DayLength = 10
    MaxTime = 2
    Requests = {1, 2, 3}

CHECK_DEADLOCK FALSE

INVARIANTS
    DeskInv
    ToldTheTruth

PROPERTIES
    ImplementsPayments
    CustomerHears
