\* Documents: one paid friend gives seven days.
SPECIFICATION Spec

CONSTANTS
    ann = ann
    bob = bob
    cid = cid
    basic = basic
    vip = vip
    zen = zen
    check = check
    qr = qr
    ours = ours
    NoUser = NoUser
    Missing = Missing
    Null = Null
    Users = {ann, bob}
    Tariffs = {basic}
    Basic = basic
    Courses = {}
    Inviter <- AnnInvites
    Thresholds = {1, 2}
    WeekGoal = 1
    MonthGoal = 2
    WeekDays = 1
    MonthDays = 2
    SubscriptionIds = {1, 2}
    AdminStatuses = {}
    GiftDays = {}
    MaxGifts = 0
    DefaultTerm <- SellsOneTick
    GrantTerms = {}
    PaymentIds = {1, 2}
    ReceiptIds = {}
    PaymentTTL = 1
    SubscriptionDays = 1
    ReviewDays = {1}
    Docs = {}
    Text <- DocText
    Price <- Prices
    AllowedBins = {ours}
    Tolerance = 1
    DateSlack = 0
    DayLength = 10
    MaxTime = 2

CHECK_DEADLOCK FALSE

PROPERTIES
    RewardDaysOnce
