\* Shop: ann invited the others. Purchases, referral bonuses and an admin who
\* pauses and resumes rows change one subscriptions table.
SPECIFICATION Spec

CONSTANTS
    ann = ann
    bob = bob
    cid = cid
    basic = basic
    vip = vip
    zen = zen
    check = check
    qr = qr
    ours = ours
    NoUser = NoUser
    Missing = Missing
    Null = Null
    Users = {ann, bob, cid}
    Tariffs = {basic}
    Basic = basic
    Courses = {zen}
    Inviter <- AnnInvites
    Thresholds = {1, 2}
    WeekGoal = 1
    MonthGoal = 2
    WeekDays = 1
    MonthDays = 2
    SubscriptionIds = {1, 2, 3}
    AdminStatuses = {"active", "paused"}
    GiftDays = {}
    MaxGifts = 0
    DefaultTerm <- SellsOneTick
    GrantTerms = {}
    PaymentIds = {1, 2, 3}
    ReceiptIds = {}
    PaymentTTL = 0
    SubscriptionDays = 1
    ReviewDays = {1}
    Docs = {}
    Text <- DocText
    Price <- Prices
    AllowedBins = {ours}
    Tolerance = 1
    DateSlack = 0
    DayLength = 10
    MaxTime = 2

CHECK_DEADLOCK FALSE

INVARIANTS
    RewardsFollowPayments
    AccessIsEarned

PROPERTIES
    BoughtDaysAreAdded

SYMMETRY Friends
