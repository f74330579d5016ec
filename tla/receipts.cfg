\* Receipts: two users race two payments with receipts of one transaction,
\* of one QR payload and of a wrong amount.
SPECIFICATION Spec

CONSTANTS
    ann = ann
    bob = bob
    cid = cid
    basic = basic
    vip = vip
    zen = zen
    check = check
    qr = qr
    ours = ours
    NoUser = NoUser
    Missing = Missing
    Null = Null
    Users = {ann, bob}
    Tariffs = {basic}
    Basic = basic
    Courses = {}
    Inviter <- NobodyInvites
    Thresholds = {1, 3}
    WeekGoal = 1
    MonthGoal = 3
    WeekDays = 1
    MonthDays = 2
    SubscriptionIds = {1, 2}
    AdminStatuses = {}
    GiftDays = {}
    MaxGifts = 0
    DefaultTerm <- SellsOneTick
    GrantTerms = {}
    PaymentIds = {1, 2}
    ReceiptIds = {1, 2, 3}
    PaymentTTL = 1
    SubscriptionDays = 1
    ReviewDays = {1}
    Docs <- AllDocs
    Text <- DocText
    Price <- Prices
    AllowedBins = {ours}
    Tolerance = 1
    DateSlack = 0
    DayLength = 10
    MaxTime = 2

CHECK_DEADLOCK FALSE

INVARIANTS
    TypeOK
    KeySpentOnce
    ApprovedReceiptBacked
    ReceiptStopsExpiry

PROPERTIES
    ApprovalIsFinal
    ImplementsLedger
