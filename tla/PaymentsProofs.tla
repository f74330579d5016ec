--------------------------- MODULE PaymentsProofs ---------------------------
(***************************************************************************)
(* Proofs about Payments and PaymentDesk, in five parts: the types; that   *)
(* receipts and payments stay in step; that Payments therefore implements  *)
(* PaymentLedger; what customers and inviters are promised, and what       *)
(* decisions without an admin rest on; that the handlers of PaymentDesk    *)
(* implement Payments, keep receipt files in step with the table of        *)
(* receipts, and tell customers the truth.                                 *)
(***************************************************************************)
EXTENDS PaymentDesk, FiniteSetTheorems, TLAPS

-----------------------------------------------------------------------------
(***************************************************************************)
(* Tables.                                                                 *)
(***************************************************************************)

\* A table without rows is a table of any rows.
LEMMA EmptyTableType ==
    ASSUME NEW Ids, NEW Row
    PROVE  IsTable(EmptyTable, Ids, Row)
BY DEF IsTable, EmptyTable

\* INSERT keeps a table well-typed.
LEMMA InsertType ==
    ASSUME NEW Ids, NEW Row, NEW t, IsTable(t, Ids, Row),
           NEW id \in Ids, NEW row \in Row
    PROVE  IsTable(Insert(t, id, row), Ids, Row)
BY DEF IsTable, Insert

\* The next id is an id.
LEMMA NextIdType ==
    ASSUME NEW Ids, NEW t
    PROVE  NextId(Ids, t) \subseteq Ids
BY DEF NextId

-----------------------------------------------------------------------------
(***************************************************************************)
(* Subscriptions.                                                          *)
(***************************************************************************)

SubscriptionTable(t) == IsTable(t, SubscriptionIds, SubscriptionRow)

LEMMA NewSubscriptionType ==
    ASSUME NEW u \in Users, NEW tariff \in Tariffs, NEW days \in Nat, clock \in Nat
    PROVE  NewSubscription(u, tariff, days) \in SubscriptionRow
BY DEF NewSubscription, SubscriptionRow, SubscriptionStatus

LEMMA StartedType ==
    ASSUME NEW t, SubscriptionTable(t), clock \in Nat,
           NEW u \in Users, NEW tariff \in Tariffs, NEW days \in Nat
    PROVE  \A s \in Started(t, u, tariff, days) : SubscriptionTable(s)
BY NewSubscriptionType, NextIdType, InsertType DEF Started, SubscriptionTable

\* Days bought leave the table well-typed.
LEMMA PurchasedType ==
    ASSUME NEW t, SubscriptionTable(t), clock \in Nat,
           NEW u \in Users, NEW tariff \in Tariffs, NEW days \in Nat
    PROVE  \A s \in Purchased(t, u, tariff, days) : SubscriptionTable(s)
<1>1. CASE Current(t, u) = {}
  BY <1>1, StartedType DEF Purchased
<1>2. CASE Current(t, u) # {}
  <2> SUFFICES ASSUME NEW i \in DOMAIN t
               PROVE  SubscriptionTable(
                          [t EXCEPT ![i].expires = t[i].expires + days, ![i].tariff = tariff])
    BY <1>2 DEF Purchased, LastToEnd, Current
  <2>1. t[i] \in SubscriptionRow
    BY DEF SubscriptionTable, IsTable
  <2>2. t[i].expires + days \in Nat
    BY <2>1 DEF SubscriptionRow
  <2> QED
    BY <2>1, <2>2 DEF SubscriptionTable, IsTable, SubscriptionRow
<1> QED
  BY <1>1, <1>2

\* So do days given.
LEMMA ExtendedType ==
    ASSUME NEW t, SubscriptionTable(t), clock \in Nat,
           NEW u \in Users, NEW tariff \in Tariffs, NEW days \in Nat
    PROVE  \A s \in Extended(t, u, tariff, days) : SubscriptionTable(s)
<1>1. CASE Current(t, u) = {}
  BY <1>1, StartedType DEF Extended
<1>2. CASE Current(t, u) # {}
  <2> SUFFICES ASSUME NEW i \in DOMAIN t
               PROVE  SubscriptionTable([t EXCEPT ![i].expires = @ + days])
    BY <1>2 DEF Extended, LastToEnd, Current
  <2>1. t[i] \in SubscriptionRow
    BY DEF SubscriptionTable, IsTable
  <2> QED
    BY <2>1 DEF SubscriptionTable, IsTable, SubscriptionRow
<1> QED
  BY <1>1, <1>2

-----------------------------------------------------------------------------
(***************************************************************************)
(* Receipts and payments.                                                  *)
(***************************************************************************)

PaymentTable(t) == IsTable(t, PaymentIds, PaymentRow)
ReceiptTable(t) == IsTable(t, ReceiptIds, ReceiptRow)

\* The parser gives known codes only.
LEMMA ParserCodesType ==
    ASSUME NEW text, NEW price, NEW created
    PROVE  ParserCodes(text, price, created) \subseteq Codes
BY DEF ParserCodes, AmountCodes, RecipientCodes, OtherCodes, Codes,
       HardRejectCodes, SuspiciousCodes, NeutralCodes

LEMMA ValidationStatusType ==
    ASSUME NEW codes
    PROVE  ValidationStatus(codes) \in ReceiptStatus
BY DEF ValidationStatus, ReceiptStatus

LEMMA ReceiptForType ==
    ASSUME NEW d \in Docs, NEW p \in PaymentIds, clock \in Nat
    PROVE  ReceiptFor(d, p) \in ReceiptRow
<1> DEFINE parsed == ParserCodes(Text[d], Price[payments[p].product], payments[p].created)
<1>1. parsed \subseteq Codes /\ ValidationStatus(parsed) \in ReceiptStatus
  BY ParserCodesType, ValidationStatusType
<1>2. DuplicateCode \in Codes /\ "duplicate" \in ReceiptStatus
  BY DEF Codes, ReceiptStatus
<1> QED
  BY <1>1, <1>2 DEF ReceiptFor, ReceiptRow

\* A decision finds a receipt of the payment, or none.
LEMMA LatestReceiptType ==
    ASSUME NEW rs, NEW p, NEW r \in LatestReceipt(rs, p)
    PROVE  r = 0 \/ r \in ReceiptsOf(rs, p)
BY DEF LatestReceipt, Newest

LEMMA MarkReceiptType ==
    ASSUME NEW rs, ReceiptTable(rs), NEW p, NEW r \in LatestReceipt(rs, p),
           NEW status \in ReceiptStatus
    PROVE  ReceiptTable(MarkReceipt(rs, r, status))
<1>1. CASE r = 0
  BY <1>1 DEF MarkReceipt
<1>2. CASE r # 0
  <2>1. r \in DOMAIN rs
    BY <1>2, LatestReceiptType DEF ReceiptsOf
  <2>2. rs[r] \in ReceiptRow
    BY <2>1 DEF ReceiptTable, IsTable
  <2> QED
    BY <1>2, <2>1, <2>2 DEF MarkReceipt, ReceiptTable, IsTable, ReceiptRow
<1> QED
  BY <1>1, <1>2

-----------------------------------------------------------------------------
(***************************************************************************)
(* What an approval grants.                                                *)
(***************************************************************************)

LEMMA TermEndsType ==
    ASSUME NEW term \in Terms, clock \in Nat
    PROVE  TermEnds(term) \subseteq Nat \cup {Null}
BY DEF TermEnds, Terms

LEMMA GrantAccessType ==
    ASSUME PremiumTypeOK, clock \in Nat, NEW u, NEW c, NEW term \in Terms,
           GrantAccess(u, c, term)
    PROVE  PremiumTypeOK'
<1>1. PICK e \in TermEnds(term) :
          access' = [access EXCEPT ![<<u, c>>] = [status |-> "active", expires |-> e]]
  BY DEF GrantAccess
<1>2. e \in Nat \cup {Null}
  BY TermEndsType
<1> QED
  BY <1>1, <1>2 DEF PremiumTypeOK, AccessRow, AccessStatus

LEMMA RewardInviterType ==
    ASSUME ReferralsTypeOK, NEW u \in Users, Referred(u), RewardInviter(u)
    PROVE  ReferralsTypeOK'
<1>1. Inviter[u] \in Users
  BY ReferralsAssumption DEF Referred
<1>2. \A count : Reached(count) \subseteq Thresholds
  BY DEF Reached
<1> QED
  BY <1>1, <1>2 DEF ReferralsTypeOK, RewardInviter

LEMMA BonusDaysType ==
    ASSUME NEW count
    PROVE  BonusDays(count) \in Nat
BY ReferralsAssumption DEF BonusDays

LEMMA AfterBonusType ==
    ASSUME NEW t, SubscriptionTable(t), clock \in Nat, NEW u \in Users
    PROVE  \A s \in AfterBonus(t, u) : SubscriptionTable(s)
<1>1. CASE Referred(u)
  <2>1. Inviter[u] \in Users /\ Basic \in Tariffs
    BY <1>1, ReferralsAssumption, SubscriptionsAssumption DEF Referred
  <2> QED
    BY <2>1, ExtendedType, BonusDaysType DEF AfterBonus
<1>2. CASE ~Referred(u)
  BY <1>2 DEF AfterBonus
<1> QED
  BY <1>1, <1>2

LEMMA GrantSubscriptionType ==
    ASSUME TypeOK, NEW u \in Users, NEW tariff \in Tariffs, NEW days \in Nat,
           GrantSubscription(u, tariff, days)
    PROVE  /\ SubscriptionTable(subscriptions')
           /\ ReferralsTypeOK'
           /\ PremiumTypeOK'
           /\ level' \in [Users -> Nat]
<1> USE DEF GrantSubscription
<1>1. SubscriptionTable(subscriptions) /\ clock \in Nat
  BY DEF TypeOK, PlatformTypeOK, SubscriptionsTypeOK, SubscriptionTable
<1>2. SubscriptionTable(subscriptions')
  BY <1>1, PurchasedType, AfterBonusType
<1>3. ReferralsTypeOK'
  BY RewardInviterType DEF TypeOK, ReferralsTypeOK, referralVars
<1>4. PremiumTypeOK' /\ level' \in [Users -> Nat]
  BY DEF TypeOK, PremiumTypeOK
<1> QED
  BY <1>2, <1>3, <1>4

LEMMA GrantCourseType ==
    ASSUME TypeOK, NEW u \in Users, NEW c \in Courses, GrantCourse(u, c)
    PROVE  /\ SubscriptionTable(subscriptions')
           /\ ReferralsTypeOK'
           /\ PremiumTypeOK'
           /\ level' \in [Users -> Nat]
<1> USE DEF GrantCourse
<1>1. PremiumTypeOK'
  BY GrantAccessType, PremiumAssumption DEF TypeOK, PlatformTypeOK
<1> QED
  BY <1>1 DEF TypeOK, SubscriptionsTypeOK, SubscriptionTable, ReferralsTypeOK, referralVars

LEMMA ApproveType ==
    ASSUME TypeOK, NEW ps, PaymentTable(ps), NEW rs, ReceiptTable(rs),
           NEW p \in DOMAIN ps, NEW days \in Nat, NEW byAdmin \in BOOLEAN,
           Approve(ps, rs, p, days, byAdmin)
    PROVE  TypeOK'
<1>1. PICK r \in LatestReceipt(rs, p) :
          /\ payments' = [ps EXCEPT ![p].status = "approved",
                                    ![p].autoRejected = FALSE,
                                    ![p].reviewed = byAdmin]
          /\ receipts' = MarkReceipt(rs, r, "approved")
  BY DEF Approve
<1>2. ps[p] \in PaymentRow
  BY DEF PaymentTable, IsTable
<1>3. PaymentTable(payments')
  BY <1>1, <1>2 DEF PaymentTable, IsTable, PaymentRow, PaymentStatus
<1>4. ReceiptTable(receipts')
  BY <1>1, MarkReceiptType DEF ReceiptStatus
<1>5. /\ SubscriptionTable(subscriptions')
      /\ ReferralsTypeOK'
      /\ PremiumTypeOK'
      /\ level' \in [Users -> Nat]
  BY <1>2, GrantSubscriptionType, GrantCourseType DEF Approve, PaymentRow, Products
<1>6. PlatformTypeOK' /\ gifts' \in [Users -> Nat]
  BY DEF Approve, TypeOK, PlatformTypeOK, SubscriptionsTypeOK
<1> QED
  BY <1>3, <1>4, <1>5, <1>6
  DEF TypeOK, SubscriptionsTypeOK, SubscriptionTable, PaymentTable, ReceiptTable

-----------------------------------------------------------------------------
(***************************************************************************)
(* Every step keeps the types.                                             *)
(***************************************************************************)

LEMMA NewPaymentType ==
    ASSUME NEW u \in Users, NEW x \in Products, clock \in Nat
    PROVE  NewPayment(u, x) \in PaymentRow
BY PaymentsAssumption DEF NewPayment, PaymentRow, PaymentStatus

LEMMA CreatePaymentType ==
    ASSUME TypeOK, NEW u \in Users, NEW x \in Products, CreatePayment(u, x)
    PROVE  TypeOK'
<1>1. PaymentTable(payments) /\ clock \in Nat
  BY DEF TypeOK, PaymentTable, PlatformTypeOK
<1>2. PaymentTable(payments')
  <2>1. CASE Reusable(u, x) # {}
    <3>1. PICK p \in Newest(payments, Reusable(u, x)) :
              payments' = [payments EXCEPT ![p].expires = clock + PaymentTTL]
      BY <2>1 DEF CreatePayment
    <3>2. p \in DOMAIN payments
      BY DEF Newest, Reusable
    <3>3. payments[p] \in PaymentRow /\ clock + PaymentTTL \in Nat
      BY <1>1, <3>2, PaymentsAssumption DEF PaymentTable, IsTable
    <3> QED
      BY <1>1, <3>1, <3>3 DEF PaymentTable, IsTable, PaymentRow
  <2>2. CASE Reusable(u, x) = {}
    BY <1>1, <2>2, NewPaymentType, NextIdType, InsertType DEF CreatePayment, PaymentTable
  <2> QED
    BY <2>1, <2>2
<1> QED
  BY <1>2 DEF TypeOK, CreatePayment, PaymentTable, PlatformTypeOK, SubscriptionsTypeOK,
              ReferralsTypeOK, referralVars, PremiumTypeOK

LEMMA AttachReceiptType ==
    ASSUME TypeOK, NEW p \in DOMAIN payments, NEW d \in Docs, AttachReceipt(d, p)
    PROVE  TypeOK'
<1> DEFINE row == ReceiptFor(d, p)
           refused == AutoRejects(row.status, row.codes)
           ps == Moved(p, row)
<1>1. PaymentTable(payments) /\ ReceiptTable(receipts) /\ clock \in Nat /\ p \in PaymentIds
  BY DEF TypeOK, PaymentTable, ReceiptTable, PlatformTypeOK, IsTable
<1>2. row \in ReceiptRow
  BY <1>1, ReceiptForType
<1>3. PICK r \in NextId(ReceiptIds, receipts) :
          IF row.status = "valid_candidate"
          THEN Approve(ps, Insert(receipts, r, row), p, SubscriptionDays, FALSE)
          ELSE /\ payments' = ps
               /\ receipts' = Insert(receipts, r, row)
               /\ UNCHANGED <<clock, subscriptions, gifts, referralVars, access, level>>
  BY DEF AttachReceipt
<1>4. ReceiptTable(Insert(receipts, r, row))
  BY <1>1, <1>2, NextIdType, InsertType DEF ReceiptTable
<1>5. PaymentTable(ps) /\ p \in DOMAIN ps
  <2>1. payments[p] \in PaymentRow /\ refused \in BOOLEAN
    BY <1>1 DEF PaymentTable, IsTable, AutoRejects
  <2> QED
    BY <1>1, <2>1 DEF Moved, PaymentTable, IsTable, PaymentRow, PaymentStatus
<1>6. CASE row.status = "valid_candidate"
  <2> HIDE DEF ps, row
  <2> QED
    BY <1>3, <1>4, <1>5, <1>6, ApproveType, PaymentsAssumption
<1>7. CASE row.status # "valid_candidate"
  <2> HIDE DEF ps, row
  <2>1. /\ PaymentTable(payments') /\ ReceiptTable(receipts')
        /\ UNCHANGED <<clock, subscriptions, gifts, referralVars, access, level>>
    BY <1>3, <1>4, <1>5, <1>7
  <2> QED
    BY <2>1 DEF TypeOK, PaymentTable, ReceiptTable, PlatformTypeOK, SubscriptionsTypeOK,
                ReferralsTypeOK, referralVars, PremiumTypeOK
<1> QED
  BY <1>6, <1>7

LEMMA UserStepType ==
    ASSUME TypeOK, UserStep
    PROVE  TypeOK'
<1>1. PICK u \in Users :
          \/ \E x \in Products : CreatePayment(u, x)
          \/ \E p \in PaymentIds, d \in Docs : UploadToPayment(u, p, d)
          \/ \E d \in Docs : UploadToBot(u, d)
  BY DEF UserStep
<1>2. CASE \E x \in Products : CreatePayment(u, x)
  BY <1>2, CreatePaymentType
<1>3. CASE \E p \in PaymentIds, d \in Docs : UploadToPayment(u, p, d)
  BY <1>3, AttachReceiptType DEF UploadToPayment, Open
<1>4. CASE \E d \in Docs : UploadToBot(u, d)
  BY <1>4, AttachReceiptType DEF UploadToBot, Newest, Open
<1> QED
  BY <1>1, <1>2, <1>3, <1>4

LEMMA ReviewStepType ==
    ASSUME TypeOK, ReviewStep
    PROVE  TypeOK'
<1>0. PaymentTable(payments) /\ ReceiptTable(receipts)
  BY DEF TypeOK, PaymentTable, ReceiptTable
<1>1. PICK p \in PaymentIds :
          (\E days \in ReviewDays : ApprovePayment(p, days)) \/ RejectPayment(p)
  BY DEF ReviewStep
<1>2. CASE \E days \in ReviewDays : ApprovePayment(p, days)
  BY <1>0, <1>2, ApproveType, PaymentsAssumption DEF ApprovePayment
<1>3. CASE RejectPayment(p)
  <2>1. payments[p] \in PaymentRow
    BY <1>0, <1>3 DEF RejectPayment, PaymentTable, IsTable
  <2>2. PaymentTable(payments')
    BY <1>0, <1>3, <2>1 DEF RejectPayment, PaymentTable, IsTable, PaymentRow, PaymentStatus
  <2>3. ReceiptTable(receipts')
    BY <1>0, <1>3, MarkReceiptType DEF RejectPayment, ReceiptStatus
  <2> QED
    BY <1>3, <2>2, <2>3
    DEF RejectPayment, TypeOK, PaymentTable, ReceiptTable, PlatformTypeOK, SubscriptionsTypeOK,
        ReferralsTypeOK, referralVars, PremiumTypeOK
<1> QED
  BY <1>1, <1>2, <1>3

LEMMA AdminStepType ==
    ASSUME TypeOK, AdminStep
    PROVE  TypeOK'
<1>0. SubscriptionTable(subscriptions) /\ gifts \in [Users -> Nat] /\ clock \in Nat
  BY DEF TypeOK, SubscriptionsTypeOK, SubscriptionTable, PlatformTypeOK
<1>1. ASSUME NEW s \in SubscriptionIds, NEW status \in AdminStatuses,
             AdminSetsSubscription(s, status)
      PROVE  TypeOK'
  <2>1. subscriptions[s] \in SubscriptionRow /\ status \in SubscriptionStatus
    BY <1>0, <1>1, SubscriptionsAssumption
    DEF AdminSetsSubscription, UpdateSubscriptionStatus, SubscriptionTable, IsTable
  <2>2. SubscriptionTable(subscriptions')
    BY <1>0, <1>1, <2>1
    DEF AdminSetsSubscription, UpdateSubscriptionStatus, SubscriptionTable, IsTable, SubscriptionRow
  <2> QED
    BY <1>1, <2>2
    DEF AdminSetsSubscription, UpdateSubscriptionStatus, TypeOK, SubscriptionTable,
        PlatformTypeOK, SubscriptionsTypeOK, ReferralsTypeOK, referralVars, PremiumTypeOK
<1>2. ASSUME NEW u \in Users, NEW tariff \in Tariffs, NEW days \in GiftDays,
             AdminGivesDays(u, tariff, days)
      PROVE  TypeOK'
  <2>1. days \in Nat
    BY SubscriptionsAssumption
  <2>2. SubscriptionTable(subscriptions')
    BY <1>0, <1>2, <2>1, ExtendedType DEF AdminGivesDays, ManualAddSubscriptionDays
  <2>3. gifts' \in [Users -> Nat]
    BY <1>0, <1>2 DEF AdminGivesDays, ManualAddSubscriptionDays
  <2> QED
    BY <1>2, <2>2, <2>3
    DEF AdminGivesDays, ManualAddSubscriptionDays, TypeOK, SubscriptionTable,
        PlatformTypeOK, SubscriptionsTypeOK, ReferralsTypeOK, referralVars, PremiumTypeOK
<1>3. ASSUME NEW u \in Users, NEW c \in Courses, NEW term \in GrantTerms,
             AdminGrantsAccess(u, c, term)
      PROVE  TypeOK'
  <2>1. PremiumTypeOK'
    BY <1>0, <1>3, GrantAccessType, PremiumAssumption DEF AdminGrantsAccess, TypeOK
  <2> QED
    BY <1>3, <2>1
    DEF AdminGrantsAccess, TypeOK, PlatformTypeOK, SubscriptionsTypeOK, ReferralsTypeOK, referralVars
<1>4. ASSUME NEW u \in Users, NEW c \in Courses, AdminRevokesAccess(u, c)
      PROVE  TypeOK'
  <2>1. PremiumTypeOK'
    BY <1>4
    DEF AdminRevokesAccess, RevokePremiumCourseAccess, TypeOK, PremiumTypeOK, AccessRow, AccessStatus
  <2> QED
    BY <1>4, <2>1
    DEF AdminRevokesAccess, TypeOK, PlatformTypeOK, SubscriptionsTypeOK, ReferralsTypeOK, referralVars
<1> QED
  BY <1>1, <1>2, <1>3, <1>4 DEF AdminStep

LEMMA MinuteJobType ==
    ASSUME TypeOK, MinuteJob
    PROVE  TypeOK'
<1>1. CASE ExpirePendingPayments
  <2>1. PaymentTable(payments')
    BY <1>1 DEF ExpirePendingPayments, TypeOK, PaymentTable, IsTable, PaymentRow, PaymentStatus
  <2> QED
    BY <1>1, <2>1
    DEF ExpirePendingPayments, TypeOK, PaymentTable, PlatformTypeOK, SubscriptionsTypeOK,
        ReferralsTypeOK, referralVars, PremiumTypeOK
<1>2. CASE SweepSubscriptions
  <2>1. SubscriptionTable(subscriptions')
    BY <1>2
    DEF SweepSubscriptions, ExpireSubscriptions, TypeOK, SubscriptionsTypeOK, SubscriptionTable,
        IsTable, SubscriptionRow, SubscriptionStatus
  <2> QED
    BY <1>2, <2>1
    DEF SweepSubscriptions, ExpireSubscriptions, TypeOK, SubscriptionTable, PlatformTypeOK,
        SubscriptionsTypeOK, ReferralsTypeOK, referralVars, PremiumTypeOK
<1>3. CASE SweepAccess
  <2>1. PremiumTypeOK'
    BY <1>3
    DEF SweepAccess, ExpirePremiumCourseAccesses, TypeOK, PremiumTypeOK, AccessRow, AccessStatus
  <2> QED
    BY <1>3, <2>1
    DEF SweepAccess, TypeOK, PlatformTypeOK, SubscriptionsTypeOK, ReferralsTypeOK, referralVars
<1> QED
  BY <1>1, <1>2, <1>3 DEF MinuteJob

LEMMA InitType ==
    ASSUME Init
    PROVE  TypeOK
BY EmptyTableType
DEF Init, PlatformInit, SubscriptionsInit, ReferralsInit, PremiumInit, TypeOK, PlatformTypeOK,
    SubscriptionsTypeOK, ReferralsTypeOK, PremiumTypeOK, AccessRow, AccessStatus

LEMMA NextType ==
    ASSUME TypeOK, [Next]_vars
    PROVE  TypeOK'
<1>1. CASE Tick
  BY <1>1
  DEF Tick, PassTime, TypeOK, PlatformTypeOK, SubscriptionsTypeOK, ReferralsTypeOK, referralVars,
      PremiumTypeOK
<1>2. CASE UNCHANGED vars
  BY <1>2
  DEF vars, TypeOK, PlatformTypeOK, SubscriptionsTypeOK, ReferralsTypeOK, PremiumTypeOK
<1> QED
  BY <1>1, <1>2, UserStepType, ReviewStepType, AdminStepType, MinuteJobType DEF Next

\* No handler, job or admin ever writes a row the tables are not meant for: an
\* unknown user, product, tariff, status or error code.
THEOREM TypeCorrect == Spec => []TypeOK
<1>1. Init => TypeOK
  BY InitType
<1>2. TypeOK /\ [Next]_vars => TypeOK'
  BY NextType
<1> QED
  BY <1>1, <1>2, PTL DEF Spec

-----------------------------------------------------------------------------
(***************************************************************************)
(* Receipts and payments in step.                                          *)
(*                                                                         *)
(* None of KeySpentOnce, ApprovedReceiptBacked and ReceiptStopsExpiry is   *)
(* kept by every step on its own.  Together they are, with two facts more: *)
(* a receipt names a stored payment, and a payment that waits for review   *)
(* has no receipt that the look-up found to be a duplicate, because the    *)
(* upload of such a receipt refuses the payment.                           *)
(***************************************************************************)

Marked(rs) == {r \in DOMAIN rs : rs[r].status = "approved"}

Belong(ps, rs) == \A r \in DOMAIN rs : rs[r].payment \in DOMAIN ps

Stopped(ps, rs) ==
    \A r \in DOMAIN rs : ps[rs[r].payment].status \notin {"pending", "expired"}

Unflagged(ps, rs) ==
    \A r \in DOMAIN rs :
        DuplicateCode \in rs[r].codes => ps[rs[r].payment].status # "uploaded_receipt"

Backed(ps, rs) ==
    \A r \in Marked(rs) :
        /\ ps[rs[r].payment].status = "approved"
        /\ \A q \in Marked(rs) : rs[q].payment = rs[r].payment => q = r
        /\ DuplicateCode \notin rs[r].codes

SpentOnce(rs) ==
    \A q, r \in Marked(rs) :
        q # r /\ TransactionKey(rs[q].doc) # Missing =>
            TransactionKey(rs[q].doc) # TransactionKey(rs[r].doc)

\* Of the stored tables, and of those an upload writes before it approves.
Sound(ps, rs) ==
    /\ PaymentTable(ps) /\ ReceiptTable(rs)
    /\ Belong(ps, rs)
    /\ Stopped(ps, rs)
    /\ Unflagged(ps, rs)
    /\ Backed(ps, rs)
    /\ SpentOnce(rs)

Inv == TypeOK /\ Sound(payments, receipts)

-----------------------------------------------------------------------------

\* The receipts of a payment matter only through its status.
LEMMA SameStatusSound ==
    ASSUME NEW ps, NEW rs, Sound(ps, rs), NEW qs, PaymentTable(qs),
           \A r \in DOMAIN rs : /\ rs[r].payment \in DOMAIN qs
                                /\ qs[rs[r].payment].status = ps[rs[r].payment].status
    PROVE  Sound(qs, rs)
BY DEF Sound, Belong, Stopped, Unflagged, Backed, Marked

\* Storing a receipt of an open payment moves it to review, or refuses it when
\* the receipt is a duplicate.
LEMMA StoreSound ==
    ASSUME NEW ps, NEW rs, Sound(ps, rs),
           NEW p \in DOMAIN ps, ps[p].status \in {"pending", "uploaded_receipt"},
           NEW i \in ReceiptIds \ DOMAIN rs, NEW row \in ReceiptRow,
           row.payment = p, row.status # "approved",
           NEW qs, PaymentTable(qs), DOMAIN qs = DOMAIN ps,
           \A q \in DOMAIN ps \ {p} : qs[q] = ps[q],
           qs[p].status \in {"uploaded_receipt", "rejected"},
           DuplicateCode \in row.codes => qs[p].status = "rejected"
    PROVE  Sound(qs, Insert(rs, i, row))
<1> DEFINE ts == Insert(rs, i, row)
<1>1. DOMAIN ts = DOMAIN rs \cup {i} /\ ts[i] = row /\ \A r \in DOMAIN rs : ts[r] = rs[r]
  BY DEF Insert
<1>2. Marked(ts) = Marked(rs)
  BY <1>1 DEF Marked
<1>3. ReceiptTable(ts)
  BY InsertType DEF Sound, ReceiptTable
<1> HIDE DEF ts
<1>4. Belong(qs, ts)
  BY <1>1 DEF Sound, Belong
<1>5. Stopped(qs, ts)
  BY <1>1 DEF Sound, Stopped, Belong
<1>6. Unflagged(qs, ts)
  <2> SUFFICES ASSUME NEW r \in DOMAIN ts, DuplicateCode \in ts[r].codes
               PROVE  qs[ts[r].payment].status # "uploaded_receipt"
    BY DEF Unflagged
  <2>1. CASE r = i
    BY <1>1, <2>1
  <2>2. CASE r # i /\ rs[r].payment # p
    BY <1>1, <2>2 DEF Sound, Unflagged, Belong
  <2>3. CASE r # i /\ rs[r].payment = p
    <3>1. ps[p].status \notin {"uploaded_receipt", "pending"}
      BY <1>1, <2>3 DEF Sound, Unflagged, Stopped
    <3> QED
      BY <3>1
  <2> QED
    BY <2>1, <2>2, <2>3
<1>7. \A r \in Marked(rs) : rs[r].payment # p
  BY DEF Sound, Backed
<1>8. Backed(qs, ts)
  BY <1>1, <1>2, <1>7 DEF Sound, Backed, Marked, Belong
<1>9. SpentOnce(ts)
  BY <1>1, <1>2 DEF Sound, SpentOnce, Marked
<1> QED
  BY <1>3, <1>4, <1>5, <1>6, <1>8, <1>9 DEF Sound, ts

\* A decision changes the status of one receipt of the payment, if there is one.
LEMMA MarkedRows ==
    ASSUME NEW rs, ReceiptTable(rs), NEW p, NEW r \in LatestReceipt(rs, p), NEW status
    PROVE  LET ts == MarkReceipt(rs, r, status)
           IN  /\ r = 0 \/ (r \in DOMAIN rs /\ rs[r].payment = p)
               /\ DOMAIN ts = DOMAIN rs
               /\ \A q \in DOMAIN rs : /\ ts[q].payment = rs[q].payment
                                       /\ ts[q].codes = rs[q].codes
                                       /\ ts[q].doc = rs[q].doc
               /\ \A q \in DOMAIN rs \ {r} : ts[q] = rs[q]
               /\ r # 0 => ts[r].status = status
<1>1. r = 0 \/ (r \in DOMAIN rs /\ rs[r].payment = p)
  BY LatestReceiptType DEF ReceiptsOf
<1>2. CASE r = 0
  BY <1>2 DEF MarkReceipt
<1>3. CASE r # 0
  <2> DEFINE ts == [rs EXCEPT ![r].status = status]
  <2>1. MarkReceipt(rs, r, status) = ts /\ r \in DOMAIN rs /\ rs[r].payment = p
    BY <1>1, <1>3 DEF MarkReceipt
  <2>2. rs[r] \in ReceiptRow
    BY <2>1 DEF ReceiptTable, IsTable
  <2>3. /\ ts[r].status = status /\ ts[r].payment = rs[r].payment
        /\ ts[r].codes = rs[r].codes /\ ts[r].doc = rs[r].doc
    BY <2>1, <2>2 DEF ReceiptRow
  <2>4. DOMAIN ts = DOMAIN rs /\ \A q \in DOMAIN rs \ {r} : ts[q] = rs[q]
    BY <2>1
  <2> HIDE DEF ts
  <2> QED
    BY <1>3, <2>1, <2>3, <2>4
<1> QED
  BY <1>2, <1>3

\* Approving a payment marks one receipt of it, whose number was not used.
LEMMA ApproveSound ==
    ASSUME NEW ps, NEW rs, Sound(ps, rs),
           NEW p \in DOMAIN ps, ps[p].status # "approved",
           NEW r \in LatestReceipt(rs, p), KeyUnused(rs, r),
           r # 0 => DuplicateCode \notin rs[r].codes,
           NEW qs, PaymentTable(qs), DOMAIN qs = DOMAIN ps,
           \A q \in DOMAIN ps \ {p} : qs[q] = ps[q],
           qs[p].status = "approved"
    PROVE  Sound(qs, MarkReceipt(rs, r, "approved"))
<1> DEFINE ts == MarkReceipt(rs, r, "approved")
<1>0. ReceiptTable(ts)
  BY MarkReceiptType DEF Sound, ReceiptStatus
<1>1. /\ r = 0 \/ (r \in DOMAIN rs /\ rs[r].payment = p)
      /\ \A q \in DOMAIN rs \ {r} : ts[q] = rs[q]
      /\ r # 0 => ts[r].status = "approved"
  BY MarkedRows DEF Sound
<1>2. /\ DOMAIN ts = DOMAIN rs
      /\ \A q \in DOMAIN rs : /\ ts[q].payment = rs[q].payment
                              /\ ts[q].codes = rs[q].codes
                              /\ ts[q].doc = rs[q].doc
      /\ Marked(ts) = Marked(rs) \cup ({r} \ {0})
  <2>1. /\ DOMAIN ts = DOMAIN rs
        /\ \A q \in DOMAIN rs : /\ ts[q].payment = rs[q].payment
                                /\ ts[q].codes = rs[q].codes
                                /\ ts[q].doc = rs[q].doc
    BY MarkedRows DEF Sound
  <2> HIDE DEF ts
  <2>2. CASE r = 0
    <3>1. 0 \notin DOMAIN rs
      BY PaymentsAssumption DEF Sound, ReceiptTable, IsTable
    <3> QED
      BY <1>1, <2>1, <2>2, <3>1 DEF Marked
  <2>3. CASE r # 0
    BY <1>1, <2>1, <2>3 DEF Marked
  <2> QED
    BY <2>1, <2>2, <2>3
<1> HIDE DEF ts
<1>3. \A q \in Marked(rs) : rs[q].payment # p
  BY DEF Sound, Backed
<1>4. Belong(qs, ts)
  BY <1>2 DEF Sound, Belong
<1>5. Stopped(qs, ts) /\ Unflagged(qs, ts)
  BY <1>2 DEF Sound, Belong, Stopped, Unflagged
<1>6. \A q \in Marked(ts) : q \in DOMAIN rs /\ DuplicateCode \notin rs[q].codes
  BY <1>1, <1>2 DEF Sound, Backed, Marked
<1>7. \A q \in Marked(ts) : rs[q].payment = p => q = r
  BY <1>2, <1>3
<1>8. Backed(qs, ts)
  <2> SUFFICES ASSUME NEW q \in Marked(ts)
               PROVE  /\ qs[ts[q].payment].status = "approved"
                      /\ \A o \in Marked(ts) : ts[o].payment = ts[q].payment => o = q
                      /\ DuplicateCode \notin ts[q].codes
    BY DEF Backed
  <2>1. CASE rs[q].payment = p
    BY <1>2, <1>6, <1>7, <2>1
  <2>2. CASE rs[q].payment # p
    <3>1. q \in Marked(rs)
      BY <1>1, <1>2, <2>2
    <3> QED
      BY <1>1, <1>2, <1>6, <2>2, <3>1 DEF Sound, Backed, Belong
  <2> QED
    BY <2>1, <2>2
<1>9. SpentOnce(ts)
  <2> SUFFICES ASSUME NEW q \in Marked(ts), NEW o \in Marked(ts), q # o,
                      TransactionKey(rs[q].doc) # Missing
               PROVE  TransactionKey(rs[q].doc) # TransactionKey(rs[o].doc)
    BY <1>2, <1>6 DEF SpentOnce
  <2>0. q # 0 /\ o # 0
    BY <1>6, PaymentsAssumption DEF Sound, ReceiptTable, IsTable
  <2>1. CASE q = r
    <3>1. o \in DOMAIN rs \ {r} /\ rs[o].status = "approved"
      BY <1>2, <1>6, <2>1 DEF Marked
    <3> QED
      BY <2>0, <2>1, <3>1 DEF KeyUnused
  <2>2. CASE o = r
    <3>1. q \in DOMAIN rs \ {r} /\ rs[q].status = "approved"
      BY <1>2, <1>6, <2>2 DEF Marked
    <3> QED
      BY <2>0, <2>2, <3>1 DEF KeyUnused
  <2>3. CASE q # r /\ o # r
    BY <1>2, <2>3 DEF Sound, SpentOnce
  <2> QED
    BY <2>1, <2>2, <2>3
<1> QED
  BY <1>0, <1>4, <1>5, <1>8, <1>9 DEF Sound, ts

-----------------------------------------------------------------------------
(***************************************************************************)
(* The steps that touch payments or receipts.                              *)
(***************************************************************************)

\* What approvePaymentTx does to the two tables.
LEMMA ApproveTables ==
    ASSUME NEW ps, NEW rs, PaymentTable(ps),
           NEW p \in DOMAIN ps, NEW days, NEW byAdmin \in BOOLEAN,
           Approve(ps, rs, p, days, byAdmin)
    PROVE  \E r \in LatestReceipt(rs, p) :
               /\ KeyUnused(rs, r)
               /\ byAdmin /\ r # 0 => ~BlocksManualApproval(rs[r])
               /\ receipts' = MarkReceipt(rs, r, "approved")
               /\ PaymentTable(payments') /\ DOMAIN payments' = DOMAIN ps
               /\ \A q \in DOMAIN ps \ {p} : payments'[q] = ps[q]
               /\ payments'[p].status = "approved"
<1>1. PICK r \in LatestReceipt(rs, p) :
          /\ KeyUnused(rs, r)
          /\ byAdmin /\ r # 0 => ~BlocksManualApproval(rs[r])
          /\ payments' = [ps EXCEPT ![p].status = "approved",
                                    ![p].autoRejected = FALSE,
                                    ![p].reviewed = byAdmin]
          /\ receipts' = MarkReceipt(rs, r, "approved")
  BY DEF Approve, Approvable
<1>2. ps[p] \in PaymentRow
  BY DEF PaymentTable, IsTable
<1>3. PaymentTable(payments') /\ DOMAIN payments' = DOMAIN ps
  BY <1>1, <1>2 DEF PaymentTable, IsTable, PaymentRow, PaymentStatus
<1>4. payments'[p].status = "approved" /\ \A q \in DOMAIN ps \ {p} : payments'[q] = ps[q]
  BY <1>1, <1>2 DEF PaymentRow
<1> QED
  BY <1>1, <1>3, <1>4

\* What an upload leads to: the tables with the receipt row i and the moved
\* payment p, and the approval of p when nothing is wrong with the receipt.
Attached(p, i, row) ==
    LET qs == Moved(p, row) IN
    /\ row.payment = p /\ row.status # "approved"
    /\ PaymentTable(qs) /\ DOMAIN qs = DOMAIN payments
    /\ \A q \in DOMAIN payments \ {p} : qs[q] = payments[q]
    /\ qs[p].status \in {"uploaded_receipt", "rejected"}
    /\ DuplicateCode \in row.codes => qs[p].status = "rejected"
    /\ \/ /\ qs[p].status = "uploaded_receipt"
          /\ Approve(qs, Insert(receipts, i, row), p, SubscriptionDays, FALSE)
       \/ payments' = qs /\ receipts' = Insert(receipts, i, row)

LEMMA AttachTables ==
    ASSUME TypeOK, NEW p \in DOMAIN payments, NEW d \in Docs, AttachReceipt(d, p)
    PROVE  \E i \in ReceiptIds \ DOMAIN receipts, row \in ReceiptRow : Attached(p, i, row)
<1> DEFINE row == ReceiptFor(d, p)
           refused == AutoRejects(row.status, row.codes)
           qs == Moved(p, row)
<1>1. PaymentTable(payments) /\ ReceiptTable(receipts) /\ clock \in Nat /\ p \in PaymentIds
  BY DEF TypeOK, PaymentTable, ReceiptTable, PlatformTypeOK, IsTable
<1>2. row \in ReceiptRow
  BY <1>1, ReceiptForType
<1>3. row.payment = p /\ row.status # "approved"
  BY DEF ReceiptFor, ValidationStatus
<1>4. refused \in BOOLEAN /\ (DuplicateCode \in row.codes => refused)
  BY DEF AutoRejects
<1>5. row.status = "valid_candidate" => ~refused
  <2>1. SUFFICES ASSUME row.status = "valid_candidate"
                 PROVE  ~refused
    OBVIOUS
  <2>2. row.codes = {}
    BY <2>1 DEF ReceiptFor, ValidationStatus
  <2> QED
    BY <2>1, <2>2 DEF AutoRejects
<1> HIDE DEF row
<1>6. payments[p] \in PaymentRow
  BY <1>1 DEF PaymentTable, IsTable
<1>7. /\ PaymentTable(qs) /\ DOMAIN qs = DOMAIN payments
      /\ \A q \in DOMAIN payments \ {p} : qs[q] = payments[q]
      /\ qs[p].status = IF refused THEN "rejected" ELSE "uploaded_receipt"
  BY <1>1, <1>4, <1>6 DEF Moved, PaymentTable, IsTable, PaymentRow, PaymentStatus
<1>8. PICK i \in NextId(ReceiptIds, receipts) :
          IF row.status = "valid_candidate"
          THEN Approve(qs, Insert(receipts, i, row), p, SubscriptionDays, FALSE)
          ELSE payments' = qs /\ receipts' = Insert(receipts, i, row)
  BY DEF AttachReceipt, row
<1>9. i \in ReceiptIds \ DOMAIN receipts
  BY DEF NextId
<1> HIDE DEF refused
<1>10. Attached(p, i, row)
  BY <1>3, <1>4, <1>5, <1>7, <1>8 DEF Attached
<1> QED
  BY <1>2, <1>9, <1>10

LEMMA AttachSound ==
    ASSUME Inv, NEW u, NEW p \in Open(u), NEW d \in Docs, AttachReceipt(d, p)
    PROVE  Sound(payments, receipts)'
<1>0. p \in DOMAIN payments /\ payments[p].status \in {"pending", "uploaded_receipt"}
  BY DEF Open
<1>1. PICK i \in ReceiptIds \ DOMAIN receipts, row \in ReceiptRow : Attached(p, i, row)
  BY <1>0, AttachTables DEF Inv
<1> DEFINE qs == Moved(p, row)
           rs == Insert(receipts, i, row)
<1>2. Sound(qs, rs)
  BY <1>0, <1>1, StoreSound DEF Inv, Attached
<1> HIDE DEF rs
<1>3. CASE qs[p].status = "uploaded_receipt" /\ Approve(qs, rs, p, SubscriptionDays, FALSE)
  <2>0. PaymentTable(qs) /\ p \in DOMAIN qs /\ FALSE \in BOOLEAN
    BY <1>0, <1>1 DEF Attached
  <2>1. PICK r \in LatestReceipt(rs, p) :
            /\ KeyUnused(rs, r)
            /\ FALSE /\ r # 0 => ~BlocksManualApproval(rs[r])
            /\ receipts' = MarkReceipt(rs, r, "approved")
            /\ PaymentTable(payments') /\ DOMAIN payments' = DOMAIN qs
            /\ \A q \in DOMAIN qs \ {p} : payments'[q] = qs[q]
            /\ payments'[p].status = "approved"
    BY <2>0, <1>3, ApproveTables
  <2>2. r # 0 => DuplicateCode \notin rs[r].codes
    BY <1>2, <1>3, LatestReceiptType DEF ReceiptsOf, Sound, Unflagged
  <2>3. Sound(payments', receipts')
    BY <1>2, <1>3, <2>0, <2>1, <2>2, ApproveSound
  <2> QED
    BY <2>3 DEF Sound, Belong, Stopped, Unflagged, Backed, SpentOnce, Marked, PaymentTable,
                ReceiptTable, IsTable, TransactionKey
<1>4. CASE payments' = qs /\ receipts' = rs
  BY <1>2, <1>4 DEF Sound, Belong, Stopped, Unflagged, Backed, SpentOnce, Marked, PaymentTable,
                ReceiptTable, IsTable, TransactionKey
<1> QED
  BY <1>1, <1>3, <1>4 DEF rs, Attached

LEMMA ApprovePaymentSound ==
    ASSUME Inv, NEW p, NEW days, ApprovePayment(p, days)
    PROVE  Sound(payments, receipts)'
<1>1. /\ Sound(payments, receipts) /\ p \in DOMAIN payments /\ payments[p].status # "approved"
      /\ PaymentTable(payments)
  BY DEF Inv, ApprovePayment, Sound
<1>2. PICK r \in LatestReceipt(receipts, p) :
          /\ KeyUnused(receipts, r)
          /\ r # 0 => ~BlocksManualApproval(receipts[r])
          /\ receipts' = MarkReceipt(receipts, r, "approved")
          /\ PaymentTable(payments') /\ DOMAIN payments' = DOMAIN payments
          /\ \A q \in DOMAIN payments \ {p} : payments'[q] = payments[q]
          /\ payments'[p].status = "approved"
  BY <1>1, ApproveTables DEF ApprovePayment
<1>3. Sound(payments', receipts')
  BY <1>1, <1>2, ApproveSound DEF BlocksManualApproval
<1> QED
  BY <1>3

LEMMA RejectPaymentSound ==
    ASSUME Inv, NEW p, RejectPayment(p)
    PROVE  Sound(payments, receipts)'
<1>1. /\ Sound(payments, receipts) /\ p \in DOMAIN payments /\ payments[p].status # "approved"
  BY DEF Inv, RejectPayment, Rejectable
<1>2. PICK r \in LatestReceipt(receipts, p) : receipts' = MarkReceipt(receipts, r, "rejected")
  BY DEF RejectPayment
<1>3. payments[p] \in PaymentRow
  BY <1>1 DEF Sound, PaymentTable, IsTable
<1>4. /\ PaymentTable(payments') /\ DOMAIN payments' = DOMAIN payments
      /\ \A q \in DOMAIN payments \ {p} : payments'[q] = payments[q]
      /\ payments'[p].status = "rejected"
  BY <1>1, <1>3 DEF RejectPayment, Sound, PaymentTable, IsTable, PaymentRow, PaymentStatus
<1>5. ReceiptTable(receipts')
  BY <1>1, <1>2, MarkReceiptType DEF Sound, ReceiptStatus
<1>6. /\ DOMAIN receipts' = DOMAIN receipts
      /\ \A q \in DOMAIN receipts :
             /\ receipts'[q].payment = receipts[q].payment
             /\ receipts'[q].codes = receipts[q].codes
             /\ receipts'[q].doc = receipts[q].doc
      /\ Marked(receipts') \subseteq Marked(receipts)
  <2>1. /\ DOMAIN receipts' = DOMAIN receipts
        /\ \A q \in DOMAIN receipts :
               /\ receipts'[q].payment = receipts[q].payment
               /\ receipts'[q].codes = receipts[q].codes
               /\ receipts'[q].doc = receipts[q].doc
        /\ \A q \in DOMAIN receipts \ {r} : receipts'[q] = receipts[q]
        /\ r # 0 => receipts'[r].status = "rejected"
    BY <1>1, <1>2, MarkedRows DEF Sound
  <2>2. 0 \notin DOMAIN receipts
    BY <1>1, PaymentsAssumption DEF Sound, ReceiptTable, IsTable
  <2> QED
    BY <2>1, <2>2 DEF Marked
<1>7. Sound(payments', receipts')
  <2>1. Belong(payments', receipts') /\ Stopped(payments', receipts') /\ Unflagged(payments', receipts')
    BY <1>1, <1>4, <1>6 DEF Sound, Belong, Stopped, Unflagged
  <2>2. Backed(payments', receipts')
    <3>1. \A q \in Marked(receipts') : q \in Marked(receipts) /\ q \in DOMAIN receipts
      BY <1>6 DEF Marked
    <3>2. \A q \in Marked(receipts) : receipts[q].payment \in DOMAIN payments \ {p}
      BY <1>1 DEF Sound, Backed, Belong, Marked
    <3> QED
      BY <1>1, <1>4, <1>6, <3>1, <3>2 DEF Sound, Backed
  <2>3. SpentOnce(receipts')
    <3>1. \A q \in Marked(receipts') : q \in Marked(receipts) /\ q \in DOMAIN receipts
      BY <1>6 DEF Marked
    <3> QED
      BY <1>1, <1>6, <3>1 DEF Sound, SpentOnce
  <2> QED
    BY <1>4, <1>5, <2>1, <2>2, <2>3 DEF Sound
<1> QED
  BY <1>7

\* A decision writes to no receipt of another payment.
LEMMA MarkOthers ==
    ASSUME NEW rs, ReceiptTable(rs), NEW p, NEW r \in LatestReceipt(rs, p), NEW status,
           NEW q, q # p
    PROVE  /\ ReceiptsOf(MarkReceipt(rs, r, status), q) = ReceiptsOf(rs, q)
           /\ \A o \in ReceiptsOf(rs, q) : MarkReceipt(rs, r, status)[o] = rs[o]
<1> DEFINE ts == MarkReceipt(rs, r, status)
<1>1. /\ DOMAIN ts = DOMAIN rs /\ \A o \in DOMAIN rs : ts[o].payment = rs[o].payment
      /\ \A o \in DOMAIN rs \ {r} : ts[o] = rs[o]
  BY MarkedRows
<1>2. r \notin ReceiptsOf(rs, q)
  BY LatestReceiptType, PaymentsAssumption DEF ReceiptsOf, ReceiptTable, IsTable
<1> QED
  BY <1>1, <1>2 DEF ReceiptsOf

LEMMA CreatePaymentTables ==
    ASSUME TypeOK, NEW u \in Users, NEW x \in Products, CreatePayment(u, x)
    PROVE  /\ PaymentTable(payments')
           /\ DOMAIN payments \subseteq DOMAIN payments'
           /\ \A p \in DOMAIN payments :
                  /\ payments'[p].status = payments[p].status
                  /\ payments[p].status # "pending" => payments'[p] = payments[p]
           /\ receipts' = receipts
<1>1. PaymentTable(payments) /\ PaymentTable(payments')
  BY CreatePaymentType DEF TypeOK, PaymentTable
<1>2. CASE Reusable(u, x) # {}
  <2>1. PICK p \in Newest(payments, Reusable(u, x)) :
            payments' = [payments EXCEPT ![p].expires = clock + PaymentTTL]
    BY <1>2 DEF CreatePayment
  <2>2. p \in DOMAIN payments /\ payments[p].status = "pending"
    BY DEF Newest, Reusable
  <2>3. payments[p] \in PaymentRow
    BY <1>1, <2>2 DEF PaymentTable, IsTable
  <2> QED
    BY <1>1, <2>1, <2>2, <2>3 DEF CreatePayment, PaymentRow
<1>3. CASE Reusable(u, x) = {}
  BY <1>1, <1>3 DEF CreatePayment, NextId, Insert
<1> QED
  BY <1>2, <1>3

LEMMA ExpireTables ==
    ASSUME TypeOK, ExpirePendingPayments
    PROVE  /\ PaymentTable(payments')
           /\ DOMAIN payments' = DOMAIN payments
           /\ \A p \in DOMAIN payments :
                  payments[p].status # "pending" => payments'[p] = payments[p]
           /\ receipts' = receipts
<1>1. PaymentTable(payments')
  BY MinuteJobType DEF MinuteJob, TypeOK, PaymentTable
<1> QED
  BY <1>1 DEF ExpirePendingPayments, TimedOut

\* The other components' steps and the clock.
LEMMA OtherSteps ==
    ASSUME AdminStep \/ SweepSubscriptions \/ SweepAccess \/ Tick
    PROVE  UNCHANGED <<payments, receipts>>
BY DEF AdminStep, AdminSetsSubscription, AdminGivesDays, AdminGrantsAccess, AdminRevokesAccess,
       SweepSubscriptions, SweepAccess, Tick

LEMMA InitInv ==
    ASSUME Init
    PROVE  Inv
<1>1. TypeOK /\ PaymentTable(payments) /\ ReceiptTable(receipts)
  BY InitType DEF TypeOK, PaymentTable, ReceiptTable
<1>2. DOMAIN receipts = {}
  BY DEF Init, EmptyTable
<1> QED
  BY <1>1, <1>2 DEF Inv, Sound, Belong, Stopped, Unflagged, Backed, SpentOnce, Marked

LEMMA NextInv ==
    ASSUME Inv, [Next]_vars
    PROVE  Inv'
<1>0. TypeOK /\ Sound(payments, receipts)
  BY DEF Inv
<1>1. TypeOK'
  BY <1>0, NextType
<1>2. ASSUME NEW u \in Users, NEW x \in Products, CreatePayment(u, x)
      PROVE  Sound(payments, receipts)'
  <2>1. Sound(payments', receipts)
    BY <1>0, <1>2, CreatePaymentTables, SameStatusSound DEF Sound, Belong
  <2> QED
    BY <1>0, <1>2, <2>1, CreatePaymentTables
<1>3. ASSUME NEW u, NEW p, NEW d \in Docs, UploadToPayment(u, p, d)
      PROVE  Sound(payments, receipts)'
  BY <1>3, AttachSound DEF UploadToPayment
<1>4. ASSUME NEW u, NEW d \in Docs, UploadToBot(u, d)
      PROVE  Sound(payments, receipts)'
  BY <1>4, AttachSound DEF UploadToBot, Newest
<1>5. ASSUME ExpirePendingPayments
      PROVE  Sound(payments, receipts)'
  <2>1. Sound(payments', receipts)
    BY <1>0, <1>5, ExpireTables, SameStatusSound DEF Sound, Belong, Stopped
  <2> QED
    BY <1>0, <1>5, <2>1, ExpireTables
<1>6. ASSUME AdminStep \/ SweepSubscriptions \/ SweepAccess \/ Tick \/ UNCHANGED vars
      PROVE  Sound(payments, receipts)'
  <2>1. payments' = payments /\ receipts' = receipts
    BY <1>6, OtherSteps DEF vars
  <2> QED
    BY <1>0, <2>1
<1>7. Sound(payments, receipts)'
  <2>1. CASE UserStep
    BY <1>2, <1>3, <1>4, <2>1 DEF UserStep
  <2>2. CASE ReviewStep
    BY <2>2, ApprovePaymentSound, RejectPaymentSound DEF ReviewStep
  <2>3. CASE MinuteJob
    BY <1>5, <1>6, <2>3 DEF MinuteJob
  <2> QED
    BY <1>6, <2>1, <2>2, <2>3 DEF Next
<1> QED
  BY <1>1, <1>7 DEF Inv

LEMMA InvAlways == Spec => []Inv
<1>1. Init => Inv
  BY InitInv
<1>2. Inv /\ [Next]_vars => Inv'
  BY NextInv
<1> QED
  BY <1>1, <1>2, PTL DEF Spec

\* A bank transaction pays once, for any number of users, payments and receipts.
THEOREM TransactionsPayOnce == Spec => []KeySpentOnce
<1>1. Inv => KeySpentOnce
  BY DEF Inv, Sound, SpentOnce, Marked, KeySpentOnce, ApprovedReceipts
<1> QED
  BY <1>1, InvAlways, PTL

\* Approved receipts and approved payments belong together.
THEOREM EvidenceFitsPayment == Spec => []ApprovedReceiptBacked
<1>1. Inv => ApprovedReceiptBacked
  BY DEF Inv, Sound, Backed, Belong, Marked, ApprovedReceiptBacked, ApprovedReceipts, ReceiptsOf,
         Approved
<1> QED
  BY <1>1, InvAlways, PTL

\* The minute job never takes a payment away whose receipt is stored.
THEOREM ReceiptsHoldPayments == Spec => []ReceiptStopsExpiry
<1>1. Inv => ReceiptStopsExpiry
  BY DEF Inv, Sound, Stopped, ReceiptStopsExpiry
<1> QED
  BY <1>1, InvAlways, PTL

-----------------------------------------------------------------------------
(***************************************************************************)
(* Approval is final.                                                      *)
(***************************************************************************)

\* What ApprovalIsFinal says of one payment in one step.
Settled(p) ==
    /\ payments'[p] = payments[p]
    /\ ReceiptsOf(receipts', p) = ReceiptsOf(receipts, p)
    /\ \A r \in ReceiptsOf(receipts, p) : receipts'[r] = receipts[r]

LEMMA AttachSettles ==
    ASSUME Inv, NEW u, NEW p \in Open(u), NEW d \in Docs, AttachReceipt(d, p),
           NEW q \in DOMAIN payments, q # p
    PROVE  Settled(q)
<1>0. p \in DOMAIN payments /\ TypeOK
  BY DEF Open, Inv
<1>1. PICK i \in ReceiptIds \ DOMAIN receipts, row \in ReceiptRow : Attached(p, i, row)
  BY <1>0, AttachTables
<1> DEFINE qs == Moved(p, row)
           rs == Insert(receipts, i, row)
<1>2. ReceiptTable(rs)
  BY <1>0, InsertType DEF TypeOK, ReceiptTable
<1>3. /\ ReceiptsOf(rs, q) = ReceiptsOf(receipts, q)
      /\ \A r \in ReceiptsOf(receipts, q) : rs[r] = receipts[r]
  BY <1>1 DEF Insert, ReceiptsOf, Attached
<1> HIDE DEF rs
<1>4. CASE Approve(qs, rs, p, SubscriptionDays, FALSE)
  <2>1. PaymentTable(qs) /\ p \in DOMAIN qs /\ FALSE \in BOOLEAN
    BY <1>0, <1>1 DEF Attached
  <2>2. PICK r \in LatestReceipt(rs, p) :
            /\ KeyUnused(rs, r)
            /\ FALSE /\ r # 0 => ~BlocksManualApproval(rs[r])
            /\ receipts' = MarkReceipt(rs, r, "approved")
            /\ PaymentTable(payments') /\ DOMAIN payments' = DOMAIN qs
            /\ \A o \in DOMAIN qs \ {p} : payments'[o] = qs[o]
            /\ payments'[p].status = "approved"
    BY <2>1, <1>4, ApproveTables
  <2>3. payments'[q] = payments[q]
    BY <1>1, <2>2 DEF Attached
  <2>4. /\ ReceiptsOf(receipts', q) = ReceiptsOf(rs, q)
        /\ \A o \in ReceiptsOf(rs, q) : receipts'[o] = rs[o]
    BY <1>2, <2>2, MarkOthers
  <2> QED
    BY <1>3, <2>3, <2>4 DEF Settled
<1>5. CASE payments' = qs /\ receipts' = rs
  BY <1>1, <1>3, <1>5 DEF Settled, Attached
<1> QED
  BY <1>1, <1>4, <1>5 DEF rs, Attached

LEMMA ReviewSettles ==
    ASSUME Inv, ReviewStep, NEW q \in DOMAIN payments, payments[q].status = "approved"
    PROVE  Settled(q)
<1>0. PaymentTable(payments) /\ ReceiptTable(receipts)
  BY DEF Inv, Sound
<1>1. PICK p \in PaymentIds :
          (\E days \in ReviewDays : ApprovePayment(p, days)) \/ RejectPayment(p)
  BY DEF ReviewStep
<1>2. p # q /\ p \in DOMAIN payments
  BY <1>1 DEF ApprovePayment, RejectPayment, Rejectable
<1>3. ASSUME NEW days, ApprovePayment(p, days)
      PROVE  Settled(q)
  <2>1. PICK r \in LatestReceipt(receipts, p) :
            /\ receipts' = MarkReceipt(receipts, r, "approved")
            /\ \A o \in DOMAIN payments \ {p} : payments'[o] = payments[o]
    BY <1>0, <1>2, <1>3, ApproveTables DEF ApprovePayment
  <2> QED
    BY <1>0, <1>2, <2>1, MarkOthers DEF Settled
<1>4. CASE RejectPayment(p)
  <2>1. PICK r \in LatestReceipt(receipts, p) : receipts' = MarkReceipt(receipts, r, "rejected")
    BY <1>4 DEF RejectPayment
  <2>2. payments'[q] = payments[q]
    BY <1>2, <1>4 DEF RejectPayment
  <2> QED
    BY <1>0, <1>2, <2>1, <2>2, MarkOthers DEF Settled
<1> QED
  BY <1>1, <1>3, <1>4

LEMMA NextSettles ==
    ASSUME Inv, [Next]_vars, NEW q \in DOMAIN payments, payments[q].status = "approved"
    PROVE  Settled(q)
<1>1. CASE UserStep
  <2>1. PICK u \in Users :
            \/ \E x \in Products : CreatePayment(u, x)
            \/ \E p \in PaymentIds, d \in Docs : UploadToPayment(u, p, d)
            \/ \E d \in Docs : UploadToBot(u, d)
    BY <1>1 DEF UserStep
  <2>2. CASE \E x \in Products : CreatePayment(u, x)
    BY <2>2, CreatePaymentTables DEF Inv, Settled
  <2>3. CASE \E p \in PaymentIds, d \in Docs : UploadToPayment(u, p, d)
    BY <2>3, AttachSettles DEF UploadToPayment, Open
  <2>4. CASE \E d \in Docs : UploadToBot(u, d)
    BY <2>4, AttachSettles DEF UploadToBot, Newest, Open
  <2> QED
    BY <2>1, <2>2, <2>3, <2>4
<1>2. CASE ReviewStep
  BY <1>2, ReviewSettles
<1>3. CASE ExpirePendingPayments
  BY <1>3, ExpireTables DEF Inv, Settled
<1>4. CASE AdminStep \/ SweepSubscriptions \/ SweepAccess \/ Tick \/ UNCHANGED vars
  BY <1>4, OtherSteps DEF vars, Settled
<1> QED
  BY <1>1, <1>2, <1>3, <1>4 DEF Next, MinuteJob

\* Nothing that anybody does afterwards touches an approved payment or its
\* receipts.
THEOREM ApprovalStays == Spec => ApprovalIsFinal
<1> DEFINE Final ==
        \A p \in DOMAIN payments :
            Approved(p) =>
                /\ payments'[p] = payments[p]
                /\ ReceiptsOf(receipts', p) = ReceiptsOf(receipts, p)
                /\ \A r \in ReceiptsOf(receipts, p) : receipts'[r] = receipts[r]
<1>1. Inv /\ [Next]_vars => Final
  BY NextSettles DEF Settled, Approved
<1> QED
  BY <1>1, InvAlways, PTL DEF Spec, ApprovalIsFinal

-----------------------------------------------------------------------------
(***************************************************************************)
(* Payments implements PaymentLedger.                                      *)
(***************************************************************************)

Stages == [p \in PaymentIds |-> Stage(p)]

Keys == {TransactionKey(d) : d \in Docs} \ {Missing}

\* What the receipts rs say has been spent.
SpentOn(rs) ==
    {<<TransactionKey(rs[r].doc), rs[r].payment>> :
         r \in {q \in Marked(rs) : TransactionKey(rs[q].doc) # Missing}}

LEMMA SpentIs == Spent = SpentOn(receipts)
BY DEF Spent, SpentOn, ApprovedReceipts, Marked

\* Receipts that are not approved spend nothing.
LEMMA SameSpent ==
    ASSUME NEW rs, NEW ts, Marked(ts) = Marked(rs),
           \A r \in Marked(rs) : ts[r].doc = rs[r].doc /\ ts[r].payment = rs[r].payment
    PROVE  SpentOn(ts) = SpentOn(rs)
BY DEF SpentOn

\* A step that moves one payment only.
LEMMA OneMoves ==
    ASSUME NEW p \in PaymentIds, \A q \in PaymentIds \ {p} : Stage(q)' = Stage(q)
    PROVE  Stages' = [Stages EXCEPT ![p] = Stage(p)']
BY DEF Stages

LEMMA NoneMoves ==
    ASSUME \A q \in PaymentIds : Stage(q)' = Stage(q), SpentOn(receipts') = SpentOn(receipts)
    PROVE  UNCHANGED <<Stages, Spent>>
<1>1. Spent' = SpentOn(receipts')
  BY SpentIs DEF Spent, SpentOn, ApprovedReceipts, Marked
<1> QED
  BY <1>1, SpentIs DEF Stages

\* An approval spends the number of the receipt it marks, which was not spent.
LEMMA MarkSpends ==
    ASSUME NEW ps, NEW rs, Sound(ps, rs), NEW p \in DOMAIN ps, ps[p].status # "approved",
           NEW r \in LatestReceipt(rs, p), KeyUnused(rs, r)
    PROVE  \E keys \in {{}} \cup {{k} : k \in Keys} :
               /\ SpentOn(MarkReceipt(rs, r, "approved")) = SpentOn(rs) \cup (keys \X {p})
               /\ \A k \in keys, q \in PaymentIds : <<k, q>> \notin SpentOn(rs)
<1> DEFINE ts == MarkReceipt(rs, r, "approved")
<1>1. /\ r = 0 \/ (r \in DOMAIN rs /\ rs[r].payment = p)
      /\ DOMAIN ts = DOMAIN rs
      /\ \A q \in DOMAIN rs : ts[q].payment = rs[q].payment /\ ts[q].doc = rs[q].doc
      /\ \A q \in DOMAIN rs \ {r} : ts[q] = rs[q]
      /\ r # 0 => ts[r].status = "approved"
  BY MarkedRows DEF Sound
<1>2. 0 \notin DOMAIN rs /\ \A q \in DOMAIN rs : rs[q].doc \in Docs
  BY PaymentsAssumption DEF Sound, ReceiptTable, IsTable, ReceiptRow
<1> HIDE DEF ts
<1>3. CASE r = 0 \/ TransactionKey(rs[r].doc) = Missing
  <2>1. \A q \in DOMAIN rs : TransactionKey(rs[q].doc) # Missing => ts[q] = rs[q]
    BY <1>1, <1>2, <1>3
  <2>2. {q \in Marked(ts) : TransactionKey(ts[q].doc) # Missing}
            = {q \in Marked(rs) : TransactionKey(rs[q].doc) # Missing}
    BY <1>1, <2>1 DEF Marked
  <2>3. SpentOn(ts) = SpentOn(rs)
    BY <1>1, <2>2 DEF SpentOn, Marked
  <2>4. SpentOn(ts) = SpentOn(rs) \cup ({} \X {p})
    BY <2>3
  <2>5. \A k \in {}, q \in PaymentIds : <<k, q>> \notin SpentOn(rs)
    OBVIOUS
  <2>6. {} \in {{}} \cup {{k} : k \in Keys}
    OBVIOUS
  <2> QED
    BY <2>4, <2>5, <2>6, Zenon DEF ts
<1>4. CASE r # 0 /\ TransactionKey(rs[r].doc) # Missing
  <2> DEFINE k == TransactionKey(rs[r].doc)
  <2>1. r \in DOMAIN rs /\ rs[r].payment = p /\ k \in Keys
    BY <1>1, <1>2, <1>4 DEF Keys
  <2>2. r \notin Marked(rs)
    BY <2>1 DEF Sound, Backed
  <2>3. Marked(ts) = Marked(rs) \cup {r}
    BY <1>1, <1>4, <2>1 DEF Marked
  <2>4. SpentOn(ts) = SpentOn(rs) \cup {<<k, p>>}
    <3>1. \A q \in Marked(ts) : q \in DOMAIN rs
      BY <1>1 DEF Marked
    <3>2. \A x : x \in SpentOn(ts) <=>
              \E q \in Marked(ts) : /\ TransactionKey(rs[q].doc) # Missing
                                    /\ x = <<TransactionKey(rs[q].doc), rs[q].payment>>
      BY <1>1, <3>1 DEF SpentOn
    <3>3. \A x : x \in SpentOn(rs) <=>
              \E q \in Marked(rs) : /\ TransactionKey(rs[q].doc) # Missing
                                    /\ x = <<TransactionKey(rs[q].doc), rs[q].payment>>
      BY DEF SpentOn
    <3> QED
      BY <1>4, <2>1, <2>3, <3>2, <3>3
  <2>5. \A q \in PaymentIds : <<k, q>> \notin SpentOn(rs)
    <3> SUFFICES ASSUME NEW q \in PaymentIds, <<k, q>> \in SpentOn(rs)
                 PROVE  FALSE
      OBVIOUS
    <3>1. PICK o \in Marked(rs) : TransactionKey(rs[o].doc) = k
      BY DEF SpentOn
    <3> QED
      BY <1>4, <2>2, <3>1 DEF KeyUnused, Marked
  <2>6. SpentOn(ts) = SpentOn(rs) \cup ({k} \X {p})
    BY <2>4
  <2>7. {k} \in {{}} \cup {{c} : c \in Keys}
    BY <2>1
  <2>8. \A c \in {k}, q \in PaymentIds : <<c, q>> \notin SpentOn(rs)
    BY <2>5
  <2> HIDE DEF k
  <2> QED
    BY <2>6, <2>7, <2>8, Zenon DEF ts
<1> QED
  BY <1>3, <1>4

LEMMA ApproveDelivers ==
    ASSUME NEW ps, NEW rs, Sound(ps, rs), SpentOn(rs) = Spent,
           DOMAIN ps = DOMAIN payments, PaymentTable(payments), NEW p \in DOMAIN ps,
           ps[p].status # "approved", Stage(p) \in {"open", "disputed"},
           \A q \in DOMAIN payments \ {p} : ps[q] = payments[q],
           NEW days, NEW byAdmin \in BOOLEAN, Approve(ps, rs, p, days, byAdmin)
    PROVE  Ledger!Next
<1>0. PaymentTable(ps) /\ p \in PaymentIds
  BY DEF Sound, PaymentTable, IsTable
<1>1. PICK r \in LatestReceipt(rs, p) :
          /\ KeyUnused(rs, r)
          /\ byAdmin /\ r # 0 => ~BlocksManualApproval(rs[r])
          /\ receipts' = MarkReceipt(rs, r, "approved")
          /\ PaymentTable(payments') /\ DOMAIN payments' = DOMAIN ps
          /\ \A q \in DOMAIN ps \ {p} : payments'[q] = ps[q]
          /\ payments'[p].status = "approved"
  BY <1>0, ApproveTables, Zenon
<1>2. \A q \in PaymentIds \ {p} : Stage(q)' = Stage(q)
  BY <1>1 DEF Stage
<1>3. Stage(p)' = "delivered"
  BY <1>1 DEF Stage
<1>4. Stages' = [Stages EXCEPT ![p] = "delivered"] /\ Stages[p] \in {"open", "disputed"}
  BY <1>0, <1>2, <1>3, OneMoves DEF Stages
<1>5. PICK keys \in {{}} \cup {{k} : k \in Keys} :
          /\ SpentOn(receipts') = SpentOn(rs) \cup (keys \X {p})
          /\ \A k \in keys, q \in PaymentIds : <<k, q>> \notin SpentOn(rs)
  BY <1>1, MarkSpends
<1>6. Spent' = SpentOn(receipts')
  BY DEF Spent, SpentOn, ApprovedReceipts, Marked
<1>7. Spent' = Spent \cup (keys \X {p}) /\ \A k \in keys, q \in PaymentIds : <<k, q>> \notin Spent
  BY <1>5, <1>6
<1>8. Ledger!Deliver(p, keys)
  BY <1>4, <1>7 DEF Ledger!Deliver, Stages
<1> QED
  BY <1>0, <1>5, <1>8 DEF Ledger!Next, Keys

LEMMA AttachLedgers ==
    ASSUME Inv, NEW u, NEW p \in Open(u), NEW d \in Docs, AttachReceipt(d, p)
    PROVE  Ledger!Next \/ UNCHANGED <<Stages, Spent>>
<1>0. /\ p \in DOMAIN payments /\ payments[p].status \in {"pending", "uploaded_receipt"}
      /\ TypeOK /\ PaymentTable(payments) /\ Sound(payments, receipts)
  BY DEF Open, Inv, Sound
<1>1. PICK i \in ReceiptIds \ DOMAIN receipts, row \in ReceiptRow : Attached(p, i, row)
  BY <1>0, AttachTables
<1> DEFINE qs == Moved(p, row)
           rs == Insert(receipts, i, row)
<1>2. payments[p] \in PaymentRow /\ p \in PaymentIds
  BY <1>0 DEF PaymentTable, IsTable
<1>3. qs[p].status = "rejected" => qs[p].autoRejected
  BY <1>0, <1>2 DEF Moved, PaymentRow, AutoRejects
<1>4. Sound(qs, rs)
  BY <1>0, <1>1, StoreSound DEF Attached
<1>5. SpentOn(rs) = SpentOn(receipts)
  <2>1. Marked(rs) = Marked(receipts) /\ \A r \in Marked(receipts) : rs[r] = receipts[r]
    BY <1>1 DEF Marked, Insert, Attached
  <2> QED
    BY <2>1, SameSpent
<1>6. Stage(p) = "open"
  BY <1>0 DEF Stage
<1>7. /\ DOMAIN qs = DOMAIN payments /\ qs[p].status \in {"uploaded_receipt", "rejected"}
      /\ \A q \in DOMAIN payments \ {p} : qs[q] = payments[q]
  BY <1>1 DEF Attached
<1> HIDE DEF qs, rs
<1>8. CASE qs[p].status = "uploaded_receipt" /\ Approve(qs, rs, p, SubscriptionDays, FALSE)
  BY <1>0, <1>4, <1>5, <1>6, <1>7, <1>8, SpentIs, ApproveDelivers
<1>9. CASE payments' = qs /\ receipts' = rs
  <2>1. \A q \in PaymentIds \ {p} : Stage(q)' = Stage(q)
    BY <1>7, <1>9 DEF Stage
  <2>2. CASE qs[p].status = "uploaded_receipt"
    <3>1. Stage(p)' = "open"
      BY <1>0, <1>7, <1>9, <2>2 DEF Stage
    <3> QED
      BY <1>5, <1>6, <1>9, <2>1, <3>1, NoneMoves
  <2>3. CASE qs[p].status = "rejected"
    <3>1. Stage(p)' = "disputed"
      BY <1>0, <1>3, <1>7, <1>9, <2>3 DEF Stage
    <3>2. Stages' = [Stages EXCEPT ![p] = "disputed"] /\ Stages[p] = "open"
      BY <1>2, <1>6, <2>1, <3>1, OneMoves DEF Stages
    <3>3. Spent' = Spent
      <4>1. Spent' = SpentOn(receipts')
        BY DEF Spent, SpentOn, ApprovedReceipts, Marked
      <4> QED
        BY <1>5, <1>9, <4>1, SpentIs
    <3>4. Ledger!Dispute(p)
      BY <3>2, <3>3 DEF Ledger!Dispute, Stages
    <3> QED
      BY <1>2, <3>4 DEF Ledger!Next
  <2> QED
    BY <1>7, <2>2, <2>3
<1> QED
  BY <1>1, <1>8, <1>9 DEF Attached, qs, rs

LEMMA CreateLedgers ==
    ASSUME Inv, NEW u \in Users, NEW x \in Products, CreatePayment(u, x)
    PROVE  Ledger!Next \/ UNCHANGED <<Stages, Spent>>
<1>0. PaymentTable(payments) /\ receipts' = receipts
  BY DEF Inv, TypeOK, PaymentTable, CreatePayment
<1>1. Spent' = Spent
  BY <1>0 DEF Spent, ApprovedReceipts
<1>2. CASE Reusable(u, x) # {}
  <2>1. PICK p \in Newest(payments, Reusable(u, x)) :
            payments' = [payments EXCEPT ![p].expires = clock + PaymentTTL]
    BY <1>2 DEF CreatePayment
  <2>2. p \in DOMAIN payments
    BY DEF Newest, Reusable
  <2>3. payments[p] \in PaymentRow
    BY <1>0, <2>2 DEF PaymentTable, IsTable
  <2>4. DOMAIN payments' = DOMAIN payments
        /\ \A q \in DOMAIN payments : /\ payments'[q].status = payments[q].status
                                      /\ payments'[q].autoRejected = payments[q].autoRejected
    BY <2>1, <2>2, <2>3 DEF PaymentRow
  <2>5. \A q \in PaymentIds : Stage(q)' = Stage(q)
    BY <2>4 DEF Stage
  <2> QED
    BY <1>0, <2>5, NoneMoves
<1>3. CASE Reusable(u, x) = {}
  <2>1. PICK p \in NextId(PaymentIds, payments) :
            payments' = Insert(payments, p, NewPayment(u, x))
    BY <1>3 DEF CreatePayment
  <2>2. p \in PaymentIds /\ p \notin DOMAIN payments
    BY DEF NextId
  <2>3. /\ DOMAIN payments' = DOMAIN payments \cup {p} /\ payments'[p].status = "pending"
        /\ \A q \in DOMAIN payments : payments'[q] = payments[q]
    BY <2>1, <2>2 DEF Insert, NewPayment
  <2>4. \A q \in PaymentIds \ {p} : Stage(q)' = Stage(q)
    BY <2>3 DEF Stage
  <2>5. Stage(p) = "none" /\ Stage(p)' = "open"
    BY <2>2, <2>3 DEF Stage
  <2>6. Stages' = [Stages EXCEPT ![p] = "open"] /\ Stages[p] = "none"
    BY <2>2, <2>4, <2>5, OneMoves DEF Stages
  <2>7. Ledger!Request(p)
    BY <1>1, <2>6 DEF Ledger!Request, Stages
  <2> QED
    BY <2>2, <2>7 DEF Ledger!Next
<1> QED
  BY <1>2, <1>3

\* Closing is the only step of the ledger that several payments take at once.
LEMMA ClosingLedgers ==
    ASSUME NEW S \in SUBSET PaymentIds,
           \A p \in S : Stage(p) \in {"open", "disputed"} /\ Stage(p)' = "closed",
           \A p \in PaymentIds \ S : Stage(p)' = Stage(p),
           SpentOn(receipts') = SpentOn(receipts)
    PROVE  Ledger!Next
<1>1. Spent' = Spent
  BY SpentIs DEF Spent, SpentOn, ApprovedReceipts, Marked
<1>2. Stages' = [p \in PaymentIds |-> IF p \in S THEN "closed" ELSE Stages[p]]
  BY DEF Stages
<1>3. Ledger!Close(S)
  BY <1>1, <1>2 DEF Ledger!Close, Stages
<1> QED
  BY <1>3 DEF Ledger!Next

LEMMA ExpireLedgers ==
    ASSUME Inv, ExpirePendingPayments
    PROVE  Ledger!Next
<1>0. PaymentTable(payments) /\ receipts' = receipts
  BY DEF Inv, TypeOK, PaymentTable, ExpirePendingPayments
<1> DEFINE S == {p \in DOMAIN payments : TimedOut(payments[p])}
<1>1. S \in SUBSET PaymentIds /\ \A p \in DOMAIN payments : payments[p] \in PaymentRow
  BY <1>0 DEF PaymentTable, IsTable
<1>2. /\ DOMAIN payments' = DOMAIN payments
      /\ \A p \in S : payments'[p].status = "expired" /\ payments[p].status = "pending"
      /\ \A p \in DOMAIN payments \ S : payments'[p] = payments[p]
  BY <1>1 DEF ExpirePendingPayments, TimedOut, PaymentRow
<1>3. \A p \in S : Stage(p) \in {"open", "disputed"} /\ Stage(p)' = "closed"
  BY <1>2 DEF Stage
<1>4. \A p \in PaymentIds \ S : Stage(p)' = Stage(p)
  BY <1>2 DEF Stage
<1> QED
  BY <1>0, <1>1, <1>3, <1>4, ClosingLedgers

LEMMA RejectLedgers ==
    ASSUME Inv, NEW p, RejectPayment(p)
    PROVE  Ledger!Next \/ UNCHANGED <<Stages, Spent>>
<1>1. /\ Sound(payments, receipts) /\ p \in DOMAIN payments /\ payments[p].status # "approved"
  BY DEF Inv, RejectPayment, Rejectable
<1>2. payments[p] \in PaymentRow /\ p \in PaymentIds
  BY <1>1 DEF Sound, PaymentTable, IsTable
<1>3. PICK r \in LatestReceipt(receipts, p) : receipts' = MarkReceipt(receipts, r, "rejected")
  BY DEF RejectPayment
<1>4. SpentOn(receipts') = SpentOn(receipts)
  <2>1. /\ r = 0 \/ (r \in DOMAIN receipts /\ receipts[r].payment = p)
        /\ DOMAIN receipts' = DOMAIN receipts
        /\ \A q \in DOMAIN receipts \ {r} : receipts'[q] = receipts[q]
        /\ r # 0 => receipts'[r].status = "rejected"
    BY <1>1, <1>3, MarkedRows DEF Sound
  <2>2. r \notin Marked(receipts) /\ 0 \notin DOMAIN receipts
    BY <1>1, <2>1, PaymentsAssumption DEF Sound, Backed, Marked, ReceiptTable, IsTable
  <2>3. Marked(receipts') = Marked(receipts)
    BY <2>1, <2>2 DEF Marked
  <2>4. \A q \in Marked(receipts) : receipts'[q] = receipts[q]
    BY <2>1, <2>2 DEF Marked
  <2> QED
    BY <2>3, <2>4, SameSpent
<1>5. /\ DOMAIN payments' = DOMAIN payments
      /\ payments'[p].status = "rejected" /\ payments'[p].autoRejected = FALSE
      /\ \A q \in DOMAIN payments \ {p} : payments'[q] = payments[q]
  BY <1>1, <1>2 DEF RejectPayment, PaymentRow
<1>6. Stage(p)' = "closed" /\ \A q \in PaymentIds \ {p} : Stage(q)' = Stage(q)
  BY <1>1, <1>5 DEF Stage
<1>7. Stage(p) \in {"open", "disputed", "closed"}
  BY <1>1, <1>2 DEF Stage, PaymentRow, PaymentStatus
<1>8. CASE Stage(p) = "closed"
  BY <1>4, <1>6, <1>8, NoneMoves
<1>9. CASE Stage(p) # "closed"
  <2>1. {p} \in SUBSET PaymentIds
    BY <1>2
  <2> QED
    BY <1>4, <1>6, <1>7, <1>9, <2>1, ClosingLedgers
<1> QED
  BY <1>8, <1>9

\* An admin approves what is open or was refused automatically: an expired payment
\* has no receipt, without which it is not eligible.
LEMMA ApprovePaymentLedgers ==
    ASSUME Inv, NEW p, NEW days, ApprovePayment(p, days)
    PROVE  Ledger!Next
<1>1. /\ Sound(payments, receipts) /\ PaymentTable(payments) /\ SpentOn(receipts) = Spent
      /\ p \in DOMAIN payments /\ payments[p].status # "approved"
      /\ Approve(payments, receipts, p, days, TRUE)
  BY SpentIs DEF Inv, Sound, ApprovePayment
<1>2. payments[p] \in PaymentRow
  BY <1>1 DEF PaymentTable, IsTable
<1>3. PICK r \in LatestReceipt(receipts, p) : Eligible(payments[p], r)
  BY <1>1 DEF Approve, Approvable
<1>4. payments[p].status # "expired"
  <2> SUFFICES ASSUME payments[p].status = "expired" PROVE FALSE
    OBVIOUS
  <2>1. r # 0
    BY <1>3 DEF Eligible
  <2>2. r \in DOMAIN receipts /\ receipts[r].payment = p
    BY <2>1, LatestReceiptType DEF ReceiptsOf
  <2> QED
    BY <1>1, <2>2 DEF Sound, Stopped
<1>5. payments[p].status = "rejected" => payments[p].autoRejected
  BY <1>3 DEF Eligible
<1>6. Stage(p) \in {"open", "disputed"}
  BY <1>1, <1>2, <1>4, <1>5 DEF Stage, PaymentRow, PaymentStatus
<1> QED
  BY <1>1, <1>6, ApproveDelivers

LEMMA NextLedgers ==
    ASSUME Inv, [Next]_vars
    PROVE  Ledger!Next \/ UNCHANGED <<Stages, Spent>>
<1>1. CASE UserStep
  <2>1. PICK u \in Users :
            \/ \E x \in Products : CreatePayment(u, x)
            \/ \E p \in PaymentIds, d \in Docs : UploadToPayment(u, p, d)
            \/ \E d \in Docs : UploadToBot(u, d)
    BY <1>1 DEF UserStep
  <2> QED
    BY <2>1, CreateLedgers, AttachLedgers DEF UploadToPayment, UploadToBot, Newest
<1>2. CASE ReviewStep
  BY <1>2, ApprovePaymentLedgers, RejectLedgers DEF ReviewStep
<1>3. CASE ExpirePendingPayments
  BY <1>3, ExpireLedgers
<1>4. CASE AdminStep \/ SweepSubscriptions \/ SweepAccess \/ Tick \/ UNCHANGED vars
  <2>1. payments' = payments /\ receipts' = receipts
    BY <1>4, OtherSteps DEF vars
  <2> QED
    BY <2>1 DEF Stages, Stage, Spent, ApprovedReceipts
<1> QED
  BY <1>1, <1>2, <1>3, <1>4 DEF Next, MinuteJob

\* Tables, sweeps and review rules together keep the ledger: a payment ends once,
\* delivers at most once, and no transaction pays for two.
THEOREM LedgerImplemented == Spec => ImplementsLedger
<1>1. Init => Ledger!Init
  <2>1. ASSUME Init
        PROVE  Stages = [p \in PaymentIds |-> "none"] /\ Spent = {}
    BY <2>1 DEF Init, EmptyTable, Stages, Stage, Spent, ApprovedReceipts
  <2> QED
    BY <2>1 DEF Ledger!Init, Stages
<1>2. Inv /\ [Next]_vars => [Ledger!Next]_<<Stages, Spent>>
  BY NextLedgers
<1> QED
  BY <1>1, <1>2, InvAlways, PTL DEF Spec, ImplementsLedger, Ledger!Spec, Stages

-----------------------------------------------------------------------------
(***************************************************************************)
(* Promises.  Every step either approves one payment and grants what it    *)
(* buys, or leaves approvals, referrals and levels alone (StepKinds); the  *)
(* promises are proved from these two kinds of step.                       *)
(***************************************************************************)

-----------------------------------------------------------------------------
(***************************************************************************)
(* Subscriptions that grow.                                                *)
(***************************************************************************)

Others(t, s, i) == \A j \in DOMAIN t \ {i} : s[j] = t[j]

Opened(t, s, u, days) ==
    /\ Current(t, u) = {}
    /\ \E i \in SubscriptionIds \ DOMAIN t :
           /\ DOMAIN s = DOMAIN t \cup {i} /\ Others(t, s, i)
           /\ s[i].user = u /\ s[i].status = "active" /\ s[i].expires = clock + days

Prolonged(t, s, u, days) ==
    \E i \in LastToEnd(t, Current(t, u)) :
        /\ DOMAIN s = DOMAIN t /\ Others(t, s, i)
        /\ s[i].user = u /\ s[i].status = "active" /\ s[i].expires = t[i].expires + days

\* What a purchase and a bonus have in common: s is t with days more for u.
Grown(t, s, u, days) == Opened(t, s, u, days) \/ Prolonged(t, s, u, days)

LEMMA StartedGrows ==
    ASSUME NEW t, NEW u, NEW tariff, NEW days, Current(t, u) = {},
           NEW s \in Started(t, u, tariff, days)
    PROVE  Grown(t, s, u, days)
<1>1. PICK i \in NextId(SubscriptionIds, t) : s = Insert(t, i, NewSubscription(u, tariff, days))
  BY DEF Started
<1>2. i \in SubscriptionIds \ DOMAIN t
  BY DEF NextId
<1>3. s[i] = NewSubscription(u, tariff, days) /\ DOMAIN s = DOMAIN t \cup {i} /\ Others(t, s, i)
  BY <1>1 DEF Insert, Others
<1> QED
  BY <1>2, <1>3 DEF Grown, Opened, NewSubscription

LEMMA PurchasedGrows ==
    ASSUME NEW t, SubscriptionTable(t), NEW u, NEW tariff, NEW days,
           NEW s \in Purchased(t, u, tariff, days)
    PROVE  Grown(t, s, u, days)
<1>1. CASE Current(t, u) = {}
  BY <1>1, StartedGrows DEF Purchased
<1>2. CASE Current(t, u) # {}
  <2>1. PICK i \in LastToEnd(t, Current(t, u)) :
            s = [t EXCEPT ![i].expires = t[i].expires + days, ![i].tariff = tariff]
    BY <1>2 DEF Purchased
  <2>2. i \in DOMAIN t /\ t[i].user = u /\ t[i].status = "active"
    BY DEF LastToEnd, Current
  <2>3. t[i] \in SubscriptionRow
    BY <2>2 DEF SubscriptionTable, IsTable
  <2>4. /\ DOMAIN s = DOMAIN t /\ Others(t, s, i)
        /\ s[i].user = u /\ s[i].status = "active" /\ s[i].expires = t[i].expires + days
    BY <2>1, <2>2, <2>3 DEF SubscriptionRow, Others
  <2> QED
    BY <2>4 DEF Grown, Prolonged
<1> QED
  BY <1>1, <1>2

LEMMA ExtendedGrows ==
    ASSUME NEW t, SubscriptionTable(t), NEW u, NEW tariff, NEW days,
           NEW s \in Extended(t, u, tariff, days)
    PROVE  Grown(t, s, u, days)
<1>1. CASE Current(t, u) = {}
  BY <1>1, StartedGrows DEF Extended
<1>2. CASE Current(t, u) # {}
  <2>1. PICK i \in LastToEnd(t, Current(t, u)) : s = [t EXCEPT ![i].expires = @ + days]
    BY <1>2 DEF Extended
  <2>2. i \in DOMAIN t /\ t[i].user = u /\ t[i].status = "active"
    BY DEF LastToEnd, Current
  <2>3. t[i] \in SubscriptionRow
    BY <2>2 DEF SubscriptionTable, IsTable
  <2>4. /\ DOMAIN s = DOMAIN t /\ Others(t, s, i)
        /\ s[i].user = u /\ s[i].status = "active" /\ s[i].expires = t[i].expires + days
    BY <2>1, <2>2, <2>3 DEF SubscriptionRow, Others
  <2> QED
    BY <2>4 DEF Grown, Prolonged
<1> QED
  BY <1>1, <1>2

\* Rows keep their users, and the only new row is u's.
LEMMA GrownUsers ==
    ASSUME NEW t, SubscriptionTable(t), NEW s, NEW u, NEW days, Grown(t, s, u, days)
    PROVE  /\ DOMAIN t \subseteq DOMAIN s
           /\ \A i \in DOMAIN t : s[i].user = t[i].user
           /\ \A i \in DOMAIN s \ DOMAIN t : s[i].user = u
           /\ \E i \in DOMAIN s : s[i].user = u
<1>1. CASE Opened(t, s, u, days)
  BY <1>1 DEF Opened, Others
<1>2. CASE Prolonged(t, s, u, days)
  BY <1>2 DEF Prolonged, Others, LastToEnd, Current
<1> QED
  BY <1>1, <1>2 DEF Grown

-----------------------------------------------------------------------------
(***************************************************************************)
(* When access ends.                                                       *)
(***************************************************************************)

\* Of any rows one ends last.  Tables are finite, but that finite sets have a
\* maximum is itself an induction: this is kept by every step instead.
LastExists(t) ==
    \A T \in SUBSET DOMAIN t :
        T # {} => \E i \in T : \A j \in T : t[j].expires <= t[i].expires

LEMMA GrownLast ==
    ASSUME NEW t, SubscriptionTable(t), LastExists(t), NEW s, SubscriptionTable(s),
           NEW u, NEW days, Grown(t, s, u, days)
    PROVE  LastExists(s)
<1>1. PICK i \in DOMAIN s : DOMAIN s \subseteq DOMAIN t \cup {i} /\ Others(t, s, i)
  BY DEF Grown, Opened, Prolonged, LastToEnd, Current
<1>2. \A j \in DOMAIN s : s[j].expires \in Nat
  BY DEF SubscriptionTable, IsTable, SubscriptionRow
<1> SUFFICES ASSUME NEW T \in SUBSET DOMAIN s, T # {}
             PROVE  \E k \in T : \A j \in T : s[j].expires <= s[k].expires
  BY DEF LastExists
<1>3. CASE T \ {i} = {}
  BY <1>2, <1>3
<1>4. CASE T \ {i} # {}
  <2>1. \A j \in T \ {i} : j \in DOMAIN t /\ s[j] = t[j]
    BY <1>1 DEF Others
  <2>2. PICK k \in T \ {i} : \A j \in T \ {i} : t[j].expires <= t[k].expires
    BY <1>4, <2>1 DEF LastExists
  <2>3. \A j \in T \ {i} : s[j].expires <= s[k].expires
    BY <2>1, <2>2
  <2>4. CASE i \notin T \/ s[i].expires <= s[k].expires
    BY <2>3, <2>4
  <2>5. CASE i \in T /\ ~(s[i].expires <= s[k].expires)
    <3>1. s[i].expires \in Nat /\ s[k].expires \in Nat /\ \A j \in T : s[j].expires \in Nat
      BY <1>2
    <3>2. \A j \in T : s[j].expires <= s[i].expires
      BY <2>3, <2>5, <3>1
    <3> QED
      BY <2>5, <3>2
  <2> QED
    BY <2>4, <2>5
<1> QED
  BY <1>3, <1>4

\* Whatever else rows change, when they end decides.
LEMMA SameLast ==
    ASSUME NEW t, LastExists(t), NEW s, DOMAIN s = DOMAIN t,
           \A i \in DOMAIN t : s[i].expires = t[i].expires
    PROVE  LastExists(s)
BY DEF LastExists

\* The end of u's access is a maximum, and the only one.
LEMMA EndIsLast ==
    ASSUME NEW t, SubscriptionTable(t), LastExists(t), clock \in Nat, NEW u
    PROVE  /\ EndsOf(t, u) \subseteq Nat
           /\ AccessEnd(t, u) \in EndsOf(t, u)
           /\ \A f \in EndsOf(t, u) : f <= AccessEnd(t, u)
<1>1. \A i \in Current(t, u) : i \in DOMAIN t /\ t[i].expires \in Nat /\ clock <= t[i].expires
  BY DEF SubscriptionTable, IsTable, SubscriptionRow, Current, Past
<1>2. EndsOf(t, u) \subseteq Nat
  BY <1>1 DEF EndsOf
<1>3. \E e \in EndsOf(t, u) : \A f \in EndsOf(t, u) : f <= e
  <2>1. CASE Current(t, u) = {}
    BY <2>1 DEF EndsOf
  <2>2. CASE Current(t, u) # {}
    <3>1. PICK i \in Current(t, u) : \A j \in Current(t, u) : t[j].expires <= t[i].expires
      BY <1>1, <2>2 DEF LastExists
    <3> QED
      BY <1>1, <3>1 DEF EndsOf
  <2> QED
    BY <2>1, <2>2
<1> QED
  BY <1>2, <1>3 DEF AccessEnd

LEMMA OnlyEnd ==
    ASSUME NEW t, SubscriptionTable(t), LastExists(t), clock \in Nat, NEW u,
           NEW e \in EndsOf(t, u), \A f \in EndsOf(t, u) : f <= e
    PROVE  AccessEnd(t, u) = e
<1>1. /\ EndsOf(t, u) \subseteq Nat /\ AccessEnd(t, u) \in EndsOf(t, u)
      /\ \A f \in EndsOf(t, u) : f <= AccessEnd(t, u)
  BY EndIsLast
<1>2. e <= AccessEnd(t, u) /\ AccessEnd(t, u) <= e /\ e \in Nat /\ AccessEnd(t, u) \in Nat
  BY <1>1
<1> QED
  BY <1>2

\* Days for u move the end of u's access by that many days, and nobody else's.
LEMMA GrownEnd ==
    ASSUME NEW t, SubscriptionTable(t), LastExists(t), clock \in Nat, NEW s, SubscriptionTable(s),
           NEW u, NEW days \in Nat, Grown(t, s, u, days)
    PROVE  /\ AccessEnd(s, u) = AccessEnd(t, u) + days
           /\ \A v : v # u => AccessEnd(s, v) = AccessEnd(t, v)
<1>0. LastExists(s)
  BY GrownLast
<1>1. \A i \in DOMAIN t : t[i].expires \in Nat
  BY DEF SubscriptionTable, IsTable, SubscriptionRow
<1>2. CASE Opened(t, s, u, days)
  <2>1. PICK i \in SubscriptionIds \ DOMAIN t :
            /\ DOMAIN s = DOMAIN t \cup {i} /\ Others(t, s, i)
            /\ s[i].user = u /\ s[i].status = "active" /\ s[i].expires = clock + days
    BY <1>2 DEF Opened
  <2>2. Current(t, u) = {} /\ Current(s, u) = {i}
    <3>1. Current(t, u) = {}
      BY <1>2 DEF Opened
    <3>2. ~Past(clock + days)
      BY DEF Past
    <3>3. i \in Current(s, u)
      BY <2>1, <3>2 DEF Current
    <3>4. \A j \in Current(s, u) : j # i => j \in Current(t, u)
      BY <2>1 DEF Current, Others
    <3> QED
      BY <3>1, <3>3, <3>4
  <2>3. EndsOf(t, u) = {clock} /\ EndsOf(s, u) = {clock, clock + days}
    BY <2>1, <2>2 DEF EndsOf
  <2>4. AccessEnd(t, u) = clock /\ AccessEnd(s, u) = clock + days
    BY <1>0, <2>3, OnlyEnd
  <2>5. ASSUME NEW v, v # u
        PROVE  AccessEnd(s, v) = AccessEnd(t, v)
    <3>1. Current(s, v) = Current(t, v) /\ \A j \in Current(t, v) : s[j] = t[j]
      BY <2>1, <2>5 DEF Current, Others
    <3> QED
      BY <3>1 DEF AccessEnd, EndsOf
  <2> QED
    BY <2>4, <2>5
<1>3. CASE Prolonged(t, s, u, days)
  <2>1. PICK i \in LastToEnd(t, Current(t, u)) :
            /\ DOMAIN s = DOMAIN t /\ Others(t, s, i)
            /\ s[i].user = u /\ s[i].status = "active" /\ s[i].expires = t[i].expires + days
    BY <1>3 DEF Prolonged
  <2>2. /\ i \in DOMAIN t /\ i \in Current(t, u) /\ t[i].user = u /\ clock <= t[i].expires
        /\ \A j \in Current(t, u) : t[j].expires <= t[i].expires
    BY <1>1 DEF LastToEnd, Current, Past
  <2>3. Current(s, u) = Current(t, u)
    BY <1>1, <2>1, <2>2 DEF Current, Others, Past
  <2>4. AccessEnd(t, u) = t[i].expires
    <3>1. t[i].expires \in EndsOf(t, u)
      BY <2>2 DEF EndsOf
    <3>2. \A f \in EndsOf(t, u) : f <= t[i].expires
      BY <2>2 DEF EndsOf
    <3> QED
      BY <3>1, <3>2, OnlyEnd
  <2>5. \A j \in Current(s, u) : s[j].expires <= s[i].expires
    <3> SUFFICES ASSUME NEW j \in Current(t, u)
                 PROVE  s[j].expires <= s[i].expires
      BY <2>3
    <3>1. t[j].expires <= t[i].expires /\ t[j].expires \in Nat /\ t[i].expires \in Nat
      BY <1>1, <2>2 DEF Current
    <3>2. s[j] = t[j] \/ j = i
      BY <2>1 DEF Others, Current
    <3> QED
      BY <2>1, <3>1, <3>2
  <2>6. clock <= s[i].expires
    BY <1>1, <2>1, <2>2
  <2>7. AccessEnd(s, u) = s[i].expires
    <3>1. s[i].expires \in EndsOf(s, u)
      BY <2>2, <2>3 DEF EndsOf
    <3>2. \A f \in EndsOf(s, u) : f <= s[i].expires
      BY <2>5, <2>6 DEF EndsOf
    <3> QED
      BY <1>0, <3>1, <3>2, OnlyEnd
  <2>8. ASSUME NEW v, v # u
        PROVE  AccessEnd(s, v) = AccessEnd(t, v)
    <3>1. Current(s, v) = Current(t, v) /\ \A j \in Current(t, v) : s[j] = t[j]
      BY <2>1, <2>2, <2>8 DEF Current, Others
    <3> QED
      BY <3>1 DEF AccessEnd, EndsOf
  <2> QED
    BY <2>1, <2>4, <2>7, <2>8
<1> QED
  BY <1>2, <1>3 DEF Grown

-----------------------------------------------------------------------------
(***************************************************************************)
(* The two kinds of step.                                                  *)
(***************************************************************************)

\* What the inviter of u has coming when u pays.
Count(u) == PaidCount(paidReferrals \cup {u}, Inviter[u])

\* The buyer's own days first, then the inviter's.
LEMMA GrantGrows ==
    ASSUME TypeOK, NEW u \in Users, NEW tariff \in Tariffs, NEW days \in Nat,
           GrantSubscription(u, tariff, days)
    PROVE  \E t : /\ SubscriptionTable(t)
                  /\ Grown(subscriptions, t, u, days)
                  /\ \/ subscriptions' = t
                     \/ /\ Referred(u) /\ BonusDays(Count(u)) > 0
                        /\ Grown(t, subscriptions', Inviter[u], BonusDays(Count(u)))
<1>1. SubscriptionTable(subscriptions) /\ clock \in Nat
  BY DEF TypeOK, PlatformTypeOK, SubscriptionsTypeOK, SubscriptionTable
<1>2. PICK t \in Purchased(subscriptions, u, tariff, days) : subscriptions' \in AfterBonus(t, u)
  BY DEF GrantSubscription
<1>3. SubscriptionTable(t) /\ Grown(subscriptions, t, u, days)
  BY <1>1, PurchasedType, PurchasedGrows
<1>4. CASE Referred(u) /\ BonusDays(Count(u)) > 0
  <2>1. subscriptions' \in Extended(t, Inviter[u], Basic, BonusDays(Count(u)))
    BY <1>2, <1>4 DEF AfterBonus, Count
  <2> QED
    BY <1>3, <1>4, <2>1, ExtendedGrows
<1>5. CASE ~(Referred(u) /\ BonusDays(Count(u)) > 0)
  BY <1>2, <1>3, <1>5 DEF AfterBonus, Count
<1> QED
  BY <1>4, <1>5

\* Payments are never deleted or given to others.
PaymentsKept ==
    /\ DOMAIN payments \subseteq DOMAIN payments'
    /\ \A p \in DOMAIN payments : /\ payments'[p].user = payments[p].user
                                  /\ payments'[p].product = payments[p].product
                                  /\ payments'[p].created = payments[p].created

\* One payment is approved and what it buys is granted.
ApprovalStep(p, days) ==
    /\ p \in DOMAIN payments /\ ~Approved(p) /\ Approved(p)'
    /\ \A q \in PaymentIds \ {p} : Approved(q)' <=> Approved(q)
    /\ IF payments[p].product \in Tariffs
       THEN GrantSubscription(payments[p].user, payments[p].product, days)
       ELSE GrantCourse(payments[p].user, payments[p].product)
    /\ UNCHANGED <<clock, gifts>>

\* A gift of an admin grows the subscriptions, other steps keep who has them.
GiftOrNone ==
    \/ /\ DOMAIN subscriptions' = DOMAIN subscriptions
       /\ \A s \in DOMAIN subscriptions : /\ subscriptions'[s].user = subscriptions[s].user
                                          /\ subscriptions'[s].expires = subscriptions[s].expires
       /\ UNCHANGED gifts
    \/ \E u \in Users, days \in Nat : /\ Grown(subscriptions, subscriptions', u, days)
                                      /\ gifts' = [gifts EXCEPT ![u] = @ + 1]

OtherStep ==
    /\ \A q \in PaymentIds : Approved(q)' <=> Approved(q)
    /\ UNCHANGED <<referralVars, level>>
    /\ GiftOrNone
    /\ \A k \in Users \X Courses : access[k].status # "none" => access'[k].status # "none"

LEMMA ApproveIsApproval ==
    ASSUME PaymentTable(payments), NEW ps, PaymentTable(ps), DOMAIN ps = DOMAIN payments, NEW rs,
           NEW p \in DOMAIN ps, payments[p].status # "approved",
           ps[p].user = payments[p].user, ps[p].product = payments[p].product,
           ps[p].created = payments[p].created,
           \A q \in DOMAIN payments \ {p} : ps[q] = payments[q],
           NEW days, NEW byAdmin \in BOOLEAN, Approve(ps, rs, p, days, byAdmin)
    PROVE  PaymentsKept /\ ApprovalStep(p, days)
<1>1. /\ payments' = [ps EXCEPT ![p].status = "approved", ![p].autoRejected = FALSE,
                                ![p].reviewed = byAdmin]
      /\ IF ps[p].product \in Tariffs
         THEN GrantSubscription(ps[p].user, ps[p].product, days)
         ELSE GrantCourse(ps[p].user, ps[p].product)
      /\ UNCHANGED <<clock, gifts>>
  BY DEF Approve
<1>2. ps[p] \in PaymentRow
  BY DEF PaymentTable, IsTable
<1>3. /\ DOMAIN payments' = DOMAIN payments
      /\ payments'[p].status = "approved"
      /\ payments'[p].user = payments[p].user /\ payments'[p].product = payments[p].product
      /\ payments'[p].created = payments[p].created
      /\ \A q \in DOMAIN payments \ {p} : payments'[q] = payments[q]
  BY <1>1, <1>2 DEF PaymentRow
<1>4. PaymentsKept
  BY <1>3 DEF PaymentsKept
<1>5. p \in DOMAIN payments /\ ~Approved(p) /\ Approved(p)'
  BY <1>3 DEF Approved
<1>6. \A q \in PaymentIds \ {p} : Approved(q)' <=> Approved(q)
  BY <1>3 DEF Approved
<1> QED
  BY <1>1, <1>4, <1>5, <1>6 DEF ApprovalStep

\* A receipt that is stored and no more approves nothing.
LEMMA AttachKinds ==
    ASSUME Inv, NEW u, NEW p \in Open(u), NEW d \in Docs, AttachReceipt(d, p)
    PROVE  PaymentsKept /\ (OtherStep \/ ApprovalStep(p, SubscriptionDays))
<1> DEFINE row == ReceiptFor(d, p)
           refused == AutoRejects(row.status, row.codes)
           ps == Moved(p, row)
<1>0. /\ p \in DOMAIN payments /\ payments[p].status \in {"pending", "uploaded_receipt"}
      /\ PaymentTable(payments) /\ clock \in Nat
  BY DEF Open, Inv, TypeOK, PaymentTable, PlatformTypeOK
<1>1. payments[p] \in PaymentRow /\ refused \in BOOLEAN /\ p \in PaymentIds
  BY <1>0 DEF PaymentTable, IsTable, AutoRejects
<1>2. PICK i :
          IF row.status = "valid_candidate"
          THEN Approve(ps, Insert(receipts, i, row), p, SubscriptionDays, FALSE)
          ELSE /\ payments' = ps
               /\ UNCHANGED <<clock, subscriptions, gifts, referralVars, access, level>>
  BY DEF AttachReceipt
<1> HIDE DEF row
<1>3. /\ PaymentTable(ps) /\ DOMAIN ps = DOMAIN payments
      /\ ps[p].user = payments[p].user /\ ps[p].product = payments[p].product
      /\ ps[p].created = payments[p].created
      /\ ps[p].status \in {"rejected", "uploaded_receipt"}
      /\ \A q \in DOMAIN payments \ {p} : ps[q] = payments[q]
  BY <1>0, <1>1 DEF Moved, PaymentTable, IsTable, PaymentRow, PaymentStatus
<1>4. CASE row.status = "valid_candidate"
  <2>1. Approve(ps, Insert(receipts, i, row), p, SubscriptionDays, FALSE)
    BY <1>2, <1>4
  <2> HIDE DEF ps
  <2> QED
    BY <1>0, <1>3, <2>1, ApproveIsApproval
<1>5. CASE row.status # "valid_candidate"
  <2>1. payments' = ps /\ UNCHANGED <<clock, subscriptions, gifts, referralVars, access, level>>
    BY <1>2, <1>5
  <2>2. PaymentsKept
    BY <1>3, <2>1 DEF PaymentsKept
  <2>3. \A q \in PaymentIds : Approved(q)' <=> Approved(q)
    BY <1>0, <1>3, <2>1 DEF Approved
  <2> QED
    BY <2>1, <2>2, <2>3 DEF OtherStep, GiftOrNone
<1> QED
  BY <1>4, <1>5

\* A step that leaves the grants alone and approves nothing.
LEMMA QuietStep ==
    ASSUME PaymentsKept, \A q \in PaymentIds : Approved(q)' <=> Approved(q),
           UNCHANGED <<subscriptions, gifts, referralVars, access, level>>
    PROVE  PaymentsKept /\ OtherStep
BY DEF OtherStep, GiftOrNone

LEMMA CreateKinds ==
    ASSUME TypeOK, NEW u \in Users, NEW x \in Products, CreatePayment(u, x)
    PROVE  PaymentsKept /\ OtherStep
<1>0. PaymentTable(payments)
  BY DEF TypeOK, PaymentTable
<1>1. PaymentsKept /\ \A q \in PaymentIds : Approved(q)' <=> Approved(q)
  <2>1. CASE Reusable(u, x) # {}
    <3>1. PICK p \in Newest(payments, Reusable(u, x)) :
              payments' = [payments EXCEPT ![p].expires = clock + PaymentTTL]
      BY <2>1 DEF CreatePayment
    <3>2. p \in DOMAIN payments
      BY DEF Newest, Reusable
    <3>3. payments[p] \in PaymentRow
      BY <1>0, <3>2 DEF PaymentTable, IsTable
    <3> QED
      BY <3>1, <3>2, <3>3 DEF PaymentRow, PaymentsKept, Approved
  <2>2. CASE Reusable(u, x) = {}
    <3>1. PICK p \in NextId(PaymentIds, payments) :
              payments' = Insert(payments, p, NewPayment(u, x))
      BY <2>2 DEF CreatePayment
    <3>2. p \notin DOMAIN payments
      BY DEF NextId
    <3>3. /\ DOMAIN payments' = DOMAIN payments \cup {p} /\ payments'[p].status = "pending"
          /\ \A q \in DOMAIN payments : payments'[q] = payments[q]
      BY <3>1, <3>2 DEF Insert, NewPayment
    <3> QED
      BY <3>2, <3>3 DEF PaymentsKept, Approved
  <2> QED
    BY <2>1, <2>2
<1> QED
  BY <1>1, QuietStep DEF CreatePayment

LEMMA RejectKinds ==
    ASSUME TypeOK, NEW p, RejectPayment(p)
    PROVE  PaymentsKept /\ OtherStep
<1>1. p \in DOMAIN payments /\ payments[p].status # "approved"
  BY DEF RejectPayment, Rejectable
<1>2. payments[p] \in PaymentRow
  BY <1>1 DEF TypeOK, IsTable
<1>3. /\ DOMAIN payments' = DOMAIN payments /\ payments'[p].status = "rejected"
      /\ payments'[p].user = payments[p].user /\ payments'[p].product = payments[p].product
      /\ payments'[p].created = payments[p].created
      /\ \A q \in DOMAIN payments \ {p} : payments'[q] = payments[q]
  BY <1>1, <1>2 DEF RejectPayment, PaymentRow
<1>4. PaymentsKept /\ \A q \in PaymentIds : Approved(q)' <=> Approved(q)
  BY <1>1, <1>3 DEF PaymentsKept, Approved
<1> QED
  BY <1>4, QuietStep DEF RejectPayment

LEMMA ExpireKinds ==
    ASSUME TypeOK, ExpirePendingPayments
    PROVE  PaymentsKept /\ OtherStep
<1>1. \A p \in DOMAIN payments : payments[p] \in PaymentRow
  BY DEF TypeOK, IsTable
<1>2. /\ DOMAIN payments' = DOMAIN payments
      /\ \A p \in DOMAIN payments :
             \/ payments'[p] = payments[p]
             \/ /\ payments[p].status = "pending" /\ payments'[p].status = "expired"
                /\ payments'[p].user = payments[p].user
                /\ payments'[p].product = payments[p].product
                /\ payments'[p].created = payments[p].created
  BY <1>1 DEF ExpirePendingPayments, TimedOut, PaymentRow
<1>3. PaymentsKept /\ \A q \in PaymentIds : Approved(q)' <=> Approved(q)
  BY <1>2 DEF PaymentsKept, Approved
<1> QED
  BY <1>3, QuietStep DEF ExpirePendingPayments

LEMMA AdminKinds ==
    ASSUME TypeOK, AdminStep
    PROVE  PaymentsKept /\ OtherStep
<1>0. SubscriptionTable(subscriptions) /\ PremiumTypeOK
  BY DEF TypeOK, SubscriptionsTypeOK, SubscriptionTable
<1>1. PaymentsKept /\ \A q \in PaymentIds : Approved(q)' <=> Approved(q)
  BY OtherSteps DEF PaymentsKept, Approved
<1>2. ASSUME NEW s \in SubscriptionIds, NEW status \in AdminStatuses,
             AdminSetsSubscription(s, status)
      PROVE  OtherStep
  <2>1. /\ s \in DOMAIN subscriptions
        /\ subscriptions' = [subscriptions EXCEPT ![s].status = status]
    BY <1>2 DEF AdminSetsSubscription, UpdateSubscriptionStatus
  <2>2. subscriptions[s] \in SubscriptionRow
    BY <1>0, <2>1 DEF SubscriptionTable, IsTable
  <2>3. /\ DOMAIN subscriptions' = DOMAIN subscriptions
        /\ \A r \in DOMAIN subscriptions : /\ subscriptions'[r].user = subscriptions[r].user
                                           /\ subscriptions'[r].expires = subscriptions[r].expires
    BY <2>1, <2>2 DEF SubscriptionRow
  <2> QED
    BY <1>1, <1>2, <2>3
    DEF AdminSetsSubscription, UpdateSubscriptionStatus, OtherStep, GiftOrNone
<1>3. ASSUME NEW u \in Users, NEW tariff \in Tariffs, NEW days \in GiftDays,
             AdminGivesDays(u, tariff, days)
      PROVE  OtherStep
  <2>1. days \in Nat
    BY SubscriptionsAssumption
  <2>2. Grown(subscriptions, subscriptions', u, days)
    BY <1>0, <1>3, ExtendedGrows DEF AdminGivesDays, ManualAddSubscriptionDays
  <2> QED
    BY <1>1, <1>3, <2>1, <2>2
    DEF AdminGivesDays, ManualAddSubscriptionDays, OtherStep, GiftOrNone
<1>4. ASSUME NEW u \in Users, NEW c \in Courses, NEW term, AdminGrantsAccess(u, c, term)
      PROVE  OtherStep
  <2>1. PICK e : access' = [access EXCEPT ![<<u, c>>] = [status |-> "active", expires |-> e]]
    BY <1>4 DEF AdminGrantsAccess, GrantAccess
  <2>2. \A k \in Users \X Courses : access[k].status # "none" => access'[k].status # "none"
    BY <1>0, <2>1 DEF PremiumTypeOK
  <2> QED
    BY <1>1, <1>4, <2>2 DEF AdminGrantsAccess, OtherStep, GiftOrNone
<1>5. ASSUME NEW u \in Users, NEW c \in Courses, AdminRevokesAccess(u, c)
      PROVE  OtherStep
  <2>1. \A k \in Users \X Courses : access[k].status # "none" => access'[k].status # "none"
    BY <1>0, <1>5
    DEF AdminRevokesAccess, RevokePremiumCourseAccess, PremiumTypeOK, AccessRow
  <2> QED
    BY <1>1, <1>5, <2>1 DEF AdminRevokesAccess, OtherStep, GiftOrNone
<1> QED
  BY <1>1, <1>2, <1>3, <1>4, <1>5 DEF AdminStep

LEMMA SweepKinds ==
    ASSUME TypeOK, SweepSubscriptions \/ SweepAccess \/ Tick
    PROVE  PaymentsKept /\ OtherStep
<1>0. SubscriptionTable(subscriptions) /\ PremiumTypeOK
  BY DEF TypeOK, SubscriptionsTypeOK, SubscriptionTable
<1>1. PaymentsKept /\ \A q \in PaymentIds : Approved(q)' <=> Approved(q)
  BY OtherSteps DEF PaymentsKept, Approved
<1>2. CASE SweepSubscriptions
  <2>1. /\ DOMAIN subscriptions' = DOMAIN subscriptions
        /\ \A s \in DOMAIN subscriptions : /\ subscriptions'[s].user = subscriptions[s].user
                                           /\ subscriptions'[s].expires = subscriptions[s].expires
    BY <1>0, <1>2
    DEF SweepSubscriptions, ExpireSubscriptions, SubscriptionTable, IsTable, SubscriptionRow
  <2> QED
    BY <1>1, <1>2, <2>1 DEF SweepSubscriptions, ExpireSubscriptions, OtherStep, GiftOrNone
<1>3. CASE SweepAccess
  <2>1. \A k \in Users \X Courses : access[k].status # "none" => access'[k].status # "none"
    BY <1>0, <1>3
    DEF SweepAccess, ExpirePremiumCourseAccesses, PremiumTypeOK, AccessRow
  <2> QED
    BY <1>1, <1>3, <2>1 DEF SweepAccess, OtherStep, GiftOrNone
<1>4. CASE Tick
  BY <1>1, <1>4, QuietStep DEF Tick
<1> QED
  BY <1>2, <1>3, <1>4

\* Every step is of one of the two kinds.
LEMMA StepKinds ==
    ASSUME Inv, [Next]_vars
    PROVE  /\ PaymentsKept
           /\ \/ OtherStep
              \/ \E p \in PaymentIds, days \in ReviewDays \cup {SubscriptionDays} :
                     ApprovalStep(p, days)
<1>0. TypeOK /\ PaymentTable(payments)
  BY DEF Inv, TypeOK, PaymentTable
<1>1. ASSUME NEW u, NEW p \in Open(u), NEW d \in Docs, AttachReceipt(d, p)
      PROVE  /\ PaymentsKept
             /\ \/ OtherStep
                \/ \E q \in PaymentIds, days \in ReviewDays \cup {SubscriptionDays} :
                       ApprovalStep(q, days)
  <2>1. p \in PaymentIds
    BY <1>0 DEF Open, PaymentTable, IsTable
  <2> QED
    BY <1>1, <2>1, AttachKinds
<1>2. CASE UserStep
  <2>1. PICK u \in Users :
            \/ \E x \in Products : CreatePayment(u, x)
            \/ \E p \in PaymentIds, d \in Docs : UploadToPayment(u, p, d)
            \/ \E d \in Docs : UploadToBot(u, d)
    BY <1>2 DEF UserStep
  <2>2. CASE \E x \in Products : CreatePayment(u, x)
    BY <1>0, <2>2, CreateKinds
  <2>3. CASE \E p \in PaymentIds, d \in Docs : UploadToPayment(u, p, d)
    BY <1>1, <2>3 DEF UploadToPayment
  <2>4. CASE \E d \in Docs : UploadToBot(u, d)
    BY <1>1, <2>4 DEF UploadToBot, Newest
  <2> QED
    BY <2>1, <2>2, <2>3, <2>4
<1>3. CASE ReviewStep
  <2>1. PICK p \in PaymentIds :
            (\E days \in ReviewDays : ApprovePayment(p, days)) \/ RejectPayment(p)
    BY <1>3 DEF ReviewStep
  <2>2. ASSUME NEW days \in ReviewDays, ApprovePayment(p, days)
        PROVE  PaymentsKept /\ ApprovalStep(p, days)
    BY <1>0, <2>2, ApproveIsApproval DEF ApprovePayment
  <2> QED
    BY <1>0, <2>1, <2>2, RejectKinds
<1>4. CASE MinuteJob
  BY <1>0, <1>4, ExpireKinds, SweepKinds DEF MinuteJob
<1>5. CASE UNCHANGED vars
  <2>1. PaymentsKept /\ \A q \in PaymentIds : Approved(q)' <=> Approved(q)
    BY <1>5 DEF vars, PaymentsKept, Approved
  <2> QED
    BY <1>5, <2>1, QuietStep DEF vars, referralVars
<1> QED
  BY <1>0, <1>2, <1>3, <1>4, <1>5, AdminKinds, SweepKinds DEF Next

-----------------------------------------------------------------------------
(***************************************************************************)
(* What the two kinds of step do to users, rewards and payers.             *)
(***************************************************************************)

\* What no step takes away.
LEMMA NothingTaken ==
    ASSUME Inv, [Next]_vars
    PROVE  /\ \A p \in DOMAIN payments : Approved(p) => Approved(p)'
           /\ \A u \in Users : PaidTariff(u) => PaidTariff(u)'
           /\ \A u \in Users : gifts[u] > 0 => gifts'[u] > 0
           /\ rewards \subseteq rewards'
<1>1. PaymentsKept
  BY StepKinds
<1>2. \A p \in DOMAIN payments : Approved(p) => Approved(p)'
  BY <1>1, NextSettles DEF Settled, Approved, PaymentsKept
<1>3. \A u \in Users : PaidTariff(u) => PaidTariff(u)'
  BY <1>1, <1>2 DEF PaidTariff, PaymentsKept, Approved
<1>4. gifts \in [Users -> Nat]
  BY DEF Inv, TypeOK, SubscriptionsTypeOK
<1>5. CASE OtherStep
  BY <1>2, <1>3, <1>4, <1>5 DEF OtherStep, referralVars, GiftOrNone
<1>6. ASSUME NEW p, NEW days, ApprovalStep(p, days)
      PROVE  UNCHANGED gifts /\ rewards \subseteq rewards'
  BY <1>6 DEF ApprovalStep, GrantSubscription, GrantCourse, RewardInviter, referralVars
<1> QED
  BY <1>2, <1>3, <1>5, <1>6, StepKinds

\* An approval makes its customer a payer, if it is for a tariff, and nobody else.
LEMMA WhoPaid ==
    ASSUME Inv, [Next]_vars, NEW p \in PaymentIds, NEW days, ApprovalStep(p, days),
           NEW u \in Users
    PROVE  PaidTariff(u)' <=> \/ PaidTariff(u)
                              \/ u = payments[p].user /\ payments[p].product \in Tariffs
<1>0. PaymentsKept /\ TypeOK'
  BY StepKinds, NextType DEF Inv
<1>1. \A q \in DOMAIN payments' : Approved(q)' => q \in DOMAIN payments /\ (Approved(q) \/ q = p)
  <2> SUFFICES ASSUME NEW q \in DOMAIN payments', Approved(q)'
               PROVE  q \in DOMAIN payments /\ (Approved(q) \/ q = p)
    OBVIOUS
  <2>1. q \in PaymentIds
    BY <1>0 DEF TypeOK, IsTable
  <2> QED
    BY <2>1 DEF ApprovalStep, Approved
<1>2. \A q \in DOMAIN payments : Approved(q) => Approved(q)'
  BY DEF ApprovalStep, Inv, TypeOK, IsTable
<1> QED
  BY <1>0, <1>1, <1>2 DEF PaidTariff, PaymentsKept, ApprovalStep, Approved

LEMMA SamePayers ==
    ASSUME Inv, [Next]_vars, OtherStep, NEW u \in Users
    PROVE  PaidTariff(u)' <=> PaidTariff(u)
<1>0. PaymentsKept /\ TypeOK'
  BY StepKinds, NextType DEF Inv
<1>1. \A q \in DOMAIN payments' : Approved(q)' => q \in DOMAIN payments /\ Approved(q)
  BY <1>0 DEF TypeOK, IsTable, OtherStep, Approved
<1>2. \A q \in DOMAIN payments : Approved(q) => Approved(q)'
  BY DEF OtherStep, Inv, TypeOK, IsTable
<1> QED
  BY <1>0, <1>1, <1>2 DEF PaidTariff, PaymentsKept, Approved

\* One more payer counts for his inviter and for nobody else.
LEMMA CountMoves ==
    ASSUME NEW paid, IsFiniteSet(paid), NEW u, NEW w
    PROVE  /\ PaidCount(paid, w) \in Nat
           /\ PaidCount(paid, w) <= PaidCount(paid \cup {u}, w)
           /\ PaidCount(paid \cup {u}, w) \in Nat
           /\ w # Inviter[u] => PaidCount(paid \cup {u}, w) = PaidCount(paid, w)
<1> DEFINE S == {v \in paid : Inviter[v] = w}
           T == {v \in paid \cup {u} : Inviter[v] = w}
<1>1. IsFiniteSet(paid \cup {u})
  BY FS_AddElement
<1>2. IsFiniteSet(T) /\ S \subseteq T
  BY <1>1, FS_Subset
<1>3. Cardinality(S) <= Cardinality(T) /\ Cardinality(S) \in Nat /\ Cardinality(T) \in Nat
  BY <1>2, FS_Subset, FS_CardinalityType
<1>4. w # Inviter[u] => T = S
  OBVIOUS
<1> QED
  BY <1>3, <1>4 DEF PaidCount

LEMMA RewardsKept ==
    ASSUME Inv, [Next]_vars, RewardsFollowPayments, IsFiniteSet(paidReferrals)
    PROVE  RewardsFollowPayments' /\ IsFiniteSet(paidReferrals')
<1>0. payments \in [DOMAIN payments -> PaymentRow] /\ rewards \subseteq Users \X Thresholds
  BY DEF Inv, TypeOK, IsTable, ReferralsTypeOK
<1>1. CASE OtherStep
  <2>1. UNCHANGED <<paidReferrals, coins, rewards>>
    BY <1>1 DEF OtherStep, referralVars
  <2>2. \A u \in Users : PaidTariff(u)' <=> PaidTariff(u)
    BY <1>1, SamePayers
  <2> QED
    BY <2>1, <2>2 DEF RewardsFollowPayments
<1>2. ASSUME NEW p \in PaymentIds, NEW days, ApprovalStep(p, days)
      PROVE  RewardsFollowPayments' /\ IsFiniteSet(paidReferrals')
  <2> DEFINE u == payments[p].user
  <2>1. u \in Users
    BY <1>0, <1>2 DEF ApprovalStep, PaymentRow
  <2>2. \A v \in Users : PaidTariff(v)' <=>
            PaidTariff(v) \/ (v = u /\ payments[p].product \in Tariffs)
    BY <1>2, WhoPaid
  <2>3. CASE payments[p].product \in Tariffs /\ Referred(u)
    <3>1. RewardInviter(u)
      BY <1>2, <2>3 DEF ApprovalStep, GrantSubscription
    <3>2. paidReferrals' = paidReferrals \cup {u} /\ IsFiniteSet(paidReferrals')
      BY <3>1, FS_AddElement DEF RewardInviter
    <3>3. paidReferrals' = {v \in Users : Referred(v) /\ PaidTariff(v)'}
      BY <2>1, <2>2, <2>3, <3>2 DEF RewardsFollowPayments
    <3>4. coins' = {<<Inviter[v], v>> : v \in paidReferrals'}
      BY <3>1, <3>2 DEF RewardsFollowPayments, RewardInviter
    <3>5. ASSUME NEW w \in Users, NEW t \in Thresholds
          PROVE  <<w, t>> \in rewards' <=> t <= PaidCount(paidReferrals', w)
      <4>1. <<w, t>> \in rewards <=> t <= PaidCount(paidReferrals, w)
        BY DEF RewardsFollowPayments
      <4>2. /\ PaidCount(paidReferrals, w) \in Nat
            /\ PaidCount(paidReferrals, w) <= PaidCount(paidReferrals', w)
            /\ PaidCount(paidReferrals', w) \in Nat
            /\ w # Inviter[u] => PaidCount(paidReferrals', w) = PaidCount(paidReferrals, w)
        BY <3>2, CountMoves
      <4>3. t \in Nat
        BY ReferralsAssumption
      <4>4. CASE w = Inviter[u]
        <5>1. rewards' = rewards \cup ({w} \X Reached(PaidCount(paidReferrals', w)))
          BY <3>1, <3>2, <4>4 DEF RewardInviter
        <5> QED
          BY <4>1, <4>2, <4>3, <5>1 DEF Reached
      <4>5. CASE w # Inviter[u]
        <5>1. <<w, t>> \in rewards' <=> <<w, t>> \in rewards
          BY <3>1, <4>5 DEF RewardInviter
        <5> QED
          BY <4>1, <4>2, <4>5, <5>1
      <4> QED
        BY <4>4, <4>5
    <3> QED
      BY <3>2, <3>3, <3>4, <3>5 DEF RewardsFollowPayments
  <2>4. CASE ~(payments[p].product \in Tariffs /\ Referred(u))
    <3>1. UNCHANGED <<paidReferrals, coins, rewards>>
      BY <1>2, <2>4 DEF ApprovalStep, GrantSubscription, GrantCourse, referralVars
    <3>2. \A v \in Users : Referred(v) => (PaidTariff(v)' <=> PaidTariff(v))
      BY <2>2, <2>4
    <3> QED
      BY <3>1, <3>2 DEF RewardsFollowPayments
  <2> QED
    BY <2>3, <2>4
<1> QED
  BY <1>1, <1>2, StepKinds

\* The reasons AccessIsEarned allows.
Earned(u) ==
    \/ PaidTariff(u)
    \/ gifts[u] > 0
    \/ \E t \in {WeekGoal, MonthGoal} : <<u, t>> \in rewards

\* Rows stay with their users; a new one is a buyer's, a gift or a bonus.
LEMMA RowsEarned ==
    ASSUME Inv, [Next]_vars
    PROVE  /\ DOMAIN subscriptions \subseteq DOMAIN subscriptions'
           /\ \A s \in DOMAIN subscriptions : subscriptions'[s].user = subscriptions[s].user
           /\ \A s \in DOMAIN subscriptions' \ DOMAIN subscriptions, u \in Users :
                  subscriptions'[s].user = u => Earned(u)'
<1>0. /\ SubscriptionTable(subscriptions) /\ gifts \in [Users -> Nat] /\ TypeOK
      /\ payments \in [DOMAIN payments -> PaymentRow] /\ PaymentsKept
  BY StepKinds DEF Inv, TypeOK, SubscriptionsTypeOK, SubscriptionTable, IsTable
<1>1. CASE OtherStep
  <2>1. CASE DOMAIN subscriptions' = DOMAIN subscriptions
             /\ \A s \in DOMAIN subscriptions : subscriptions'[s].user = subscriptions[s].user
    BY <2>1
  <2>2. CASE \E u \in Users, days \in Nat : /\ Grown(subscriptions, subscriptions', u, days)
                                            /\ gifts' = [gifts EXCEPT ![u] = @ + 1]
    <3>1. PICK u \in Users, days \in Nat : /\ Grown(subscriptions, subscriptions', u, days)
                                           /\ gifts' = [gifts EXCEPT ![u] = @ + 1]
      BY <2>2
    <3>2. gifts'[u] > 0
      BY <1>0, <3>1
    <3> QED
      BY <1>0, <3>1, <3>2, GrownUsers DEF Earned
  <2> QED
    BY <1>1, <2>1, <2>2 DEF OtherStep, GiftOrNone
<1>2. ASSUME NEW p \in PaymentIds, NEW days \in ReviewDays \cup {SubscriptionDays},
             ApprovalStep(p, days)
      PROVE  /\ DOMAIN subscriptions \subseteq DOMAIN subscriptions'
             /\ \A s \in DOMAIN subscriptions : subscriptions'[s].user = subscriptions[s].user
             /\ \A s \in DOMAIN subscriptions' \ DOMAIN subscriptions, u \in Users :
                    subscriptions'[s].user = u => Earned(u)'
  <2>0. /\ payments[p].user \in Users /\ payments[p].product \in Products /\ days \in Nat
        /\ p \in DOMAIN payments
    BY <1>0, <1>2, PaymentsAssumption DEF ApprovalStep, PaymentRow
  <2>1. PICK u \in Users, x \in Products : u = payments[p].user /\ x = payments[p].product
    BY <2>0
  <2>2. CASE x \notin Tariffs
    BY <1>2, <2>1, <2>2 DEF ApprovalStep, GrantCourse
  <2>3. CASE x \in Tariffs
    <3>1. GrantSubscription(u, x, days) /\ Earned(u)'
      BY <1>2, <2>1, <2>3, WhoPaid DEF ApprovalStep, Earned
    <3>2. PICK t : /\ SubscriptionTable(t)
                   /\ Grown(subscriptions, t, u, days)
                   /\ \/ subscriptions' = t
                      \/ /\ Referred(u) /\ BonusDays(Count(u)) > 0
                         /\ Grown(t, subscriptions', Inviter[u], BonusDays(Count(u)))
      BY <1>0, <2>0, <2>3, <3>1, GrantGrows
    <3>3. /\ DOMAIN subscriptions \subseteq DOMAIN t
          /\ \A s \in DOMAIN subscriptions : t[s].user = subscriptions[s].user
          /\ \A s \in DOMAIN t \ DOMAIN subscriptions : t[s].user = u
      BY <1>0, <3>2, GrownUsers
    <3>4. CASE subscriptions' = t
      BY <3>1, <3>3, <3>4
    <3>5. CASE /\ Referred(u) /\ BonusDays(Count(u)) > 0
               /\ Grown(t, subscriptions', Inviter[u], BonusDays(Count(u)))
      <4>1. /\ DOMAIN t \subseteq DOMAIN subscriptions'
            /\ \A s \in DOMAIN t : subscriptions'[s].user = t[s].user
            /\ \A s \in DOMAIN subscriptions' \ DOMAIN t : subscriptions'[s].user = Inviter[u]
        BY <3>2, <3>5, GrownUsers
      <4>2. \E g \in {WeekGoal, MonthGoal} : g \in Reached(Count(u))
        BY <3>5, ReferralsAssumption DEF BonusDays, Reached
      <4>3. rewards' = rewards \cup ({Inviter[u]} \X Reached(Count(u)))
        BY <3>1, <3>5 DEF GrantSubscription, RewardInviter, Count
      <4>4. \A w \in Users : w = Inviter[u] => Earned(w)'
        BY <4>2, <4>3 DEF Earned
      <4> QED
        BY <3>1, <3>3, <4>1, <4>4
    <3> QED
      BY <3>2, <3>4, <3>5
  <2> QED
    BY <2>2, <2>3
<1> QED
  BY <1>1, <1>2, StepKinds

LEMMA EarnedKept ==
    ASSUME Inv, [Next]_vars, AccessIsEarned
    PROVE  AccessIsEarned'
<1>0. TypeOK /\ TypeOK'
  BY NextType DEF Inv
<1>1. ASSUME NEW s \in DOMAIN subscriptions', NEW u \in Users, subscriptions'[s].user = u
      PROVE  Earned(u)'
  <2>1. CASE s \notin DOMAIN subscriptions
    BY <1>1, <2>1, RowsEarned
  <2>2. CASE s \in DOMAIN subscriptions
    <3>1. subscriptions[s].user = u
      BY <1>1, <2>2, RowsEarned
    <3>2. Earned(u)
      BY <2>2, <3>1 DEF AccessIsEarned, Earned
    <3> QED
      BY <3>2, NothingTaken DEF Earned
  <2> QED
    BY <2>1, <2>2
<1>2. \A s \in DOMAIN subscriptions' : subscriptions'[s].user \in Users
  BY <1>0 DEF TypeOK, SubscriptionsTypeOK, IsTable, SubscriptionRow
<1> QED
  BY <1>1, <1>2 DEF AccessIsEarned, Earned, PaidTariff, Approved

LEMMA LastKept ==
    ASSUME Inv, [Next]_vars, LastExists(subscriptions)
    PROVE  LastExists(subscriptions')
<1>0. SubscriptionTable(subscriptions) /\ SubscriptionTable(subscriptions') /\ clock \in Nat /\ TypeOK
  BY NextType DEF Inv, TypeOK, PlatformTypeOK, SubscriptionsTypeOK, SubscriptionTable
<1>1. CASE OtherStep
  BY <1>0, <1>1, GrownLast, SameLast DEF OtherStep, GiftOrNone
<1>2. ASSUME NEW p \in PaymentIds, NEW days \in ReviewDays \cup {SubscriptionDays},
             ApprovalStep(p, days)
      PROVE  LastExists(subscriptions')
  <2>1. payments[p].user \in Users /\ days \in Nat
    BY <1>0, <1>2, PaymentsAssumption DEF ApprovalStep, TypeOK, IsTable, PaymentRow
  <2>2. CASE payments[p].product \notin Tariffs
    BY <1>2, <2>2 DEF ApprovalStep, GrantCourse
  <2>3. CASE payments[p].product \in Tariffs
    <3>1. GrantSubscription(payments[p].user, payments[p].product, days)
      BY <1>2, <2>3 DEF ApprovalStep
    <3>2. PICK t : /\ SubscriptionTable(t)
                   /\ Grown(subscriptions, t, payments[p].user, days)
                   /\ \/ subscriptions' = t
                      \/ \E w, more : Grown(t, subscriptions', w, more)
      BY <1>0, <2>1, <2>3, <3>1, GrantGrows
    <3> QED
      BY <1>0, <3>2, GrownLast
  <2> QED
    BY <2>2, <2>3
<1> QED
  BY <1>1, <1>2, StepKinds

\* Levels reached and courses opened stay so.
LEMMA LevelsAndCourses ==
    ASSUME Inv, [Next]_vars
    PROVE  /\ \A u \in Users : level[u] >= 1 => level'[u] >= 1
           /\ \A k \in Users \X Courses : access[k].status # "none" => access'[k].status # "none"
<1>0. /\ level \in [Users -> Nat] /\ PremiumTypeOK
      /\ payments \in [DOMAIN payments -> PaymentRow]
  BY DEF Inv, TypeOK, IsTable
<1>1. CASE OtherStep
  BY <1>1 DEF OtherStep
<1>2. ASSUME NEW p, NEW days, ApprovalStep(p, days)
      PROVE  /\ \A u \in Users : level[u] >= 1 => level'[u] >= 1
             /\ \A k \in Users \X Courses : access[k].status # "none" => access'[k].status # "none"
  <2>1. CASE payments[p].product \in Tariffs
    BY <1>0, <1>2, <2>1 DEF ApprovalStep, GrantSubscription
  <2>2. CASE payments[p].product \notin Tariffs
    <3>1. PICK k, e : access' = [access EXCEPT ![k] = [status |-> "active", expires |-> e]]
      BY <1>2, <2>2 DEF ApprovalStep, GrantCourse, GrantAccess
    <3> QED
      BY <1>0, <1>2, <2>2, <3>1 DEF ApprovalStep, GrantCourse, PremiumTypeOK
  <2> QED
    BY <2>1, <2>2
<1> QED
  BY <1>1, <1>2, StepKinds

\* What ApprovedDelivers says of a payment of u for x.
Delivered(u, x) ==
    IF x \in Tariffs
    THEN level[u] >= 1 /\ \E s \in DOMAIN subscriptions : subscriptions[s].user = u
    ELSE access[<<u, x>>].status # "none"

\* The approval itself delivers.
LEMMA ApprovalDelivers ==
    ASSUME Inv, NEW p \in PaymentIds, NEW days \in ReviewDays \cup {SubscriptionDays},
           ApprovalStep(p, days),
           NEW u \in Users, NEW x \in Products, u = payments[p].user, x = payments[p].product
    PROVE  Delivered(u, x)'
<1>0. /\ TypeOK /\ SubscriptionTable(subscriptions) /\ PremiumTypeOK
      /\ level \in [Users -> Nat] /\ days \in Nat
  BY PaymentsAssumption DEF Inv, TypeOK, SubscriptionsTypeOK, SubscriptionTable
<1>1. CASE x \in Tariffs
  <2>1. GrantSubscription(u, x, days)
    BY <1>1 DEF ApprovalStep
  <2>2. level'[u] >= 1
    BY <1>0, <2>1 DEF GrantSubscription
  <2>3. PICK t : /\ SubscriptionTable(t)
                 /\ Grown(subscriptions, t, u, days)
                 /\ subscriptions' = t \/ \E w, more : Grown(t, subscriptions', w, more)
    BY <1>0, <1>1, <2>1, GrantGrows
  <2>4. \E s \in DOMAIN t : t[s].user = u
    BY <1>0, <2>3, GrownUsers
  <2>5. \E s \in DOMAIN subscriptions' : subscriptions'[s].user = u
    BY <2>3, <2>4, GrownUsers
  <2> QED
    BY <1>1, <2>2, <2>5 DEF Delivered
<1>2. CASE x \notin Tariffs
  <2>1. x \in Courses /\ GrantCourse(u, x)
    BY <1>2 DEF ApprovalStep, Products
  <2>2. PICK e : access' = [access EXCEPT ![<<u, x>>] = [status |-> "active", expires |-> e]]
    BY <2>1 DEF GrantCourse, GrantAccess
  <2>3. access'[<<u, x>>].status = "active"
    BY <1>0, <2>1, <2>2 DEF PremiumTypeOK
  <2> QED
    BY <1>2, <2>3 DEF Delivered
<1> QED
  BY <1>1, <1>2

LEMMA DeliveredKept ==
    ASSUME Inv, [Next]_vars, ApprovedDelivers
    PROVE  ApprovedDelivers'
<1>0. TypeOK /\ TypeOK' /\ PaymentsKept
  BY NextType, StepKinds DEF Inv
<1>1. ASSUME NEW p \in DOMAIN payments', Approved(p)', NEW u \in Users, NEW x \in Products,
             u = payments'[p].user, x = payments'[p].product
      PROVE  Delivered(u, x)'
  <2>0. p \in PaymentIds
    BY <1>0, <1>1 DEF TypeOK, IsTable
  <2>1. CASE p \in DOMAIN payments /\ Approved(p)
    <3>1. Delivered(u, x)
      BY <1>0, <1>1, <2>1 DEF PaymentsKept, ApprovedDelivers, Delivered
    <3>2. /\ level[u] >= 1 => level'[u] >= 1
          /\ x \in Courses /\ access[<<u, x>>].status # "none" => access'[<<u, x>>].status # "none"
      BY LevelsAndCourses
    <3>3. (\E s \in DOMAIN subscriptions : subscriptions[s].user = u) =>
              \E s \in DOMAIN subscriptions' : subscriptions'[s].user = u
      BY RowsEarned
    <3> QED
      BY <3>1, <3>2, <3>3 DEF Delivered, Products
  <2>2. CASE ~Approved(p)
    <3>1. ~OtherStep
      BY <1>1, <2>0, <2>2 DEF OtherStep
    <3>2. PICK days \in ReviewDays \cup {SubscriptionDays} : ApprovalStep(p, days)
      BY <1>1, <2>0, <2>2, <3>1, StepKinds DEF ApprovalStep
    <3>3. u = payments[p].user /\ x = payments[p].product
      BY <1>0, <1>1, <3>2 DEF PaymentsKept, ApprovalStep
    <3> QED
      BY <2>0, <3>2, <3>3, ApprovalDelivers
  <2> QED
    BY <2>1, <2>2 DEF Approved
<1>2. \A p \in DOMAIN payments' : payments'[p].user \in Users /\ payments'[p].product \in Products
  BY <1>0 DEF TypeOK, IsTable, PaymentRow
<1> QED
  BY <1>1, <1>2 DEF ApprovedDelivers, Delivered, Approved

-----------------------------------------------------------------------------
(***************************************************************************)
(* One pending payment.                                                    *)
(***************************************************************************)

\* Nothing becomes pending or moves a pending payment's end.
PendingKept ==
    \A p \in DOMAIN payments' :
        payments'[p].status = "pending" => p \in DOMAIN payments /\ payments'[p] = payments[p]

LEMMA AttachPending ==
    ASSUME Inv, NEW u, NEW p \in Open(u), NEW d \in Docs, AttachReceipt(d, p)
    PROVE  PendingKept
<1>0. p \in DOMAIN payments /\ TypeOK
  BY DEF Open, Inv
<1>1. PICK i \in ReceiptIds \ DOMAIN receipts, row \in ReceiptRow : Attached(p, i, row)
  BY <1>0, AttachTables
<1> DEFINE qs == Moved(p, row)
           rs == Insert(receipts, i, row)
<1>2. CASE Approve(qs, rs, p, SubscriptionDays, FALSE)
  <2>1. PaymentTable(qs) /\ p \in DOMAIN qs /\ FALSE \in BOOLEAN
    BY <1>0, <1>1 DEF Attached
  <2> HIDE DEF rs
  <2>2. /\ DOMAIN payments' = DOMAIN qs
        /\ \A q \in DOMAIN qs \ {p} : payments'[q] = qs[q]
        /\ payments'[p].status = "approved"
    BY <2>1, <1>2, ApproveTables
  <2> QED
    BY <1>1, <2>2 DEF Attached, PendingKept
<1>3. CASE payments' = qs
  BY <1>1, <1>3 DEF Attached, PendingKept
<1> QED
  BY <1>1, <1>2, <1>3 DEF Attached

LEMMA OthersPending ==
    ASSUME Inv, [Next]_vars
    PROVE  \/ PendingKept
           \/ \E u \in Users, x \in Products : CreatePayment(u, x)
<1>0. TypeOK /\ PaymentTable(payments)
  BY DEF Inv, TypeOK, PaymentTable
<1>1. CASE UserStep
  <2>1. PICK u \in Users :
            \/ \E x \in Products : CreatePayment(u, x)
            \/ \E p \in PaymentIds, d \in Docs : UploadToPayment(u, p, d)
            \/ \E d \in Docs : UploadToBot(u, d)
    BY <1>1 DEF UserStep
  <2> QED
    BY <2>1, AttachPending DEF UploadToPayment, UploadToBot, Newest
<1>2. ASSUME NEW p, NEW days, ApprovePayment(p, days)
      PROVE  PendingKept
  <2>1. p \in DOMAIN payments /\ Approve(payments, receipts, p, days, TRUE)
    BY <1>2 DEF ApprovePayment
  <2>2. /\ DOMAIN payments' = DOMAIN payments
        /\ \A q \in DOMAIN payments \ {p} : payments'[q] = payments[q]
        /\ payments'[p].status = "approved"
    BY <1>0, <2>1, ApproveTables
  <2> QED
    BY <2>2 DEF PendingKept
<1>3. ASSUME NEW p, RejectPayment(p)
      PROVE  PendingKept
  <2>1. p \in DOMAIN payments /\ payments[p] \in PaymentRow
    BY <1>0, <1>3 DEF RejectPayment, PaymentTable, IsTable
  <2> QED
    BY <1>3, <2>1 DEF RejectPayment, PaymentRow, PendingKept
<1>4. CASE ExpirePendingPayments
  <2>1. \A p \in DOMAIN payments : payments[p] \in PaymentRow
    BY <1>0 DEF PaymentTable, IsTable
  <2> QED
    BY <1>4, <2>1 DEF ExpirePendingPayments, TimedOut, PaymentRow, PendingKept
<1>5. CASE AdminStep \/ SweepSubscriptions \/ SweepAccess \/ Tick \/ UNCHANGED vars
  BY <1>5, OtherSteps DEF vars, PendingKept
<1> QED
  BY <1>1, <1>2, <1>3, <1>4, <1>5 DEF Next, ReviewStep, MinuteJob

\* The clock never goes back.
LEMMA TimeMoves ==
    ASSUME clock \in Nat, [Next]_vars
    PROVE  clock' = clock \/ clock' = clock + 1
<1>1. ASSUME NEW p, NEW d, AttachReceipt(d, p)
      PROVE  clock' = clock
  BY <1>1 DEF AttachReceipt, Approve
<1>2. CASE UserStep
  BY <1>1, <1>2 DEF UserStep, CreatePayment, UploadToPayment, UploadToBot
<1>3. CASE ReviewStep
  BY <1>3 DEF ReviewStep, ApprovePayment, Approve, RejectPayment
<1>4. CASE AdminStep
  BY <1>4
  DEF AdminStep, AdminSetsSubscription, AdminGivesDays, AdminGrantsAccess, AdminRevokesAccess
<1>5. CASE MinuteJob
  BY <1>5 DEF MinuteJob, ExpirePendingPayments, SweepSubscriptions, SweepAccess
<1>6. CASE Tick \/ UNCHANGED vars
  BY <1>6 DEF Tick, PassTime, vars
<1> QED
  BY <1>2, <1>3, <1>4, <1>5, <1>6 DEF Next

LEMMA OnePendingKept ==
    ASSUME Inv, [Next]_vars, OneOpenPending
    PROVE  OneOpenPending'
<1>0. /\ TypeOK /\ clock \in Nat
      /\ \A p \in DOMAIN payments : payments[p] \in PaymentRow
  BY DEF Inv, TypeOK, PlatformTypeOK, IsTable
<1>1. CASE PendingKept
  <2>1. clock' \in Nat /\ clock <= clock'
    BY <1>0, TimeMoves
  <2>2. \A p \in DOMAIN payments' :
            payments'[p].status = "pending" /\ ~(payments'[p].expires < clock') =>
                /\ p \in DOMAIN payments /\ payments'[p] = payments[p]
                /\ ~Past(payments[p].expires)
    BY <1>0, <1>1, <2>1 DEF PendingKept, Past, PaymentRow
  <2> QED
    BY <2>2 DEF OneOpenPending, Past
<1>2. ASSUME NEW u \in Users, NEW x \in Products, CreatePayment(u, x)
      PROVE  OneOpenPending'
  <2>1. clock' = clock
    BY <1>2 DEF CreatePayment
  <2>2. CASE Reusable(u, x) # {}
    <3>1. PICK p \in Newest(payments, Reusable(u, x)) :
              payments' = [payments EXCEPT ![p].expires = clock + PaymentTTL]
      BY <1>2, <2>2 DEF CreatePayment
    <3>2. p \in DOMAIN payments /\ payments[p].status = "pending" /\ ~Past(payments[p].expires)
      BY DEF Newest, Reusable
    <3>3. /\ DOMAIN payments' = DOMAIN payments
          /\ \A q \in DOMAIN payments :
                 /\ payments'[q].user = payments[q].user
                 /\ payments'[q].product = payments[q].product
                 /\ payments'[q].status = payments[q].status
                 /\ q = p \/ payments'[q].expires = payments[q].expires
      BY <1>0, <3>1, <3>2 DEF PaymentRow
    <3>4. \A q \in DOMAIN payments :
              payments'[q].status = "pending" /\ ~(payments'[q].expires < clock') =>
                  payments[q].status = "pending" /\ ~(payments[q].expires < clock)
      BY <2>1, <3>2, <3>3 DEF Past
    <3> QED
      BY <3>3, <3>4 DEF OneOpenPending, Past
  <2>3. CASE Reusable(u, x) = {}
    <3>1. PICK p \in NextId(PaymentIds, payments) :
              payments' = Insert(payments, p, NewPayment(u, x))
      BY <1>2, <2>3 DEF CreatePayment
    <3>2. p \notin DOMAIN payments
      BY DEF NextId
    <3>3. /\ DOMAIN payments' = DOMAIN payments \cup {p}
          /\ payments'[p].user = u /\ payments'[p].product = x
          /\ \A q \in DOMAIN payments : payments'[q] = payments[q]
      BY <3>1, <3>2 DEF Insert, NewPayment
    <3>4. \A q \in DOMAIN payments :
              ~ /\ payments[q].user = u /\ payments[q].product = x
                /\ payments[q].status = "pending" /\ ~Past(payments[q].expires)
      BY <2>3 DEF Reusable
    <3> QED
      BY <2>1, <3>2, <3>3, <3>4 DEF OneOpenPending, Past
  <2> QED
    BY <2>2, <2>3
<1> QED
  BY <1>1, <1>2, OthersPending

-----------------------------------------------------------------------------
(***************************************************************************)
(* The promises.                                                           *)
(***************************************************************************)

Promises ==
    /\ Inv
    /\ OneOpenPending
    /\ ApprovedDelivers
    /\ AccessIsEarned
    /\ RewardsFollowPayments
    /\ IsFiniteSet(paidReferrals)
    /\ LastExists(subscriptions)

LEMMA InitPromises ==
    ASSUME Init
    PROVE  Promises
<1>1. Inv
  BY InitInv
<1>2. DOMAIN payments = {} /\ DOMAIN subscriptions = {}
  BY DEF Init, SubscriptionsInit, EmptyTable
<1>3. OneOpenPending /\ ApprovedDelivers /\ AccessIsEarned /\ LastExists(subscriptions)
  BY <1>2 DEF OneOpenPending, ApprovedDelivers, AccessIsEarned, LastExists
<1>4. paidReferrals = {} /\ coins = {} /\ rewards = {}
  BY DEF Init, ReferralsInit
<1>5. IsFiniteSet(paidReferrals)
  BY <1>4, FS_EmptySet
<1>6. \A w \in Users, t \in Thresholds : ~(t <= PaidCount(paidReferrals, w))
  <2>1. \A w : PaidCount(paidReferrals, w) = 0
    BY <1>4, FS_EmptySet DEF PaidCount
  <2> QED
    BY <2>1, ReferralsAssumption
<1>7. RewardsFollowPayments
  BY <1>2, <1>4, <1>6 DEF RewardsFollowPayments, PaidTariff
<1> QED
  BY <1>1, <1>3, <1>5, <1>7 DEF Promises

LEMMA NextPromises ==
    ASSUME Promises, [Next]_vars
    PROVE  Promises'
<1>1. Inv'
  BY NextInv DEF Promises
<1>2. OneOpenPending' /\ ApprovedDelivers' /\ AccessIsEarned'
  BY OnePendingKept, DeliveredKept, EarnedKept DEF Promises
<1>3. RewardsFollowPayments' /\ IsFiniteSet(paidReferrals')
  BY RewardsKept DEF Promises
<1>4. LastExists(subscriptions')
  BY LastKept DEF Promises
<1> QED
  BY <1>1, <1>2, <1>3, <1>4 DEF Promises, LastExists

LEMMA PromisesAlways == Spec => []Promises
<1>1. Init => Promises
  BY InitPromises
<1>2. Promises /\ [Next]_vars => Promises'
  BY NextPromises
<1> QED
  BY <1>1, <1>2, PTL DEF Spec

\* However often and whenever "pay" is clicked, one live pending payment remains.
THEOREM OnePendingPayment == Spec => []OneOpenPending
<1>1. Promises => OneOpenPending
  BY DEF Promises
<1> QED
  BY <1>1, PromisesAlways, PTL

\* An approved payment has delivered, and keeps having delivered, what was bought.
THEOREM ApprovalDeliversGoods == Spec => []ApprovedDelivers
<1>1. Promises => ApprovedDelivers
  BY DEF Promises
<1> QED
  BY <1>1, PromisesAlways, PTL

\* No subscription exists that nobody paid for, gave or earned.
THEOREM NoFreeAccess == Spec => []AccessIsEarned
<1>1. Promises => AccessIsEarned
  BY DEF Promises
<1> QED
  BY <1>1, PromisesAlways, PTL

\* Referral rows, coins and rewards follow from the approved payments alone, for
\* any number of users, whoever invited whom and whatever the thresholds.
THEOREM RewardsAreExact == Spec => []RewardsFollowPayments
<1>1. Promises => RewardsFollowPayments
  BY DEF Promises
<1> QED
  BY <1>1, PromisesAlways, PTL

-----------------------------------------------------------------------------
(***************************************************************************)
(* The days bought.                                                        *)
(***************************************************************************)

LEMMA GrantEnd ==
    ASSUME Promises, NEW u \in Users, NEW tariff \in Tariffs, NEW days \in Nat,
           GrantSubscription(u, tariff, days), SubscriptionTable(subscriptions')
    PROVE  /\ AccessEnd(subscriptions', u) = AccessEnd(subscriptions, u) + days
           /\ \A v \in Users : AccessEnd(subscriptions', v) >= AccessEnd(subscriptions, v)
<1>0. /\ TypeOK /\ SubscriptionTable(subscriptions) /\ clock \in Nat
      /\ LastExists(subscriptions)
  BY DEF Promises, Inv, TypeOK, PlatformTypeOK, SubscriptionsTypeOK, SubscriptionTable
<1>1. PICK t : /\ SubscriptionTable(t)
               /\ Grown(subscriptions, t, u, days)
               /\ \/ subscriptions' = t
                  \/ /\ Referred(u) /\ BonusDays(Count(u)) > 0
                     /\ Grown(t, subscriptions', Inviter[u], BonusDays(Count(u)))
  BY <1>0, GrantGrows
<1>2. LastExists(t)
  BY <1>0, <1>1, GrownLast
<1>3. /\ AccessEnd(t, u) = AccessEnd(subscriptions, u) + days
      /\ \A v : v # u => AccessEnd(t, v) = AccessEnd(subscriptions, v)
  BY <1>0, <1>1, GrownEnd
<1>4. \A v : AccessEnd(subscriptions, v) \in Nat /\ AccessEnd(t, v) \in Nat
  BY <1>0, <1>1, <1>2, EndIsLast
<1>5. \A v : AccessEnd(t, v) >= AccessEnd(subscriptions, v)
  BY <1>3, <1>4
<1>6. CASE subscriptions' = t
  BY <1>3, <1>5, <1>6
<1>7. CASE Referred(u) /\ Grown(t, subscriptions', Inviter[u], BonusDays(Count(u)))
  <2>1. BonusDays(Count(u)) \in Nat /\ Inviter[u] # u
    BY BonusDaysType, ReferralsAssumption
  <2>2. /\ AccessEnd(subscriptions', Inviter[u]) = AccessEnd(t, Inviter[u]) + BonusDays(Count(u))
        /\ \A v : v # Inviter[u] => AccessEnd(subscriptions', v) = AccessEnd(t, v)
    BY <1>0, <1>1, <1>2, <1>7, <2>1, GrownEnd
  <2>3. \A v : AccessEnd(subscriptions', v) >= AccessEnd(t, v)
    BY <1>4, <2>1, <2>2
  <2>4. \A v : AccessEnd(subscriptions', v) \in Nat
    BY <1>4, <2>1, <2>2
  <2>5. \A v : AccessEnd(subscriptions', v) >= AccessEnd(subscriptions, v)
    BY <1>4, <1>5, <2>3, <2>4
  <2> QED
    BY <1>3, <2>1, <2>2, <2>5
<1> QED
  BY <1>1, <1>6, <1>7

\* Every purchase adds exactly the days sold, and takes time from nobody.
THEOREM DaysAreAdded == Spec => BoughtDaysAreAdded
<1> DEFINE Bought ==
        \A p \in PaymentIds :
           Approves(p) /\ payments'[p].product \in Tariffs =>
               /\ \E days \in ReviewDays \cup {SubscriptionDays} :
                      AccessEnd(subscriptions', payments'[p].user) =
                          AccessEnd(subscriptions, payments'[p].user) + days
               /\ \A u \in Users :
                      AccessEnd(subscriptions', u) >= AccessEnd(subscriptions, u)
<1>1. ASSUME Promises, [Next]_vars, NEW p \in PaymentIds, Approves(p),
             payments'[p].product \in Tariffs
      PROVE  /\ \E days \in ReviewDays \cup {SubscriptionDays} :
                    AccessEnd(subscriptions', payments'[p].user) =
                        AccessEnd(subscriptions, payments'[p].user) + days
             /\ \A u \in Users :
                    AccessEnd(subscriptions', u) >= AccessEnd(subscriptions, u)
  <2>0. Inv /\ TypeOK /\ TypeOK'
    BY <1>1, NextType DEF Promises, Inv
  <2>1. PICK days \in ReviewDays \cup {SubscriptionDays} : PaymentsKept /\ ApprovalStep(p, days)
    BY <1>1, <2>0, StepKinds DEF Approves, OtherStep, ApprovalStep
  <2>2. /\ p \in DOMAIN payments /\ payments'[p].user = payments[p].user
        /\ payments'[p].product = payments[p].product
    BY <2>1 DEF PaymentsKept, ApprovalStep
  <2>3. payments[p].user \in Users /\ days \in Nat
    BY <2>0, <2>2, PaymentsAssumption DEF TypeOK, IsTable, PaymentRow
  <2>4. GrantSubscription(payments[p].user, payments[p].product, days)
    BY <1>1, <2>1, <2>2 DEF ApprovalStep
  <2>5. SubscriptionTable(subscriptions')
    BY <2>0 DEF TypeOK, SubscriptionsTypeOK, SubscriptionTable
  <2> QED
    BY <1>1, <2>2, <2>3, <2>4, <2>5, GrantEnd
<1>2. Promises /\ [Next]_vars => Bought
  BY <1>1
<1> QED
  BY <1>2, PromisesAlways, PTL DEF Spec, BoughtDaysAreAdded

-----------------------------------------------------------------------------
(***************************************************************************)
(* What the sweeps leave.                                                  *)
(***************************************************************************)

\* The minute job takes access and payments from nobody whose time is not up.
THEOREM SweepsOnlyMark == Spec => SweepsTakeNothing
<1> DEFINE Left ==
        MinuteJob =>
           /\ \A u \in Users : Current(subscriptions, u)' = Current(subscriptions, u)
           /\ \A k \in DOMAIN access :
                  access[k].status = "active" /\ ~Lapsed(access[k]) => access'[k] = access[k]
           /\ \A p \in DOMAIN payments :
                  ~Past(payments[p].expires) => payments'[p] = payments[p]
<1>1. TypeOK /\ [Next]_vars => Left
  <2> SUFFICES ASSUME TypeOK, MinuteJob PROVE Left
    OBVIOUS
  <2>1. CASE ExpirePendingPayments
    BY <2>1 DEF ExpirePendingPayments, TimedOut, Current, Past
  <2>2. CASE SweepSubscriptions
    <3>1. clock' = clock /\ UNCHANGED <<access, payments>>
      BY <2>2 DEF SweepSubscriptions
    <3>2. \A s \in DOMAIN subscriptions : subscriptions[s] \in SubscriptionRow
      BY DEF TypeOK, SubscriptionsTypeOK, IsTable
    <3>3. /\ DOMAIN subscriptions' = DOMAIN subscriptions
          /\ \A s \in DOMAIN subscriptions :
                 IF subscriptions[s].status = "active" /\ subscriptions[s].expires < clock
                 THEN subscriptions'[s].status = "expired"
                 ELSE subscriptions'[s] = subscriptions[s]
      BY <2>2, <3>2
      DEF SweepSubscriptions, ExpireSubscriptions, Overdue, Past, SubscriptionRow
    <3>4. \A u \in Users : Current(subscriptions, u)' = Current(subscriptions, u)
      BY <3>1, <3>3 DEF Current, Past
    <3> QED
      BY <3>1, <3>4
  <2>3. CASE SweepAccess
    BY <2>3 DEF SweepAccess, ExpirePremiumCourseAccesses, Current, Past
  <2> QED
    BY <2>1, <2>2, <2>3 DEF MinuteJob
<1> QED
  BY <1>1, TypeCorrect, PTL DEF Spec, SweepsTakeNothing
-----------------------------------------------------------------------------
(***************************************************************************)
(* What the text of a receipt decides.                                     *)
(***************************************************************************)

\* The text shows that price was paid to the shop, in tenge and not before the
\* payment was created, and can be recognised when it is sent again.
Proves(text, price, created) ==
    /\ text.readable /\ text.marker
    /\ \E a \in text.amounts : Close(a, price)
    /\ "KZT" \in text.currencies
    /\ ({text.recipientBin} \cup text.otherBins) \cap AllowedBins # {}
    /\ ~TooEarly(text, created)
    /\ Identity(text) # Missing \/ QrPayload(text) # Missing

\* The text was read, and does not show the price, or tenge, or the shop.
Contradicts(text, price) ==
    /\ text.readable
    /\ \/ price \notin text.amounts
       \/ "KZT" \notin text.currencies
       \/ IF text.recipientBin # Missing
          THEN text.recipientBin \notin AllowedBins
          ELSE text.otherBins \cap AllowedBins = {}

LEMMA NoCodesProve ==
    ASSUME NEW text, NEW price, NEW created, ParserCodes(text, price, created) = {}
    PROVE  Proves(text, price, created)
<1>1. /\ text.readable
      /\ AmountCodes(text, price) = {} /\ RecipientCodes(text) = {} /\ OtherCodes(text, created) = {}
  BY DEF ParserCodes
<1>2. (\E a \in text.amounts : Close(a, price)) /\ "KZT" \in text.currencies
  <2>1. Amounts(text, price) # {} /\ Amounts(text, price) \subseteq text.amounts
    BY <1>1 DEF AmountCodes, Amounts
  <2>2. "amount_mismatch" \notin AmountCodes(text, price)
    BY <1>1
  <2>3. ~(\A a \in Amounts(text, price) : ~Close(a, price))
    BY <2>1, <2>2 DEF AmountCodes
  <2>4. "currency_missing" \notin AmountCodes(text, price)
        /\ "currency_mismatch" \notin AmountCodes(text, price)
    BY <1>1
  <2>5. "KZT" \in text.currencies
    BY <2>1, <2>4 DEF AmountCodes
  <2> QED
    BY <2>1, <2>3, <2>5
<1>3. ({text.recipientBin} \cup text.otherBins) \cap AllowedBins # {}
  <2>1. RecipientBins(text) # {} /\ RecipientBins(text) \subseteq AllowedBins
    BY <1>1 DEF RecipientCodes
  <2>2. RecipientBins(text) \subseteq {text.recipientBin} \cup text.otherBins
    BY DEF RecipientBins
  <2> QED
    BY <2>1, <2>2
<1>4. /\ text.marker /\ ~TooEarly(text, created)
      /\ Identity(text) # Missing \/ QrPayload(text) # Missing
  <2>1. /\ "provider_marker_missing" \notin OtherCodes(text, created)
        /\ "payment_date_too_early" \notin OtherCodes(text, created)
        /\ "strong_identity_not_found" \notin OtherCodes(text, created)
    BY <1>1
  <2> QED
    BY <2>1 DEF OtherCodes
<1> QED
  BY <1>1, <1>2, <1>3, <1>4 DEF Proves

LEMMA HardCodesContradict ==
    ASSUME NEW text, NEW price \in Nat, NEW created,
           ParserCodes(text, price, created) \cap HardRejectCodes # {}
    PROVE  Contradicts(text, price)
<1>1. /\ text.readable
      /\ \/ AmountCodes(text, price) \cap HardRejectCodes # {}
         \/ RecipientCodes(text) \cap HardRejectCodes # {}
  BY DEF ParserCodes, OtherCodes, HardRejectCodes
<1>2. CASE AmountCodes(text, price) \cap HardRejectCodes # {}
  <2> SUFFICES ASSUME price \in text.amounts, "KZT" \in text.currencies
               PROVE  FALSE
    BY <1>1 DEF Contradicts
  <2>1. Amounts(text, price) = {price}
    BY DEF Amounts
  <2>2. Close(price, price)
    BY ParserAssumption DEF Close
  <2>3. text.currencies # {}
    OBVIOUS
  <2>4. AmountCodes(text, price) = {}
    BY <2>1, <2>2, <2>3 DEF AmountCodes
  <2> QED
    BY <1>2, <2>4
<1>3. CASE RecipientCodes(text) \cap HardRejectCodes # {}
  <2>1. AllowedBins # {} /\ ~(RecipientBins(text) # {} /\ RecipientBins(text) \subseteq AllowedBins)
    BY <1>3 DEF RecipientCodes, HardRejectCodes
  <2> QED
    BY <1>1, <2>1 DEF RecipientBins, Contradicts
<1> QED
  BY <1>1, <1>2, <1>3
-----------------------------------------------------------------------------

\* What the codes of a stored receipt say of its text and of the other receipts.
Judged(r) ==
    LET p == receipts[r].payment
        d == receipts[r].doc
    IN  /\ receipts[r].codes \ {DuplicateCode}
               = ParserCodes(Text[d], Price[payments[p].product], payments[p].created)
        /\ DuplicateCode \in receipts[r].codes => Duplicates(d, p) # {}

Refuted(rs, p) ==
    \E r \in ReceiptsOf(rs, p) : rs[r].codes \cap (HardRejectCodes \cup {DuplicateCode}) # {}

Faultless(rs, p) == \E r \in ReceiptsOf(rs, p) : rs[r].codes = {}

\* Decisions without an admin have the receipt they were taken on.
Grounded(ps, rs, p) ==
    /\ ps[p].status = "approved" /\ ~ps[p].reviewed => Faultless(rs, p)
    /\ ps[p].autoRejected => ps[p].status = "rejected" /\ Refuted(rs, p)

WellJudged ==
    /\ Inv
    /\ \A r \in DOMAIN receipts : Judged(r)
    /\ \A p \in DOMAIN payments : Grounded(payments, receipts, p)

\* Receipts keep what was found in them.
Same(rs, ts) ==
    /\ DOMAIN rs \subseteq DOMAIN ts
    /\ \A r \in DOMAIN rs : /\ ts[r].payment = rs[r].payment
                            /\ ts[r].doc = rs[r].doc
                            /\ ts[r].codes = rs[r].codes

LEMMA SameGrounds ==
    ASSUME NEW ps, NEW rs, NEW p, Grounded(ps, rs, p), NEW qs, NEW ts, Same(rs, ts),
           qs[p].status = ps[p].status, qs[p].reviewed = ps[p].reviewed,
           qs[p].autoRejected = ps[p].autoRejected
    PROVE  Grounded(qs, ts, p)
<1>1. \A r \in ReceiptsOf(rs, p) : r \in ReceiptsOf(ts, p) /\ ts[r].codes = rs[r].codes
  BY DEF Same, ReceiptsOf
<1>2. Faultless(rs, p) => Faultless(ts, p)
  BY <1>1 DEF Faultless
<1>3. Refuted(rs, p) => Refuted(ts, p)
  BY <1>1 DEF Refuted
<1> QED
  BY <1>2, <1>3 DEF Grounded

\* A duplicate is an approved receipt of an approved payment, and both are final.
LEMMA DuplicatesStay ==
    ASSUME Inv, [Next]_vars, NEW d, NEW p, NEW o \in Duplicates(d, p)
    PROVE  /\ o \in DOMAIN receipts'
           /\ receipts'[o].status = "approved" /\ receipts'[o].payment # p
           /\ payments'[receipts'[o].payment].status = "approved"
           /\ IF TransactionKey(d) # Missing
              THEN TransactionKey(receipts'[o].doc) = TransactionKey(d)
              ELSE /\ QrPayload(Text[d]) # Missing
                   /\ QrPayload(Text[receipts'[o].doc]) = QrPayload(Text[d])
<1>1. o \in DOMAIN receipts /\ payments[receipts[o].payment].status = "approved"
  BY DEF Duplicates
<1>2. receipts[o].payment \in DOMAIN payments
  BY <1>1 DEF Inv, Sound, Belong
<1>3. Settled(receipts[o].payment)
  BY <1>1, <1>2, NextSettles
<1>4. /\ o \in DOMAIN receipts' /\ receipts'[o] = receipts[o]
      /\ payments'[receipts[o].payment] = payments[receipts[o].payment]
  BY <1>1, <1>3 DEF Settled, ReceiptsOf
<1> QED
  BY <1>4 DEF Duplicates

\* One step of the payments and the receipts, for WellJudged.
JudgedStep ==
    /\ Same(receipts, receipts')
    /\ \A r \in DOMAIN receipts' \ DOMAIN receipts :
           LET p == receipts'[r].payment
               d == receipts'[r].doc
           IN  /\ p \in DOMAIN payments
               /\ receipts'[r].codes \ {DuplicateCode}
                      = ParserCodes(Text[d], Price[payments[p].product], payments[p].created)
               /\ DuplicateCode \in receipts'[r].codes => Duplicates(d, p) # {}
    /\ \A p \in DOMAIN payments' : Grounded(payments', receipts', p)

\* What was found in a receipt stays true of it.
LEMMA JudgedNext ==
    ASSUME WellJudged, [Next]_vars, JudgedStep, NEW r \in DOMAIN receipts'
    PROVE  Judged(r)'
<1>0. PaymentsKept /\ Inv
  BY StepKinds DEF WellJudged
<1>1. PICK p, d : p = receipts'[r].payment /\ d = receipts'[r].doc
  OBVIOUS
<1>2. /\ p \in DOMAIN payments
      /\ receipts'[r].codes \ {DuplicateCode}
             = ParserCodes(Text[d], Price[payments[p].product], payments[p].created)
      /\ DuplicateCode \in receipts'[r].codes => Duplicates(d, p) # {}
  <2>1. CASE r \in DOMAIN receipts
    <3>1. /\ receipts[r].payment = p /\ receipts[r].doc = d
          /\ receipts'[r].codes = receipts[r].codes
      BY <1>1, <2>1 DEF JudgedStep, Same
    <3>2. p \in DOMAIN payments
      BY <1>0, <2>1, <3>1 DEF Inv, Sound, Belong
    <3> QED
      BY <2>1, <3>1, <3>2 DEF WellJudged, Judged
  <2>2. CASE r \notin DOMAIN receipts
    BY <1>1, <2>2 DEF JudgedStep
  <2> QED
    BY <2>1, <2>2
<1>3. payments'[p].product = payments[p].product /\ payments'[p].created = payments[p].created
  BY <1>0, <1>2 DEF PaymentsKept
<1>4. DuplicateCode \in receipts'[r].codes => Duplicates(d, p)' # {}
  <2> SUFFICES ASSUME Duplicates(d, p) # {}
               PROVE  Duplicates(d, p)' # {}
    BY <1>2
  <2>1. PICK o : o \in Duplicates(d, p)
    OBVIOUS
  <2>2. /\ o \in DOMAIN receipts'
        /\ receipts'[o].status = "approved" /\ receipts'[o].payment # p
        /\ payments'[receipts'[o].payment].status = "approved"
        /\ IF TransactionKey(d) # Missing
           THEN TransactionKey(receipts'[o].doc) = TransactionKey(d)
           ELSE /\ QrPayload(Text[d]) # Missing
                /\ QrPayload(Text[receipts'[o].doc]) = QrPayload(Text[d])
    BY <1>0, <2>1, DuplicatesStay
  <2>3. o \in Duplicates(d, p)'
    BY <2>2 DEF Duplicates, TransactionKey
  <2> QED
    BY <2>3
<1> QED
  BY <1>1, <1>2, <1>3, <1>4 DEF Judged

\* What an upload finds is what is stored of it.
LEMMA ReceiptForFindings ==
    ASSUME NEW d, NEW p
    PROVE  LET row == ReceiptFor(d, p)
           IN  /\ row.payment = p /\ row.doc = d
               /\ row.codes \ {DuplicateCode}
                      = ParserCodes(Text[d], Price[payments[p].product], payments[p].created)
               /\ DuplicateCode \in row.codes => Duplicates(d, p) # {}
               /\ row.status = "valid_candidate" => row.codes = {}
               /\ AutoRejects(row.status, row.codes) =>
                      row.codes \cap (HardRejectCodes \cup {DuplicateCode}) # {}
<1> DEFINE parsed == ParserCodes(Text[d], Price[payments[p].product], payments[p].created)
           row == ReceiptFor(d, p)
<1>1. DuplicateCode \notin parsed
  BY DEF ParserCodes, AmountCodes, RecipientCodes, OtherCodes, DuplicateCode
<1> HIDE DEF parsed
<1>2. CASE Duplicates(d, p) # {}
  <2>1. /\ row.payment = p /\ row.doc = d
        /\ row.codes = parsed \cup {DuplicateCode} /\ row.status = "duplicate"
    BY <1>2 DEF ReceiptFor, parsed
  <2> QED
    BY <1>1, <1>2, <2>1 DEF parsed
<1>3. CASE Duplicates(d, p) = {}
  <2>1. /\ row.payment = p /\ row.doc = d
        /\ row.codes = parsed /\ row.status = ValidationStatus(parsed)
    BY <1>3 DEF ReceiptFor, parsed
  <2>2. ValidationStatus(parsed) = "valid_candidate" => parsed = {}
    BY DEF ValidationStatus
  <2>3. ValidationStatus(parsed) = "rejected" => parsed \cap HardRejectCodes # {}
    BY DEF ValidationStatus
  <2>4. ValidationStatus(parsed) # "duplicate"
    BY DEF ValidationStatus
  <2> QED
    BY <1>1, <1>3, <2>1, <2>2, <2>3, <2>4 DEF AutoRejects, parsed
<1> QED
  BY <1>2, <1>3

LEMMA SamePayments ==
    ASSUME WellJudged, receipts' = receipts,
           \A p \in DOMAIN payments' :
               \/ ~payments'[p].autoRejected /\ (payments'[p].status # "approved" \/ payments'[p].reviewed)
               \/ /\ p \in DOMAIN payments
                  /\ payments'[p].status = payments[p].status
                  /\ payments'[p].reviewed = payments[p].reviewed
                  /\ payments'[p].autoRejected = payments[p].autoRejected
    PROVE  JudgedStep
<1>1. Same(receipts, receipts')
  BY DEF Same
<1>2. ASSUME NEW p \in DOMAIN payments'
      PROVE  Grounded(payments', receipts', p)
  BY <1>1, SameGrounds DEF WellJudged, Grounded
<1> QED
  BY <1>1, <1>2 DEF JudgedStep

LEMMA CreateJudged ==
    ASSUME WellJudged, NEW u \in Users, NEW x \in Products, CreatePayment(u, x)
    PROVE  JudgedStep
<1>0. PaymentTable(payments) /\ receipts' = receipts
  BY DEF WellJudged, Inv, Sound, CreatePayment
<1>1. CASE Reusable(u, x) # {}
  <2>1. PICK p \in Newest(payments, Reusable(u, x)) :
            payments' = [payments EXCEPT ![p].expires = clock + PaymentTTL]
    BY <1>1 DEF CreatePayment
  <2>2. p \in DOMAIN payments
    BY DEF Newest, Reusable
  <2>3. payments[p] \in PaymentRow
    BY <1>0, <2>2 DEF PaymentTable, IsTable
  <2>4. \A q \in DOMAIN payments' :
            /\ q \in DOMAIN payments
            /\ payments'[q].status = payments[q].status
            /\ payments'[q].reviewed = payments[q].reviewed
            /\ payments'[q].autoRejected = payments[q].autoRejected
    BY <2>1, <2>2, <2>3 DEF PaymentRow
  <2> QED
    BY <1>0, <2>4, SamePayments
<1>2. CASE Reusable(u, x) = {}
  <2>1. PICK p \in NextId(PaymentIds, payments) :
            payments' = Insert(payments, p, NewPayment(u, x))
    BY <1>2 DEF CreatePayment
  <2>2. /\ DOMAIN payments' = DOMAIN payments \cup {p}
        /\ payments'[p].status = "pending" /\ ~payments'[p].autoRejected
        /\ \A q \in DOMAIN payments \ {p} : payments'[q] = payments[q]
    BY <2>1 DEF Insert, NewPayment
  <2> QED
    BY <1>0, <2>2, SamePayments
<1> QED
  BY <1>1, <1>2

LEMMA ExpireJudged ==
    ASSUME WellJudged, ExpirePendingPayments
    PROVE  JudgedStep
<1>1. /\ \A p \in DOMAIN payments : payments[p] \in PaymentRow
      /\ \A p \in DOMAIN payments : payments[p].autoRejected => payments[p].status = "rejected"
  BY DEF WellJudged, Inv, TypeOK, IsTable, Grounded
<1>2. /\ DOMAIN payments' = DOMAIN payments /\ receipts' = receipts
      /\ \A p \in DOMAIN payments :
             \/ payments'[p] = payments[p]
             \/ /\ payments'[p].status = "expired"
                /\ payments[p].status = "pending"
                /\ payments'[p].autoRejected = payments[p].autoRejected
  BY <1>1 DEF ExpirePendingPayments, TimedOut, PaymentRow
<1>3. \A p \in DOMAIN payments :
          payments'[p] # payments[p] => payments'[p].status # "approved" /\ ~payments'[p].autoRejected
  BY <1>1, <1>2
<1> QED
  BY <1>2, <1>3, SamePayments
LEMMA MarkSame ==
    ASSUME NEW rs, ReceiptTable(rs), NEW p, NEW r \in LatestReceipt(rs, p), NEW status
    PROVE  Same(rs, MarkReceipt(rs, r, status)) /\ DOMAIN MarkReceipt(rs, r, status) = DOMAIN rs
BY MarkedRows DEF Same

LEMMA ReviewJudged ==
    ASSUME WellJudged, NEW p,
           RejectPayment(p) \/ \E days \in ReviewDays : ApprovePayment(p, days)
    PROVE  JudgedStep
<1>0. PaymentTable(payments) /\ ReceiptTable(receipts)
  BY DEF WellJudged, Inv, Sound
<1>1. p \in DOMAIN payments
  BY DEF RejectPayment, ApprovePayment
<1>2. payments[p] \in PaymentRow
  BY <1>0, <1>1 DEF PaymentTable, IsTable
<1>3. PICK r \in LatestReceipt(receipts, p) :
          receipts' = MarkReceipt(receipts, r, "rejected")
          \/ receipts' = MarkReceipt(receipts, r, "approved")
  BY DEF RejectPayment, ApprovePayment, Approve
<1>4. Same(receipts, receipts') /\ DOMAIN receipts' = DOMAIN receipts
  BY <1>0, <1>3, MarkSame
<1>5. /\ DOMAIN payments' = DOMAIN payments
      /\ ~payments'[p].autoRejected
      /\ payments'[p].status # "approved" \/ payments'[p].reviewed
      /\ \A q \in DOMAIN payments \ {p} : payments'[q] = payments[q]
  <2>1. CASE RejectPayment(p)
    BY <1>1, <1>2, <2>1 DEF RejectPayment, PaymentRow
  <2>2. ASSUME NEW days, ApprovePayment(p, days)
        PROVE  /\ DOMAIN payments' = DOMAIN payments
               /\ ~payments'[p].autoRejected
               /\ payments'[p].reviewed
               /\ \A q \in DOMAIN payments \ {p} : payments'[q] = payments[q]
    <3>1. payments' = [payments EXCEPT ![p].status = "approved", ![p].autoRejected = FALSE,
                                       ![p].reviewed = TRUE]
      BY <2>2 DEF ApprovePayment, Approve
    <3> QED
      BY <1>1, <1>2, <3>1 DEF PaymentRow
  <2> QED
    BY <2>1, <2>2
<1>6. ASSUME NEW q \in DOMAIN payments'
      PROVE  Grounded(payments', receipts', q)
  <2>1. CASE q = p
    BY <1>5, <2>1 DEF Grounded
  <2>2. CASE q # p
    <3>1. q \in DOMAIN payments /\ payments'[q] = payments[q] /\ Grounded(payments, receipts, q)
      BY <1>5, <2>2 DEF WellJudged
    <3> QED
      BY <1>4, <3>1, SameGrounds
  <2> QED
    BY <2>1, <2>2
<1> QED
  BY <1>4, <1>6 DEF JudgedStep

LEMMA AttachJudged ==
    ASSUME WellJudged, NEW u, NEW p \in Open(u), NEW d \in Docs, AttachReceipt(d, p)
    PROVE  JudgedStep
<1> DEFINE row == ReceiptFor(d, p)
           refused == AutoRejects(row.status, row.codes)
           ps == Moved(p, row)
<1>0. /\ p \in DOMAIN payments /\ payments[p].status \in {"pending", "uploaded_receipt"}
      /\ PaymentTable(payments) /\ ReceiptTable(receipts) /\ clock \in Nat /\ p \in PaymentIds
  BY DEF Open, WellJudged, Inv, TypeOK, PlatformTypeOK, Sound, PaymentTable, IsTable
<1>1. /\ payments[p] \in PaymentRow /\ refused \in BOOLEAN /\ row \in ReceiptRow
      /\ ~payments[p].autoRejected
  BY <1>0, ReceiptForType DEF PaymentTable, IsTable, AutoRejects, WellJudged, Grounded
<1>2. PICK i \in NextId(ReceiptIds, receipts) :
          IF row.status = "valid_candidate"
          THEN Approve(ps, Insert(receipts, i, row), p, SubscriptionDays, FALSE)
          ELSE payments' = ps /\ receipts' = Insert(receipts, i, row)
  BY DEF AttachReceipt
<1> DEFINE rs == Insert(receipts, i, row)
<1>3. /\ row.payment = p /\ row.doc = d
      /\ row.codes \ {DuplicateCode}
             = ParserCodes(Text[d], Price[payments[p].product], payments[p].created)
      /\ DuplicateCode \in row.codes => Duplicates(d, p) # {}
      /\ row.status = "valid_candidate" => row.codes = {}
      /\ refused => row.codes \cap (HardRejectCodes \cup {DuplicateCode}) # {}
  BY ReceiptForFindings
<1> HIDE DEF row, refused
<1>4. i \in ReceiptIds \ DOMAIN receipts
  BY DEF NextId
<1>5. /\ ReceiptTable(rs) /\ DOMAIN rs = DOMAIN receipts \cup {i} /\ rs[i] = row
      /\ Same(receipts, rs)
  <2>1. ReceiptTable(rs)
    BY <1>0, <1>1, <1>4, InsertType DEF ReceiptTable
  <2> QED
    BY <1>4, <2>1 DEF Insert, Same
<1>6. /\ DOMAIN ps = DOMAIN payments
      /\ \A q \in DOMAIN payments \ {p} : ps[q] = payments[q]
      /\ ps[p].autoRejected = refused
      /\ ps[p].status = IF refused THEN "rejected" ELSE "uploaded_receipt"
      /\ ps[p] \in PaymentRow
  BY <1>0, <1>1 DEF Moved, PaymentRow, PaymentStatus, refused
<1> HIDE DEF rs, ps
<1>7. CASE row.status = "valid_candidate"
  <2>1. PICK r \in LatestReceipt(rs, p) :
            /\ payments' = [ps EXCEPT ![p].status = "approved", ![p].autoRejected = FALSE,
                                      ![p].reviewed = FALSE]
            /\ receipts' = MarkReceipt(rs, r, "approved")
    BY <1>2, <1>7 DEF Approve, rs
  <2>2. Same(rs, receipts') /\ DOMAIN receipts' = DOMAIN rs
    BY <1>5, <2>1, MarkSame
  <2>3. /\ DOMAIN payments' = DOMAIN payments /\ ~payments'[p].autoRejected
        /\ \A q \in DOMAIN payments \ {p} : payments'[q] = payments[q]
    BY <1>0, <1>6, <2>1 DEF PaymentRow
  <2>4. Same(receipts, receipts')
    BY <1>5, <2>2 DEF Same
  <2>5. i \in ReceiptsOf(receipts', p) /\ receipts'[i].codes = {}
    BY <1>3, <1>5, <1>7, <2>2 DEF Same, ReceiptsOf
  <2>6. ASSUME NEW q \in DOMAIN payments'
        PROVE  Grounded(payments', receipts', q)
    <3>1. CASE q = p
      BY <2>3, <2>5, <3>1 DEF Grounded, Faultless
    <3>2. CASE q # p
      <4>1. /\ q \in DOMAIN payments /\ payments'[q] = payments[q]
            /\ Grounded(payments, receipts, q)
        BY <2>3, <3>2 DEF WellJudged
      <4> QED
        BY <2>4, <4>1, SameGrounds
    <3> QED
      BY <3>1, <3>2
  <2>7. /\ DOMAIN receipts' = DOMAIN receipts \cup {i}
        /\ receipts'[i].payment = p /\ receipts'[i].doc = d /\ receipts'[i].codes = row.codes
    BY <1>3, <1>5, <2>2 DEF Same
  <2> QED
    BY <1>0, <1>3, <2>4, <2>6, <2>7 DEF JudgedStep
<1>8. CASE row.status # "valid_candidate"
  <2>1. payments' = ps /\ receipts' = rs
    BY <1>2, <1>8 DEF rs
  <2>2. ASSUME NEW q \in DOMAIN payments'
        PROVE  Grounded(payments', receipts', q)
    <3>1. CASE q = p
      <4>1. i \in ReceiptsOf(receipts', p) /\ receipts'[i].codes = row.codes
        BY <1>3, <1>5, <2>1 DEF ReceiptsOf
      <4>2. refused => Refuted(receipts', p)
        BY <1>3, <4>1 DEF Refuted
      <4> QED
        BY <1>1, <1>6, <2>1, <3>1, <4>2 DEF Grounded
    <3>2. CASE q # p
      <4>1. /\ q \in DOMAIN payments /\ payments'[q] = payments[q]
            /\ Grounded(payments, receipts, q)
        BY <1>6, <2>1, <3>2 DEF WellJudged
      <4> QED
        BY <1>5, <2>1, <4>1, SameGrounds
    <3> QED
      BY <3>1, <3>2
  <2>3. /\ DOMAIN receipts' = DOMAIN receipts \cup {i}
        /\ receipts'[i].payment = p /\ receipts'[i].doc = d /\ receipts'[i].codes = row.codes
    BY <1>3, <1>5, <2>1
  <2> QED
    BY <1>0, <1>3, <1>5, <2>1, <2>2, <2>3 DEF JudgedStep
<1> QED
  BY <1>7, <1>8
LEMMA NextJudged ==
    ASSUME WellJudged, [Next]_vars
    PROVE  WellJudged'
<1>1. JudgedStep
  <2>1. CASE UserStep
    <3>1. PICK u \in Users :
              \/ \E x \in Products : CreatePayment(u, x)
              \/ \E p \in PaymentIds, d \in Docs : UploadToPayment(u, p, d)
              \/ \E d \in Docs : UploadToBot(u, d)
      BY <2>1 DEF UserStep
    <3>2. CASE \E x \in Products : CreatePayment(u, x)
      BY <3>2, CreateJudged
    <3>3. CASE \E p \in PaymentIds, d \in Docs : UploadToPayment(u, p, d)
      BY <3>3, AttachJudged DEF UploadToPayment
    <3>4. CASE \E d \in Docs : UploadToBot(u, d)
      BY <3>4, AttachJudged DEF UploadToBot, Newest
    <3> QED
      BY <3>1, <3>2, <3>3, <3>4
  <2>2. CASE ReviewStep
    BY <2>2, ReviewJudged DEF ReviewStep
  <2>3. CASE ExpirePendingPayments
    BY <2>3, ExpireJudged
  <2>4. CASE AdminStep \/ SweepSubscriptions \/ SweepAccess \/ Tick \/ UNCHANGED vars
    BY <2>4, OtherSteps, SamePayments DEF vars
  <2> QED
    BY <2>1, <2>2, <2>3, <2>4 DEF Next, MinuteJob
<1>2. Inv'
  BY NextInv DEF WellJudged
<1>3. \A r \in DOMAIN receipts' : Judged(r)'
  BY <1>1, JudgedNext
<1>4. \A p \in DOMAIN payments' : Grounded(payments', receipts', p)
  BY <1>1 DEF JudgedStep
<1> QED
  BY <1>2, <1>3, <1>4 DEF WellJudged, Grounded, Refuted, Faultless, ReceiptsOf

LEMMA JudgedAlways == Spec => []WellJudged
<1>1. Init => WellJudged
  BY InitInv DEF Init, EmptyTable, WellJudged
<1>2. WellJudged /\ [Next]_vars => WellJudged'
  BY NextJudged
<1> QED
  BY <1>1, <1>2, PTL DEF Spec

\* A payment that no admin reviewed was approved on a receipt of its own that
\* shows its price, whatever happened before and since.
THEOREM UnreviewedApprovalsAreProved ==
    Spec => [](\A p \in DOMAIN payments :
                   payments[p].status = "approved" /\ ~payments[p].reviewed =>
                       \E r \in ReceiptsOf(receipts, p) :
                           Proves(Text[receipts[r].doc], Price[payments[p].product],
                                  payments[p].created))
<1> DEFINE Proved ==
        \A p \in DOMAIN payments :
            payments[p].status = "approved" /\ ~payments[p].reviewed =>
                \E r \in ReceiptsOf(receipts, p) :
                    Proves(Text[receipts[r].doc], Price[payments[p].product],
                           payments[p].created)
<1>1. ASSUME WellJudged, NEW p \in DOMAIN payments,
             payments[p].status = "approved" /\ ~payments[p].reviewed
      PROVE  \E r \in ReceiptsOf(receipts, p) :
                 Proves(Text[receipts[r].doc], Price[payments[p].product], payments[p].created)
  <2>1. PICK r \in ReceiptsOf(receipts, p) : receipts[r].codes = {}
    BY <1>1 DEF WellJudged, Grounded, Faultless
  <2>2. Judged(r) /\ receipts[r].payment = p
    BY <1>1 DEF WellJudged, ReceiptsOf
  <2>3. ParserCodes(Text[receipts[r].doc], Price[payments[p].product], payments[p].created) = {}
    BY <2>1, <2>2 DEF Judged
  <2> QED
    BY <2>3, NoCodesProve
<1>2. WellJudged => Proved
  BY <1>1
<1> QED
  BY <1>2, JudgedAlways, PTL

\* A payment is refused without an admin only on a receipt of its own whose text
\* was read and contradicts it, or whose number another approved payment holds.
THEOREM AutomaticRefusalsAreGrounded ==
    Spec => [](\A p \in DOMAIN payments :
                   payments[p].autoRejected =>
                       \E r \in ReceiptsOf(receipts, p) :
                           \/ Contradicts(Text[receipts[r].doc], Price[payments[p].product])
                           \/ Duplicates(receipts[r].doc, p) # {})
<1> DEFINE Founded ==
        \A p \in DOMAIN payments :
            payments[p].autoRejected =>
                \E r \in ReceiptsOf(receipts, p) :
                    \/ Contradicts(Text[receipts[r].doc], Price[payments[p].product])
                    \/ Duplicates(receipts[r].doc, p) # {}
<1>1. ASSUME WellJudged, NEW p \in DOMAIN payments, payments[p].autoRejected
      PROVE  \E r \in ReceiptsOf(receipts, p) :
                 \/ Contradicts(Text[receipts[r].doc], Price[payments[p].product])
                 \/ Duplicates(receipts[r].doc, p) # {}
  <2>1. PICK r \in ReceiptsOf(receipts, p) :
            receipts[r].codes \cap (HardRejectCodes \cup {DuplicateCode}) # {}
    BY <1>1 DEF WellJudged, Grounded, Refuted
  <2>2. Judged(r) /\ receipts[r].payment = p
    BY <1>1 DEF WellJudged, ReceiptsOf
  <2>3. CASE DuplicateCode \in receipts[r].codes
    BY <2>2, <2>3 DEF Judged
  <2>4. CASE DuplicateCode \notin receipts[r].codes
    <3>1. ParserCodes(Text[receipts[r].doc], Price[payments[p].product], payments[p].created)
              \cap HardRejectCodes # {}
      BY <2>1, <2>2, <2>4 DEF Judged
    <3>2. Price[payments[p].product] \in Nat
      BY <1>1, PaymentsAssumption DEF WellJudged, Inv, TypeOK, IsTable, PaymentRow
    <3> QED
      BY <3>1, <3>2, HardCodesContradict
  <2> QED
    BY <2>3, <2>4
<1>2. WellJudged => Founded
  BY <1>1
<1> QED
  BY <1>2, JudgedAlways, PTL

-----------------------------------------------------------------------------
(***************************************************************************)
(* The handlers.  A handler acts on what it looked at before its           *)
(* transaction and tells what it decided long after it.  So the invariant  *)
(* speaks of the requests in progress: a request that has not reached its  *)
(* transaction holds a file that no receipt names, and the verdict of one  *)
(* that has, if it is an approval, still stands.                           *)
(***************************************************************************)

Unstored == {"new", "received"}

\* The files the table names are those of requests past their transaction, and
\* there is no other file but those of uploads in progress, unless the process
\* stopped.
FilesAccounted ==
    /\ \A r \in DOMAIN receipts : evidence[r] \in files /\ requests[evidence[r]].stage \notin Unstored
    /\ \A k \in Requests : requests[k].stage = "received" => k \in files
    /\ \A k \in files : \/ k \in Range(evidence)
                        \/ requests[k].stage = "received"
                        \/ interrupted = "process"

\* A request that will tell of an approval.
Announces(q) == q.stage = "answer" /\ q.verdict = "approved"

VerdictsStand ==
    \A k \in Requests, p \in PaymentIds :
        Announces(requests[k]) /\ requests[k].payment = p => Approved(p)

DeskSound ==
    /\ Inv
    /\ DeskTypeOK
    /\ FilesAccounted
    /\ VerdictsStand
    /\ ToldTheTruth

-----------------------------------------------------------------------------
(***************************************************************************)
(* Requests.                                                               *)
(***************************************************************************)

\* What each stage remembers.
LEMMA RequestKinds ==
    ASSUME NEW q \in Request
    PROVE  /\ q.stage \in {"new", "done", "received", "read", "answer"}
           /\ q.stage = "new" => q = New
           /\ q.stage = "done" => q = Done
           /\ q.stage = "received" => /\ q.user \in Users /\ q.doc \in Docs
                                      /\ q.via \in Channels
           /\ q.stage = "read" => q.payment \in PaymentIds /\ q.days \in ReviewDays
           /\ q.stage = "answer" => /\ q.payment \in PaymentIds /\ q.verdict \in Verdicts
                                    /\ q.action \in Actions \cup {"none"}
BY DEF Request, New, Done

LEMMA AnswerType ==
    ASSUME NEW via \in Channels, NEW p \in PaymentIds, NEW verdict \in Verdicts,
           NEW action \in Actions \cup {"none"}
    PROVE  /\ Answer(via, p, verdict, action) \in Request
           /\ Answer(via, p, verdict, action).stage = "answer"
           /\ Answer(via, p, verdict, action).payment = p
           /\ Answer(via, p, verdict, action).verdict = verdict
BY DEF Answer, Request

LEMMA EndsType == New \in Request /\ Done \in Request /\ New.stage = "new" /\ Done.stage = "done"
BY DEF Request, New, Done

\* The payments an upload may be attached to are open ones of its sender.
LEMMA ChosenOpen ==
    ASSUME NEW k, NEW p \in Chosen(k)
    PROVE  p \in Open(requests[k].user) /\ p \in DOMAIN payments
BY DEF Chosen, Newest, Open
-----------------------------------------------------------------------------
(***************************************************************************)
(* Every step of a handler is a step of Payments or leaves its tables      *)
(* alone.                                                                  *)
(***************************************************************************)

LEMMA StoreUploadPays ==
    ASSUME DeskTypeOK, NEW k \in Requests, StoreUpload(k)
    PROVE  UserStep
<1>1. /\ requests[k].user \in Users /\ requests[k].doc \in Docs
  BY RequestKinds DEF StoreUpload, DeskTypeOK
<1>2. PICK p \in Chosen(k) : AttachReceipt(requests[k].doc, p)
  BY DEF StoreUpload
<1>3. p \in PaymentIds
  BY ChosenOpen DEF DeskTypeOK, TypeOK, IsTable
<1>4. CASE requests[k].payment = 0
  BY <1>1, <1>2, <1>4 DEF Chosen, UploadToBot, UserStep
<1>5. CASE requests[k].payment # 0
  BY <1>1, <1>2, <1>3, <1>5 DEF Chosen, UploadToPayment, UserStep
<1> QED
  BY <1>4, <1>5

LEMMA DecideApprovalPays ==
    ASSUME DeskTypeOK, NEW k \in Requests, DecideApproval(k)
    PROVE  ReviewStep \/ UNCHANGED vars
<1>1. requests[k].payment \in PaymentIds /\ requests[k].days \in ReviewDays
  BY RequestKinds DEF DecideApproval, DeskTypeOK
<1> QED
  BY <1>1 DEF DecideApproval, ReviewStep

LEMMA RequestStepPays ==
    ASSUME RequestStep
    PROVE  ReviewStep \/ UNCHANGED vars
BY DEF RequestStep, ReceiveInApp, ReceiveInChat, ReadForApproval, DecideRejection, ReviewStep

LEMMA StepPays ==
    ASSUME DeskTypeOK, [DeskNext]_<<vars, deskVars>>
    PROVE  [Next]_vars
<1>1. CASE \E k \in Requests : HandlerStep(k)
  <2>1. PICK k \in Requests : HandlerStep(k)
    BY <1>1
  <2>2. DropUpload(k) \/ Follow(k) => UNCHANGED vars
    BY DEF DropUpload, Follow
  <2> QED
    BY <2>1, <2>2, StoreUploadPays, DecideApprovalPays DEF HandlerStep, Next
<1>2. CASE RequestStep
  BY <1>2, RequestStepPays DEF Next
<1>3. CASE Background
  BY <1>3 DEF Background, Next, UserStep, MinuteJob
<1>4. CASE Interruption
  BY <1>4 DEF Interruption, Crash, Disconnect
<1> QED
  BY <1>1, <1>2, <1>3, <1>4 DEF DeskNext
-----------------------------------------------------------------------------
(***************************************************************************)
(* What a step of one request does to the desk, the storing of an upload   *)
(* apart.                                                                  *)
(***************************************************************************)

FilesAfter(k, q) ==
    IF q.stage = "received" THEN files \cup {k}
    ELSE IF requests[k].stage = "received" THEN files \ {k}
    ELSE files

\* Request k goes on to q, which is not back to where its file was not stored.
Turns(k, q) ==
    /\ q \in Request /\ requests' = [requests EXCEPT ![k] = q]
    /\ q.stage \in Unstored => requests[k].stage \in Unstored
    /\ Announces(q) => Approved(q.payment)'
    /\ DOMAIN receipts' = DOMAIN receipts /\ evidence' = evidence
    /\ files' = FilesAfter(k, q)
    /\ \/ told' = told
       \/ /\ requests[k].stage = "answer"
          /\ told' = [told EXCEPT ![requests[k].payment] = Append(@, requests[k].verdict)]
    /\ audits' \subseteq Actions \X PaymentIds
    /\ \/ interrupted' = interrupted
       \/ interrupted = "no" /\ interrupted' = "client"

\* An approval or a rejection marks receipts and stores none.
LEMMA ReviewKeepsReceipts ==
    ASSUME Inv, ReviewStep
    PROVE  DOMAIN receipts' = DOMAIN receipts
<1>1. PaymentTable(payments) /\ ReceiptTable(receipts)
  BY DEF Inv, Sound
<1>2. PICK p \in PaymentIds :
          (\E days \in ReviewDays : ApprovePayment(p, days)) \/ RejectPayment(p)
  BY DEF ReviewStep
<1>3. CASE \E days \in ReviewDays : ApprovePayment(p, days)
  <2>1. PICK days \in ReviewDays : ApprovePayment(p, days)
    BY <1>3
  <2>2. \E r \in LatestReceipt(receipts, p) : receipts' = MarkReceipt(receipts, r, "approved")
    BY <1>1, <2>1, ApproveTables DEF ApprovePayment
  <2> QED
    BY <1>1, <2>2, MarkedRows
<1>4. CASE RejectPayment(p)
  BY <1>1, <1>4, MarkedRows DEF RejectPayment
<1> QED
  BY <1>2, <1>3, <1>4

LEMMA ApprovalApproves ==
    ASSUME Inv, NEW p, NEW days, ApprovePayment(p, days)
    PROVE  Approved(p)'
<1>1. PaymentTable(payments) /\ p \in DOMAIN payments
  BY DEF Inv, Sound, ApprovePayment
<1> QED
  BY <1>1, ApproveTables DEF ApprovePayment, Approved
LEMMA ReceiveTurns ==
    ASSUME DeskTypeOK, NEW k \in Requests, NEW u \in Users, NEW d \in Docs,
           \/ \E p \in PaymentIds : ReceiveInApp(k, u, p, d)
           \/ ReceiveInChat(k, u, d)
    PROVE  \E q : Turns(k, q)
<1>1. PICK via \in Channels, p \in PaymentIds \cup {0} :
          /\ requests' = [requests EXCEPT
                             ![k] = [stage |-> "received", via |-> via,
                                     user |-> u, payment |-> p, doc |-> d]]
          /\ requests[k] = New
          /\ files' = files \cup {k}
          /\ UNCHANGED <<vars, evidence, told, audits, interrupted>>
  BY DEF ReceiveInApp, ReceiveInChat, Channels
<1> DEFINE q == [stage |-> "received", via |-> via, user |-> u, payment |-> p, doc |-> d]
<1>2. q \in Request /\ q.stage = "received" /\ ~Announces(q)
  BY DEF Request, Announces
<1>3. receipts' = receipts /\ audits' \subseteq Actions \X PaymentIds
  BY <1>1 DEF vars, DeskTypeOK
<1>4. Turns(k, q)
  BY <1>1, <1>2, <1>3, EndsType DEF Turns, FilesAfter, Unstored
<1> QED
  BY <1>4

LEMMA DropTurns ==
    ASSUME DeskTypeOK, NEW k \in Requests, DropUpload(k)
    PROVE  Turns(k, Done)
BY EndsType DEF DropUpload, RemoveFile, Turns, FilesAfter, Unstored, Announces, vars, DeskTypeOK

LEMMA ReadTurns ==
    ASSUME DeskTypeOK, NEW k \in Requests, NEW p \in PaymentIds, NEW days \in ReviewDays,
           ReadForApproval(k, p, days)
    PROVE  \E q : Turns(k, q)
<1> DEFINE q == [stage |-> "read", payment |-> p, days |-> days,
                 approved |-> payments[p].status = "approved"]
<1>1. q \in Request /\ q.stage = "read" /\ ~Announces(q)
  BY DEF Request, Announces
<1>2. /\ requests[k] = New /\ requests' = [requests EXCEPT ![k] = q]
      /\ receipts' = receipts
      /\ UNCHANGED <<files, evidence, told, audits, interrupted>>
  BY DEF ReadForApproval, vars
<1>3. Turns(k, q)
  BY <1>1, <1>2, EndsType DEF Turns, FilesAfter, Unstored, DeskTypeOK
<1> QED
  BY <1>3

LEMMA DecideApprovalTurns ==
    ASSUME Inv, DeskTypeOK, NEW k \in Requests, DecideApproval(k)
    PROVE  \E q : Turns(k, q)
<1>0. requests[k].payment \in PaymentIds /\ requests[k].days \in ReviewDays
  BY RequestKinds DEF DecideApproval, DeskTypeOK
<1>1. PICK p \in PaymentIds : p = requests[k].payment /\ requests[k].stage = "read"
  BY <1>0 DEF DecideApproval
<1> DEFINE q == Answer("http", p, "approved", "payment_approve")
<1>2. q \in Request /\ q.stage = "answer" /\ q.payment = p
  BY AnswerType DEF Channels, Verdicts, Actions
<1>3. DOMAIN receipts' = DOMAIN receipts
  BY DecideApprovalPays, ReviewKeepsReceipts DEF vars
<1>4. UNCHANGED <<files, evidence, told, audits, interrupted>>
  BY DEF DecideApproval
<1>5. requests' = [requests EXCEPT ![k] = Done] \/ (requests' = [requests EXCEPT ![k] = q] /\ Approved(p)')
  <2>1. CASE ApprovePayment(p, requests[k].days) /\ requests' = [requests EXCEPT ![k] = AfterApproval(k)]
    BY <1>1, <2>1, ApprovalApproves DEF AfterApproval
  <2>2. CASE Approved(p) /\ requests' = [requests EXCEPT ![k] = AfterApproval(k)] /\ UNCHANGED vars
    BY <1>1, <2>2 DEF AfterApproval, Approved, vars
  <2> QED
    BY <1>1, <2>1, <2>2 DEF DecideApproval, AfterFailure
<1>6. CASE requests' = [requests EXCEPT ![k] = Done]
  <2>1. Turns(k, Done)
    BY <1>1, <1>3, <1>4, <1>6, EndsType DEF Turns, FilesAfter, Unstored, Announces, DeskTypeOK
  <2> QED
    BY <2>1
<1>7. CASE requests' = [requests EXCEPT ![k] = q] /\ Approved(p)'
  <2>1. Turns(k, q)
    BY <1>1, <1>2, <1>3, <1>4, <1>7 DEF Turns, FilesAfter, Unstored, DeskTypeOK
  <2> QED
    BY <2>1
<1> QED
  BY <1>5, <1>6, <1>7
LEMMA RejectionTurns ==
    ASSUME Inv, DeskTypeOK, NEW k \in Requests, NEW p \in PaymentIds, DecideRejection(k, p)
    PROVE  \E q : Turns(k, q)
<1> DEFINE q == Answer("http", p, "refused", "payment_reject")
<1>1. q \in Request /\ q.stage = "answer" /\ q.verdict = "refused"
  BY AnswerType DEF Channels, Verdicts, Actions
<1>2. DOMAIN receipts' = DOMAIN receipts
  BY ReviewKeepsReceipts DEF DecideRejection, ReviewStep
<1>3. /\ requests[k] = New /\ requests' = [requests EXCEPT ![k] = q]
      /\ UNCHANGED <<files, evidence, told, audits, interrupted>>
  BY DEF DecideRejection
<1>4. Turns(k, q)
  BY <1>1, <1>2, <1>3, EndsType DEF Turns, FilesAfter, Unstored, Announces, DeskTypeOK
<1> QED
  BY <1>4

LEMMA FollowTurns ==
    ASSUME DeskTypeOK, NEW k \in Requests, Follow(k)
    PROVE  Turns(k, Done)
<1>1. requests[k].payment \in PaymentIds /\ requests[k].action \in Actions \cup {"none"}
  BY RequestKinds DEF Follow, DeskTypeOK
<1>2. audits' \subseteq Actions \X PaymentIds
  BY <1>1 DEF Follow, DeskTypeOK
<1> QED
  BY <1>2, EndsType DEF Follow, Turns, FilesAfter, Unstored, Announces, vars

LEMMA DisconnectTurns ==
    ASSUME DeskTypeOK, NEW k \in Requests, Disconnect(k)
    PROVE  Turns(k, Done)
BY EndsType
DEF Disconnect, RemoveFile, Turns, FilesAfter, Unstored, Announces, vars, DeskTypeOK

-----------------------------------------------------------------------------
(***************************************************************************)
(* The invariant.                                                          *)
(***************************************************************************)

\* Approvals stand, whatever the other requests do.
LEMMA ApprovalsStand ==
    ASSUME Inv, [Next]_vars, NEW p, Approved(p)
    PROVE  Approved(p)'
<1>1. payments'[p] = payments[p] /\ p \in DOMAIN payments
  BY NextSettles DEF Settled, Approved
<1>2. DOMAIN payments \subseteq DOMAIN payments'
  BY StepKinds DEF PaymentsKept
<1> QED
  BY <1>1, <1>2 DEF Approved
\* One verdict more is told.
LEMMA ToldMore ==
    ASSUME NEW s \in Seq(Verdicts), NEW v \in Verdicts
    PROVE  Append(s, v) \in Seq(Verdicts) /\ Range(Append(s, v)) = Range(s) \cup {v}
<1> DEFINE t == Append(s, v)
<1>1. t \in Seq(Verdicts) /\ Len(t) = Len(s) + 1 /\ t[Len(s) + 1] = v
  OBVIOUS
<1>2. \A i \in 1..Len(s) : t[i] = s[i]
  OBVIOUS
<1>3. DOMAIN s = 1..Len(s) /\ DOMAIN t = 1..(Len(s) + 1) /\ Len(s) \in Nat
  BY <1>1
<1> HIDE DEF t
<1> QED
  BY <1>1, <1>2, <1>3 DEF Range

LEMMA TurnTypes ==
    ASSUME DeskTypeOK, TypeOK', NEW k \in Requests, NEW q, Turns(k, q)
    PROVE  DeskTypeOK'
<1>1. requests' \in [Requests -> Request] /\ files' \subseteq Requests
  BY DEF Turns, FilesAfter, DeskTypeOK
<1>2. evidence' \in [DOMAIN receipts' -> Requests]
  BY DEF Turns, DeskTypeOK
<1>3. DOMAIN told' = PaymentIds /\ \A p \in PaymentIds : told'[p] \in Seq(Verdicts)
  <2>1. CASE told' = told
    BY <2>1 DEF DeskTypeOK
  <2>2. CASE /\ requests[k].stage = "answer"
             /\ told' = [told EXCEPT ![requests[k].payment] = Append(@, requests[k].verdict)]
    BY <2>2, RequestKinds, ToldMore DEF DeskTypeOK
  <2> QED
    BY <2>1, <2>2 DEF Turns
<1>4. audits' \subseteq Actions \X PaymentIds /\ interrupted' \in {"no", "client", "process"}
  BY DEF Turns, DeskTypeOK
<1> QED
  BY <1>1, <1>2, <1>3, <1>4 DEF DeskTypeOK

LEMMA TurnFiles ==
    ASSUME DeskTypeOK, FilesAccounted, NEW k \in Requests, NEW q, Turns(k, q)
    PROVE  FilesAccounted'
<1>1. /\ \A j \in Requests \ {k} : requests'[j] = requests[j]
      /\ requests'[k] = q
  BY DEF Turns, DeskTypeOK
<1>2. ASSUME NEW r \in DOMAIN receipts'
      PROVE  evidence'[r] \in files' /\ requests'[evidence'[r]].stage \notin Unstored
  <2>1. r \in DOMAIN receipts /\ evidence'[r] = evidence[r] /\ evidence[r] \in Requests
    BY <1>2 DEF Turns, DeskTypeOK
  <2>2. evidence[r] \in files /\ requests[evidence[r]].stage \notin Unstored
    BY <2>1 DEF FilesAccounted
  <2>3. CASE evidence[r] = k
    BY <1>1, <2>1, <2>2, <2>3 DEF Turns, FilesAfter, Unstored
  <2>4. CASE evidence[r] # k
    BY <1>1, <2>1, <2>2, <2>4 DEF Turns, FilesAfter
  <2> QED
    BY <2>3, <2>4
<1>3. ASSUME NEW j \in Requests, requests'[j].stage = "received"
      PROVE  j \in files'
  BY <1>1, <1>3 DEF FilesAccounted, Turns, FilesAfter
<1>4. ASSUME NEW j \in files'
      PROVE  j \in Range(evidence') \/ requests'[j].stage = "received" \/ interrupted' = "process"
  <2>1. CASE j = k
    <3>1. q.stage = "received" \/ (j \in files /\ requests[k].stage # "received")
      BY <1>4, <2>1 DEF Turns, FilesAfter
    <3> QED
      BY <1>1, <2>1, <3>1 DEF FilesAccounted, Turns
  <2>2. CASE j # k
    <3>1. j \in files /\ j \in Requests
      BY <1>4, <2>2 DEF Turns, FilesAfter, DeskTypeOK
    <3> QED
      BY <1>1, <2>2, <3>1 DEF FilesAccounted, Turns
  <2> QED
    BY <2>1, <2>2
<1> QED
  BY <1>2, <1>3, <1>4 DEF FilesAccounted

LEMMA TurnTruth ==
    ASSUME DeskTypeOK, VerdictsStand, ToldTheTruth, NEW k \in Requests, NEW q, Turns(k, q),
           \A p \in PaymentIds : Approved(p) => Approved(p)'
    PROVE  VerdictsStand' /\ ToldTheTruth'
<1>1. /\ \A j \in Requests \ {k} : requests'[j] = requests[j]
      /\ requests'[k] = q
  BY DEF Turns, DeskTypeOK
<1>2. ASSUME NEW j \in Requests, NEW p \in PaymentIds,
             Announces(requests'[j]), requests'[j].payment = p
      PROVE  Approved(p)'
  <2>1. CASE j = k
    BY <1>1, <1>2, <2>1 DEF Turns
  <2>2. CASE j # k
    BY <1>1, <1>2, <2>2 DEF VerdictsStand
  <2> QED
    BY <2>1, <2>2
<1>3. ASSUME NEW p \in PaymentIds, "approved" \in Range(told'[p])
      PROVE  Approved(p)'
  <2>1. "approved" \in Range(told[p]) \/ (Announces(requests[k]) /\ requests[k].payment = p)
    <3>1. CASE told' = told
      BY <1>3, <3>1
    <3>2. CASE /\ requests[k].stage = "answer"
               /\ told' = [told EXCEPT ![requests[k].payment] = Append(@, requests[k].verdict)]
      <4>1. requests[k].payment \in PaymentIds /\ requests[k].verdict \in Verdicts
        BY <3>2, RequestKinds DEF DeskTypeOK
      <4>2. CASE p = requests[k].payment
        <5>1. told'[p] = Append(told[p], requests[k].verdict) /\ told[p] \in Seq(Verdicts)
          BY <3>2, <4>2 DEF DeskTypeOK
        <5>2. Range(told'[p]) = Range(told[p]) \cup {requests[k].verdict}
          BY <4>1, <5>1, ToldMore
        <5> QED
          BY <1>3, <3>2, <4>2, <5>2 DEF Announces
      <4>3. CASE p # requests[k].payment
        BY <1>3, <3>2, <4>3 DEF DeskTypeOK
      <4> QED
        BY <4>2, <4>3
    <3> QED
      BY <3>1, <3>2 DEF Turns
  <2> QED
    BY <2>1 DEF ToldTheTruth, VerdictsStand
<1> QED
  BY <1>2, <1>3 DEF VerdictsStand, ToldTheTruth
\* An upload adds one receipt and names its own file for it.
LEMMA StoreTables ==
    ASSUME Inv, DeskTypeOK, NEW k \in Requests, StoreUpload(k)
    PROVE  \E i : /\ i \notin DOMAIN receipts /\ DOMAIN receipts' = DOMAIN receipts \cup {i}
                  /\ evidence' \in [DOMAIN receipts' -> Requests]
                  /\ evidence'[i] = k
                  /\ \A r \in DOMAIN receipts : evidence'[r] = evidence[r]
<1>1. requests[k].doc \in Docs /\ TypeOK
  BY RequestKinds DEF StoreUpload, DeskTypeOK
<1>2. PICK p \in Chosen(k) : AttachReceipt(requests[k].doc, p)
  BY DEF StoreUpload
<1>3. PICK i \in ReceiptIds \ DOMAIN receipts, row \in ReceiptRow : Attached(p, i, row)
  BY <1>1, <1>2, ChosenOpen, AttachTables
<1> DEFINE rs == Insert(receipts, i, row)
<1>4. ReceiptTable(rs) /\ DOMAIN rs = DOMAIN receipts \cup {i}
  BY <1>1, InsertType DEF TypeOK, ReceiptTable, Insert
<1>5. DOMAIN receipts' = DOMAIN rs
  <2>1. CASE receipts' = rs
    BY <2>1
  <2>2. CASE Approve(Moved(p, row), rs, p, SubscriptionDays, FALSE)
    <3>1. PaymentTable(Moved(p, row)) /\ p \in DOMAIN Moved(p, row)
      BY <1>2, <1>3, ChosenOpen DEF Attached
    <3>2. \E r \in LatestReceipt(rs, p) : receipts' = MarkReceipt(rs, r, "approved")
      BY <2>2, <3>1, ApproveTables
    <3> QED
      BY <1>4, <3>2, MarkedRows
  <2> QED
    BY <1>3, <2>1, <2>2 DEF Attached
<1>6. evidence' = [r \in DOMAIN receipts' |-> IF r \in DOMAIN receipts THEN evidence[r] ELSE k]
  BY DEF StoreUpload
<1> QED
  BY <1>3, <1>4, <1>5, <1>6 DEF DeskTypeOK

LEMMA StoreRequest ==
    ASSUME Inv, TypeOK', DeskTypeOK, NEW k \in Requests, StoreUpload(k)
    PROVE  \E q \in Request :
               /\ requests' = [requests EXCEPT ![k] = q]
               /\ q.stage \in {"answer", "done"}
               /\ Announces(q) => Approved(q.payment)'
               /\ audits' \subseteq Actions \X PaymentIds
<1>1. requests[k].stage = "received" /\ requests[k].via \in Channels
  BY RequestKinds DEF StoreUpload, DeskTypeOK
<1>2. PICK via \in Channels : via = requests[k].via
  BY <1>1
<1>3. PICK p \in Chosen(k) :
          /\ requests' = [requests EXCEPT ![k] = AfterUpload(via, p)]
          /\ audits' = audits \cup SystemAudit(p)
          /\ AttachReceipt(requests[k].doc, p)
  BY <1>2 DEF StoreUpload
<1>4. p \in PaymentIds /\ p \in DOMAIN payments
  BY ChosenOpen DEF DeskTypeOK, TypeOK, IsTable
<1>5. DOMAIN payments \subseteq DOMAIN payments'
  BY StoreUploadPays, StepKinds DEF PaymentsKept, Next
<1>6. audits' \subseteq Actions \X PaymentIds
  BY <1>3, <1>4 DEF SystemAudit, Actions, DeskTypeOK
<1> DEFINE yes == Answer(via, p, "approved", "none")
           no == Answer(via, p, "refused", "none")
<1>7. /\ yes \in Request /\ yes.stage = "answer" /\ yes.payment = p
      /\ no \in Request /\ no.stage = "answer" /\ no.verdict = "refused"
      /\ Done \in Request /\ Done.stage = "done"
  BY <1>4, AnswerType, EndsType DEF Verdicts, Actions
<1>8. \/ requests' = [requests EXCEPT ![k] = yes] /\ payments'[p].status = "approved"
      \/ requests' = [requests EXCEPT ![k] = no]
      \/ requests' = [requests EXCEPT ![k] = Done]
  BY <1>3 DEF AfterUpload
<1> QED
  BY <1>4, <1>5, <1>6, <1>7, <1>8 DEF Announces, Approved
LEMMA StoreSoundly ==
    ASSUME DeskSound, NEW k \in Requests, StoreUpload(k)
    PROVE  DeskSound'
<1>0. Inv /\ DeskTypeOK /\ FilesAccounted /\ VerdictsStand /\ ToldTheTruth
  BY DEF DeskSound
<1>1. [Next]_vars
  BY <1>0, StoreUploadPays DEF Next
<1>2. Inv' /\ TypeOK'
  BY <1>0, <1>1, NextInv, NextType DEF Inv
<1>3. PICK i : /\ i \notin DOMAIN receipts /\ DOMAIN receipts' = DOMAIN receipts \cup {i}
               /\ evidence' \in [DOMAIN receipts' -> Requests]
               /\ evidence'[i] = k
               /\ \A r \in DOMAIN receipts : evidence'[r] = evidence[r]
  BY <1>0, StoreTables
<1>4. PICK q \in Request :
          /\ requests' = [requests EXCEPT ![k] = q]
          /\ q.stage \in {"answer", "done"}
          /\ Announces(q) => Approved(q.payment)'
          /\ audits' \subseteq Actions \X PaymentIds
  BY <1>0, <1>2, StoreRequest
<1>5. /\ requests[k].stage = "received"
      /\ UNCHANGED <<files, told, interrupted>>
  BY DEF StoreUpload
<1>6. DeskTypeOK'
  BY <1>0, <1>2, <1>3, <1>4, <1>5 DEF DeskTypeOK
<1>7. /\ \A j \in Requests \ {k} : requests'[j] = requests[j]
      /\ requests'[k] = q
  BY <1>0, <1>4 DEF DeskTypeOK
<1>8. FilesAccounted'
  <2>1. ASSUME NEW r \in DOMAIN receipts'
        PROVE  evidence'[r] \in files /\ requests'[evidence'[r]].stage \notin Unstored
    <3>1. CASE r = i
      BY <1>0, <1>3, <1>4, <1>5, <1>7, <3>1 DEF FilesAccounted, Unstored
    <3>2. CASE r # i
      <4>1. /\ r \in DOMAIN receipts /\ evidence'[r] = evidence[r] /\ evidence[r] \in Requests
            /\ evidence[r] \in files /\ requests[evidence[r]].stage \notin Unstored
        BY <1>0, <1>3, <2>1, <3>2 DEF FilesAccounted, DeskTypeOK
      <4> QED
        BY <1>4, <1>5, <1>7, <4>1 DEF Unstored
    <3> QED
      BY <3>1, <3>2
  <2>2. ASSUME NEW j \in files
        PROVE  j \in Range(evidence') \/ requests'[j].stage = "received" \/ interrupted = "process"
    <3>1. k \in Range(evidence') /\ Range(evidence) \subseteq Range(evidence')
      BY <1>0, <1>3 DEF Range, DeskTypeOK
    <3> QED
      BY <1>0, <1>7, <2>2, <3>1 DEF FilesAccounted, DeskTypeOK
  <2>3. \A j \in Requests : requests'[j].stage = "received" => j \in files
    BY <1>0, <1>4, <1>7 DEF FilesAccounted
  <2> QED
    BY <1>5, <2>1, <2>2, <2>3 DEF FilesAccounted
<1>9. \A p \in PaymentIds : Approved(p) => Approved(p)'
  BY <1>0, <1>1, ApprovalsStand
<1>10. VerdictsStand' /\ ToldTheTruth'
  BY <1>0, <1>4, <1>5, <1>7, <1>9 DEF VerdictsStand, ToldTheTruth
<1> QED
  BY <1>2, <1>6, <1>8, <1>10 DEF DeskSound

LEMMA TurnSoundly ==
    ASSUME DeskSound, NEW k \in Requests, NEW q, Turns(k, q), [Next]_vars
    PROVE  DeskSound'
<1>0. Inv /\ DeskTypeOK /\ FilesAccounted /\ VerdictsStand /\ ToldTheTruth
  BY DEF DeskSound
<1>1. Inv' /\ TypeOK'
  BY <1>0, NextInv, NextType DEF Inv
<1>2. \A p \in PaymentIds : Approved(p) => Approved(p)'
  BY <1>0, ApprovalsStand
<1> QED
  BY <1>0, <1>1, <1>2, TurnTypes, TurnFiles, TurnTruth DEF DeskSound

LEMMA CrashSoundly ==
    ASSUME DeskSound, Crash
    PROVE  DeskSound'
<1>0. Inv /\ DeskTypeOK /\ FilesAccounted /\ VerdictsStand /\ ToldTheTruth
  BY DEF DeskSound
<1>1. /\ requests' = [j \in Requests |-> IF requests[j] = New THEN New ELSE Done]
      /\ interrupted' = "process"
      /\ UNCHANGED <<vars, files, evidence, told, audits>>
  BY DEF Crash
<1>2. Inv' /\ TypeOK'
  BY <1>0, <1>1, NextInv, NextType DEF Inv
<1>3. DeskTypeOK'
  BY <1>0, <1>1, <1>2, EndsType DEF DeskTypeOK, vars
<1>4. FilesAccounted'
  <2>1. ASSUME NEW r \in DOMAIN receipts
        PROVE  evidence[r] \in files /\ requests'[evidence[r]].stage \notin Unstored
    <3>1. /\ evidence[r] \in files /\ evidence[r] \in Requests
          /\ requests[evidence[r]].stage \notin Unstored
      BY <1>0 DEF FilesAccounted, DeskTypeOK
    <3> QED
      BY <1>1, <3>1, EndsType DEF Unstored
  <2> QED
    BY <1>1, <2>1, EndsType DEF FilesAccounted, vars
<1>5. VerdictsStand' /\ ToldTheTruth'
  BY <1>0, <1>1, EndsType DEF VerdictsStand, ToldTheTruth, Announces, Approved, vars
<1> QED
  BY <1>2, <1>3, <1>4, <1>5 DEF DeskSound

LEMMA BackgroundSoundly ==
    ASSUME DeskSound, UNCHANGED deskVars, receipts' = receipts, [Next]_vars
    PROVE  DeskSound'
<1>0. Inv /\ DeskTypeOK /\ FilesAccounted /\ VerdictsStand /\ ToldTheTruth
  BY DEF DeskSound
<1>1. Inv' /\ TypeOK'
  BY <1>0, NextInv, NextType DEF Inv
<1>2. \A p \in PaymentIds : Approved(p) => Approved(p)'
  BY <1>0, ApprovalsStand
<1>3. DeskTypeOK'
  BY <1>0, <1>1 DEF DeskTypeOK, deskVars
<1>4. FilesAccounted'
  BY <1>0 DEF FilesAccounted, deskVars
<1>5. VerdictsStand' /\ ToldTheTruth'
  BY <1>0, <1>2 DEF VerdictsStand, ToldTheTruth, deskVars
<1> QED
  BY <1>1, <1>3, <1>4, <1>5 DEF DeskSound
LEMMA DeskInitSound ==
    ASSUME DeskInit
    PROVE  DeskSound
<1>1. Inv /\ TypeOK
  BY InitInv, InitType DEF DeskInit
<1>2. DOMAIN receipts = {} /\ DOMAIN evidence = {}
  BY DEF DeskInit, Init, EmptyTable
<1>3. \A p \in PaymentIds : told[p] \in Seq(Verdicts) /\ Range(told[p]) = {}
  BY DEF DeskInit, Range
<1>4. DeskTypeOK
  BY <1>1, <1>2, <1>3, EndsType DEF DeskInit, DeskTypeOK, EmptyTable
<1>5. FilesAccounted
  BY <1>2, EndsType DEF DeskInit, FilesAccounted
<1>6. VerdictsStand /\ ToldTheTruth
  BY <1>3, EndsType DEF DeskInit, VerdictsStand, ToldTheTruth, Announces
<1> QED
  BY <1>1, <1>4, <1>5, <1>6 DEF DeskSound

LEMMA DeskNextSound ==
    ASSUME DeskSound, [DeskNext]_<<vars, deskVars>>
    PROVE  DeskSound'
<1>0. Inv /\ DeskTypeOK
  BY DEF DeskSound
<1>1. [Next]_vars
  BY <1>0, StepPays
<1>2. ASSUME NEW k \in Requests, HandlerStep(k)
      PROVE  DeskSound'
  <2>1. CASE StoreUpload(k)
    BY <2>1, StoreSoundly
  <2>2. CASE DropUpload(k) \/ DecideApproval(k) \/ Follow(k)
    BY <1>0, <1>1, <2>2, DropTurns, DecideApprovalTurns, FollowTurns, TurnSoundly
  <2> QED
    BY <1>2, <2>1, <2>2 DEF HandlerStep
<1>3. CASE RequestStep
  <2>1. PICK k \in Requests :
            \/ \E u \in Users, p \in PaymentIds, d \in Docs : ReceiveInApp(k, u, p, d)
            \/ \E u \in Users, d \in Docs : ReceiveInChat(k, u, d)
            \/ \E p \in PaymentIds, days \in ReviewDays : ReadForApproval(k, p, days)
            \/ \E p \in PaymentIds : DecideRejection(k, p)
    BY <1>3 DEF RequestStep
  <2>2. \E q : Turns(k, q)
    BY <1>0, <2>1, ReceiveTurns, ReadTurns, RejectionTurns
  <2> QED
    BY <1>1, <2>2, TurnSoundly
<1>4. CASE Background
  <2>1. receipts' = receipts /\ UNCHANGED deskVars
    BY <1>4 DEF Background, CreatePayment, ExpirePendingPayments, Tick
  <2> QED
    BY <1>1, <2>1, BackgroundSoundly
<1>5. CASE Interruption
  <2>1. CASE Crash
    BY <2>1, CrashSoundly
  <2>2. CASE \E k \in Requests : Disconnect(k)
    BY <1>0, <1>1, <2>2, DisconnectTurns, TurnSoundly
  <2> QED
    BY <1>5, <2>1, <2>2 DEF Interruption
<1>6. CASE UNCHANGED <<vars, deskVars>>
  BY <1>1, <1>6, BackgroundSoundly DEF vars
<1> QED
  BY <1>2, <1>3, <1>4, <1>5, <1>6 DEF DeskNext

LEMMA DeskSoundAlways == DeskSpec => []DeskSound
<1>1. DeskInit => DeskSound
  BY DeskInitSound
<1>2. DeskSound /\ [DeskNext]_<<vars, deskVars>> => DeskSound'
  BY DeskNextSound
<1> QED
  BY <1>1, <1>2, PTL DEF DeskSpec

\* Looking at a payment first and deciding it later does the tables no harm: what
\* is proved of Payments holds of its handlers.
THEOREM HandlersImplementPayments == DeskSpec => ImplementsPayments
<1>1. DeskInit => Init
  BY DEF DeskInit
<1>2. DeskSound /\ [DeskNext]_<<vars, deskVars>> => [Next]_vars
  BY StepPays DEF DeskSound
<1> QED
  BY <1>1, <1>2, DeskSoundAlways, PTL DEF DeskSpec, ImplementsPayments, Spec

\* Every stored receipt has its file, and an upload that fails leaves none behind.
THEOREM FilesFitReceipts == DeskSpec => []DeskInv
<1>1. DeskSound => DeskInv
  <2>1. SUFFICES ASSUME DeskSound
                 PROVE  FilesMatchReceipts
    BY DEF DeskSound, DeskInv
  <2>2. DeskTypeOK /\ FilesAccounted
    BY <2>1 DEF DeskSound
  <2>3. Range(evidence) \subseteq files
    BY <2>2 DEF FilesAccounted, DeskTypeOK, Range
  <2>4. Quiet /\ interrupted # "process" => files \subseteq Range(evidence)
    BY <2>2, EndsType DEF FilesAccounted, DeskTypeOK, Quiet
  <2> QED
    BY <2>3, <2>4 DEF FilesMatchReceipts
<1> QED
  BY <1>1, DeskSoundAlways, PTL

\* Nobody is told of an approval that is not in the tables for good.
THEOREM CustomersToldTruth == DeskSpec => []ToldTheTruth
<1>1. DeskSound => ToldTheTruth
  BY DEF DeskSound
<1> QED
  BY <1>1, DeskSoundAlways, PTL

=============================================================================
