------------------------------ MODULE Payments ------------------------------
(***************************************************************************)
(* Payments and their receipts (internal/repository/payments.go,           *)
(* receipts.go) with everything an approval changes in its transaction:    *)
(* the payer's subscription or course access, the payer's level, the       *)
(* inviter's rewards and the receipt.                                      *)
(*                                                                         *)
(* SQLite runs on one connection, so a transaction is one step.  A         *)
(* transaction that fails is rolled back and changes nothing: it is the    *)
(* absence of a step.                                                      *)
(***************************************************************************)
EXTENDS Subscriptions, Referrals, PremiumAccess, ReceiptParser

CONSTANTS
    PaymentIds,         \* bound: payments that can be created
    ReceiptIds,         \* bound: receipts that can be stored
    PaymentTTL,         \* PAYMENT_PENDING_TTL_MINUTES
    SubscriptionDays,   \* SUBSCRIPTION_DEFAULT_DAYS
    ReviewDays,         \* days an admin may approve a payment for
    Docs,               \* PDF files users hold
    Text,               \* what each of them says
    Price               \* of each product

Products == Tariffs \cup Courses

ASSUME PaymentsAssumption ==
    /\ Tariffs \cap Courses = {}
    /\ PaymentIds \subseteq Nat \ {0}
    /\ ReceiptIds \subseteq Nat \ {0}
    /\ PaymentTTL \in Nat /\ SubscriptionDays \in Nat
    /\ ReviewDays \subseteq Nat
    /\ DOMAIN Text = Docs
    /\ Price \in [Products -> Nat]

VARIABLES
    payments,   \* table: user, product, status, created, expires, ...
    receipts,   \* table: payment, doc, codes, status, created
    level       \* users.current_level

vars == <<clock, subscriptions, gifts, paidReferrals, rewards, coins, access,
          payments, receipts, level>>

PaymentStatus == {"pending", "uploaded_receipt", "approved", "rejected", "expired"}

\* autoRejected: admin_comment starts with "auto_rejected:".
\* reviewed: approved_by_admin_id is set.
PaymentRow ==
    [user : Users, product : Products, status : PaymentStatus, created : Nat,
     expires : Nat, autoRejected : BOOLEAN, reviewed : BOOLEAN]

ReceiptRow ==
    [payment : PaymentIds, doc : Docs, codes : SUBSET Codes,
     status : ReceiptStatus, created : Nat]

\* The type of every table.
TypeOK ==
    /\ PlatformTypeOK
    /\ SubscriptionsTypeOK
    /\ ReferralsTypeOK
    /\ PremiumTypeOK
    /\ IsTable(payments, PaymentIds, PaymentRow)
    /\ IsTable(receipts, ReceiptIds, ReceiptRow)
    /\ level \in [Users -> Nat]

Init ==
    /\ PlatformInit
    /\ SubscriptionsInit
    /\ ReferralsInit
    /\ PremiumInit
    /\ payments = EmptyTable
    /\ receipts = EmptyTable
    /\ level = [u \in Users |-> 0]

-----------------------------------------------------------------------------
(***************************************************************************)
(* Creating a payment.  A live pending payment for the same product is     *)
(* refreshed instead, so that a second click does not open a second one.   *)
(***************************************************************************)

\* Mutant: only a click within the same second finds the first payment.
ReusableAtOnce(u, x) ==
    {p \in DOMAIN payments : /\ payments[p].user = u
                             /\ payments[p].product = x
                             /\ payments[p].status = "pending"
                             /\ payments[p].created = clock}

Reusable(u, x) ==
    {p \in DOMAIN payments : /\ payments[p].user = u
                             /\ payments[p].product = x
                             /\ payments[p].status = "pending"
                             /\ ~Past(payments[p].expires)}

NewPayment(u, x) ==
    [user |-> u, product |-> x, status |-> "pending", created |-> clock,
     expires |-> clock + PaymentTTL, autoRejected |-> FALSE, reviewed |-> FALSE]

CreatePayment(u, x) ==
    /\ IF Reusable(u, x) # {}
       THEN \E p \in Newest(payments, Reusable(u, x)) :
                payments' = [payments EXCEPT ![p].expires = clock + PaymentTTL]
       ELSE \E p \in NextId(PaymentIds, payments) :
                payments' = Insert(payments, p, NewPayment(u, x))
    /\ UNCHANGED <<clock, subscriptions, gifts, referralVars, access, receipts, level>>

-----------------------------------------------------------------------------
(***************************************************************************)
(* Deciding a payment.                                                     *)
(***************************************************************************)

TransactionKey(d) == Identity(Text[d])

ReceiptsOf(rs, p) == {r \in DOMAIN rs : rs[r].payment = p}

\* The receipt a decision on p looks at and marks; 0 stands for no row.
LatestReceipt(rs, p) ==
    IF ReceiptsOf(rs, p) = {} THEN {0} ELSE Newest(rs, ReceiptsOf(rs, p))

MarkReceipt(rs, r, status) ==
    IF r = 0 THEN rs ELSE [rs EXCEPT ![r].status = status]

\* Mutant: a rejection of any kind can be overruled.
EligibleAfterRejection(payment, r) ==
    payment.status \in {"expired", "rejected"} \/ Past(payment.expires) => r # 0

\* manualApprovalEligibilityError and the expiry check that follows it: without
\* a receipt only a live payment, and after a rejection only an automatic one.
Eligible(payment, r) ==
    /\ payment.status \in {"expired", "rejected"} \/ Past(payment.expires) => r # 0
    /\ payment.status = "rejected" => payment.autoRejected

\* Mutant: the unique indexes are gone, as those on the hashes are.
KeyIndexDropped(rs, r) == TRUE

\* uniq_receipts_approved_transaction_key and uniq_receipts_approved_check:
\* the UPDATE fails when another approved receipt carries the same number.
KeyUnused(rs, r) ==
    r # 0 /\ TransactionKey(rs[r].doc) # Missing =>
        \A q \in DOMAIN rs \ {r} :
            rs[q].status = "approved" =>
                TransactionKey(rs[q].doc) # TransactionKey(rs[r].doc)

\* The tables after the bonus of one more paid referral of u, given the table
\* after u's own purchase.
AfterBonus(table, u) ==
    LET w == Inviter[u]
        days == BonusDays(PaidCount(paidReferrals \cup {u}, w))
    IN  IF Referred(u) /\ days > 0 THEN Extended(table, w, Basic, days) ELSE {table}

GrantSubscription(u, tariff, days) ==
    /\ \E table \in Purchased(subscriptions, u, tariff, days) :
           subscriptions' \in AfterBonus(table, u)
    /\ level' = [level EXCEPT ![u] = IF @ < 1 THEN 1 ELSE @]
    /\ IF Referred(u) THEN RewardInviter(u) ELSE UNCHANGED referralVars
    /\ UNCHANGED access

\* Mutant: a course counts as a paid referral.
GrantCourseWithCoins(u, c) ==
    /\ GrantAccess(u, c, DefaultTerm[c])
    /\ IF Referred(u) THEN RewardInviter(u) ELSE UNCHANGED referralVars
    /\ UNCHANGED <<subscriptions, level>>

\* Mutant: access is renewed but never opened.
GrantCourseAgain(u, c) ==
    /\ IF access[<<u, c>>].status = "active"
       THEN GrantAccess(u, c, DefaultTerm[c])
       ELSE UNCHANGED access
    /\ UNCHANGED <<subscriptions, level, referralVars>>

GrantCourse(u, c) ==
    /\ GrantAccess(u, c, DefaultTerm[c])
    /\ UNCHANGED <<subscriptions, level, referralVars>>

\* What approvePaymentTx checks before it writes.  Only an admin's approval is
\* held to the rule that a duplicate cannot be approved.
Approvable(ps, rs, p, r, byAdmin) ==
    /\ Eligible(ps[p], r)
    /\ byAdmin /\ r # 0 => ~BlocksManualApproval(rs[r])
    /\ KeyUnused(rs, r)

\* approvePaymentTx on the tables ps and rs, which are the stored ones or those
\* the same transaction has just written.
Approve(ps, rs, p, days, byAdmin) ==
    \E r \in LatestReceipt(rs, p) :
        /\ Approvable(ps, rs, p, r, byAdmin)
        /\ payments' = [ps EXCEPT ![p].status = "approved",
                                  ![p].autoRejected = FALSE,
                                  ![p].reviewed = byAdmin]
        /\ receipts' = MarkReceipt(rs, r, "approved")
        /\ IF ps[p].product \in Tariffs
           THEN GrantSubscription(ps[p].user, ps[p].product, days)
           ELSE GrantCourse(ps[p].user, ps[p].product)
        /\ UNCHANGED <<clock, gifts>>

\* An admin approves: an approved payment is returned as it is.
ApprovePayment(p, days) ==
    /\ p \in DOMAIN payments
    /\ payments[p].status # "approved"
    /\ Approve(payments, receipts, p, days, TRUE)

\* Mutant: only a second rejection is refused.
RejectableOnce(payment) == payment.status # "rejected"

Rejectable(payment) == payment.status # "approved"

\* An admin rejects, with a comment of his own.
RejectPayment(p) ==
    /\ p \in DOMAIN payments
    /\ Rejectable(payments[p])
    /\ payments' = [payments EXCEPT ![p].status = "rejected",
                                    ![p].autoRejected = FALSE,
                                    ![p].reviewed = TRUE]
    /\ \E r \in LatestReceipt(receipts, p) :
           receipts' = MarkReceipt(receipts, r, "rejected")
    /\ UNCHANGED <<clock, subscriptions, gifts, referralVars, access, level>>

\* Mutant: a payment under review expires too.
TimedOutWhileReviewed(payment) ==
    payment.status \in {"pending", "uploaded_receipt"} /\ Past(payment.expires)

TimedOut(payment) == payment.status = "pending" /\ Past(payment.expires)

\* The minute job.
ExpirePendingPayments ==
    /\ \E p \in DOMAIN payments : TimedOut(payments[p])
    /\ payments' =
           [p \in DOMAIN payments |->
               IF TimedOut(payments[p])
               THEN [payments[p] EXCEPT !.status = "expired"]
               ELSE payments[p]]
    /\ UNCHANGED <<clock, subscriptions, gifts, referralVars, access, receipts, level>>

-----------------------------------------------------------------------------
(***************************************************************************)
(* Uploading a receipt.                                                    *)
(***************************************************************************)

\* Payments of u that still take a receipt.
Open(u) ==
    {p \in DOMAIN payments : /\ payments[p].user = u
                             /\ payments[p].status \in {"pending", "uploaded_receipt"}
                             /\ ~Past(payments[p].expires)}

\* checkReceiptDuplicate: approved receipts of other approved payments with
\* d's number or, when d has none, with d's QR payload.
Duplicates(d, p) ==
    {r \in DOMAIN receipts :
        /\ receipts[r].status = "approved"
        /\ receipts[r].payment # p
        /\ payments[receipts[r].payment].status = "approved"
        /\ IF TransactionKey(d) # Missing
           THEN TransactionKey(receipts[r].doc) = TransactionKey(d)
           ELSE QrPayload(Text[d]) # Missing /\ QrPayload(Text[receipts[r].doc]) = QrPayload(Text[d])}

ReceiptFor(d, p) ==
    LET parsed == ParserCodes(Text[d], Price[payments[p].product], payments[p].created)
        duplicate == Duplicates(d, p) # {}
    IN  [payment |-> p, doc |-> d, created |-> clock,
         codes |-> IF duplicate THEN parsed \cup {DuplicateCode} ELSE parsed,
         status |-> IF duplicate THEN "duplicate" ELSE ValidationStatus(parsed)]

\* The payments once a receipt with these findings is stored for p.
Moved(p, row) ==
    LET refused == AutoRejects(row.status, row.codes)
    IN  [payments EXCEPT
            ![p].status = IF refused THEN "rejected" ELSE "uploaded_receipt",
            ![p].autoRejected = payments[p].autoRejected \/ refused]

\* attachReceipt once the payment is chosen: store the receipt, move the
\* payment, and approve on the spot when nothing is wrong with the receipt.
AttachReceipt(d, p) ==
    \E r \in NextId(ReceiptIds, receipts) :
        LET row == ReceiptFor(d, p)
            ps == Moved(p, row)
            rs == Insert(receipts, r, row)
        IN  IF row.status = "valid_candidate"
            THEN Approve(ps, rs, p, SubscriptionDays, FALSE)
            ELSE /\ payments' = ps
                 /\ receipts' = rs
                 /\ UNCHANGED <<clock, subscriptions, gifts, referralVars, access, level>>

\* The Mini App names the payment the receipt is for.
UploadToPayment(u, p, d) ==
    /\ p \in Open(u)
    /\ AttachReceipt(d, p)

\* The bot takes the newest open payment of the sender.
UploadToBot(u, d) ==
    \E p \in Newest(payments, Open(u)) : AttachReceipt(d, p)

-----------------------------------------------------------------------------
(***************************************************************************)
(* The other components' steps, with the tables they leave alone.          *)
(***************************************************************************)

Tick ==
    /\ PassTime
    /\ UNCHANGED <<subscriptions, gifts, referralVars, access, payments, receipts, level>>

SweepSubscriptions ==
    /\ ExpireSubscriptions
    /\ UNCHANGED <<clock, referralVars, access, payments, receipts, level>>

AdminSetsSubscription(s, status) ==
    /\ UpdateSubscriptionStatus(s, status)
    /\ UNCHANGED <<clock, referralVars, access, payments, receipts, level>>

AdminGivesDays(u, tariff, days) ==
    /\ ManualAddSubscriptionDays(u, tariff, days)
    /\ UNCHANGED <<clock, referralVars, access, payments, receipts, level>>

SweepAccess ==
    /\ ExpirePremiumCourseAccesses
    /\ UNCHANGED <<clock, subscriptions, gifts, referralVars, payments, receipts, level>>

AdminGrantsAccess(u, c, term) ==
    /\ GrantAccess(u, c, term)
    /\ UNCHANGED <<clock, subscriptions, gifts, referralVars, payments, receipts, level>>

AdminRevokesAccess(u, c) ==
    /\ RevokePremiumCourseAccess(u, c)
    /\ UNCHANGED <<clock, subscriptions, gifts, referralVars, payments, receipts, level>>

UserStep ==
    \E u \in Users :
        \/ \E x \in Products : CreatePayment(u, x)
        \/ \E p \in PaymentIds, d \in Docs : UploadToPayment(u, p, d)
        \/ \E d \in Docs : UploadToBot(u, d)

ReviewStep ==
    \E p \in PaymentIds :
        \/ \E days \in ReviewDays : ApprovePayment(p, days)
        \/ RejectPayment(p)

AdminStep ==
    \/ \E s \in SubscriptionIds, status \in AdminStatuses :
           AdminSetsSubscription(s, status)
    \/ \E u \in Users, tariff \in Tariffs, days \in GiftDays :
           AdminGivesDays(u, tariff, days)
    \/ \E u \in Users, c \in Courses, term \in GrantTerms : AdminGrantsAccess(u, c, term)
    \/ \E u \in Users, c \in Courses : AdminRevokesAccess(u, c)

MinuteJob ==
    \/ ExpirePendingPayments
    \/ SweepSubscriptions
    \/ SweepAccess

Next == UserStep \/ ReviewStep \/ AdminStep \/ MinuteJob \/ Tick

Spec == Init /\ [][Next]_vars

\* The ticker of the scheduler fires every minute for as long as the process
\* runs, and each sweep of a firing is attempted whether or not the one before
\* it failed; users and admins owe nothing.
FairSpec ==
    /\ Spec
    /\ WF_vars(Tick)
    /\ WF_vars(ExpirePendingPayments)
    /\ WF_vars(SweepSubscriptions)
    /\ WF_vars(SweepAccess)

-----------------------------------------------------------------------------
(***************************************************************************)
(* Safety.                                                                 *)
(***************************************************************************)

Approved(p) == p \in DOMAIN payments /\ payments[p].status = "approved"

ApprovedReceipts == {r \in DOMAIN receipts : receipts[r].status = "approved"}

\* A bank transaction pays once: no two approved receipts carry the same check
\* number or transaction id, whatever order receipts are sent and reviewed in.
KeySpentOnce ==
    \A q, r \in ApprovedReceipts :
        /\ q # r
        /\ TransactionKey(receipts[q].doc) # Missing
        => TransactionKey(receipts[q].doc) # TransactionKey(receipts[r].doc)

\* A receipt is approved only together with its payment, only one of a payment
\* is, and none that the look-up found to repeat an approved one.
ApprovedReceiptBacked ==
    \A r \in ApprovedReceipts :
        /\ Approved(receipts[r].payment)
        /\ ReceiptsOf(receipts, receipts[r].payment) \cap ApprovedReceipts = {r}
        /\ DuplicateCode \notin receipts[r].codes

\* A receipt takes its payment out of the reach of the expiry sweep: a payment
\* that is pending or expired has none.
ReceiptStopsExpiry ==
    \A r \in DOMAIN receipts :
        payments[receipts[r].payment].status \notin {"pending", "expired"}

\* Clicking "pay" again, at any time, leaves a user with one live pending payment
\* for a product.
OneOpenPending ==
    \A p, q \in DOMAIN payments :
        /\ payments[p].user = payments[q].user
        /\ payments[p].product = payments[q].product
        /\ {payments[p].status, payments[q].status} = {"pending"}
        /\ ~Past(payments[p].expires) /\ ~Past(payments[q].expires)
        => p = q

PaidTariff(u) ==
    \E p \in DOMAIN payments : /\ Approved(p)
                               /\ payments[p].user = u
                               /\ payments[p].product \in Tariffs

\* An approved payment has delivered what was bought: a subscription and the
\* first level, or the course.
ApprovedDelivers ==
    \A p \in DOMAIN payments :
        LET u == payments[p].user
            x == payments[p].product
        IN  Approved(p) =>
                IF x \in Tariffs
                THEN level[u] >= 1 /\ \E s \in DOMAIN subscriptions : subscriptions[s].user = u
                ELSE access[<<u, x>>].status # "none"

\* Nobody holds a subscription without a reason the tables record: an approved
\* payment, a gift of an admin, or a reward for inviting.
AccessIsEarned ==
    \A s \in DOMAIN subscriptions :
        LET u == subscriptions[s].user
        IN  \/ PaidTariff(u)
            \/ gifts[u] > 0
            \/ \E t \in {WeekGoal, MonthGoal} : <<u, t>> \in rewards

\* The four records of a referral agree with the payments: it is paid and its
\* coins are given exactly when the invited user has bought a subscription, where
\* courses do not count, and an inviter holds the reward of a threshold exactly
\* when that many of those he invited have paid.
RewardsFollowPayments ==
    /\ paidReferrals = {u \in Users : Referred(u) /\ PaidTariff(u)}
    /\ coins = {<<Inviter[u], u>> : u \in paidReferrals}
    /\ \A w \in Users, t \in Thresholds :
        <<w, t>> \in rewards <=> t <= PaidCount(paidReferrals, w)

-----------------------------------------------------------------------------
(***************************************************************************)
(* What a step may not do.                                                 *)
(***************************************************************************)

\* Approval is final for the payment and for its evidence: nobody rejects,
\* expires, re-approves or sends receipts to an approved payment.
ApprovalIsFinal ==
    [][\A p \in DOMAIN payments :
           Approved(p) =>
               /\ payments'[p] = payments[p]
               /\ ReceiptsOf(receipts', p) = ReceiptsOf(receipts, p)
               /\ \A r \in ReceiptsOf(receipts, p) : receipts'[r] = receipts[r]]_vars

\* When the access of u ends: now, if there is none.
EndsOf(table, u) == {clock} \cup {table[s].expires : s \in Current(table, u)}
AccessEnd(table, u) ==
    CHOOSE e \in EndsOf(table, u) : \A f \in EndsOf(table, u) : f <= e

\* The steps that approve p.
Approves(p) == Approved(p)' /\ ~Approved(p)

\* Buying a subscription adds the days sold, no more and no fewer, to the time the
\* buyer still has, and no purchase takes time from anybody.
BoughtDaysAreAdded ==
    [][\A p \in PaymentIds :
           Approves(p) /\ payments'[p].product \in Tariffs =>
               /\ \E days \in ReviewDays \cup {SubscriptionDays} :
                      AccessEnd(subscriptions', payments'[p].user) =
                          AccessEnd(subscriptions, payments'[p].user) + days
               /\ \A u \in Users :
                      AccessEnd(subscriptions', u) >= AccessEnd(subscriptions, u)]_vars

\* The sweeps take access from nobody: they only mark what gives none any more.
SweepsTakeNothing ==
    [][MinuteJob =>
           /\ \A u \in Users : Current(subscriptions, u)' = Current(subscriptions, u)
           /\ \A k \in DOMAIN access :
                  access[k].status = "active" /\ ~Lapsed(access[k]) => access'[k] = access[k]
           /\ \A p \in DOMAIN payments :
                  ~Past(payments[p].expires) => payments'[p] = payments[p]]_vars

-----------------------------------------------------------------------------
(***************************************************************************)
(* Liveness, under FairSpec.                                               *)
(***************************************************************************)

Lapsing(p) == p \in DOMAIN payments /\ payments[p].status = "pending" /\ Past(payments[p].expires)

EndedSubscription(s) ==
    /\ s \in DOMAIN subscriptions
    /\ subscriptions[s].status = "active"
    /\ Past(subscriptions[s].expires)

\* A pending payment whose time is up does not stay pending: nobody can refresh
\* or use it any more, and the job marks it.
LapsedPaymentExpires == \A p \in PaymentIds : Lapsing(p) ~> ~Lapsing(p)

\* Neither a subscription nor access to a course stays marked active for good
\* once its time is up, though admins may mark it active again.
LapsedAccessEnds ==
    /\ \A s \in SubscriptionIds : EndedSubscription(s) ~> ~EndedSubscription(s)
    /\ \A k \in Users \X Courses : Lapsed(access[k]) ~> ~Lapsed(access[k])

\* Together: the minute job marks what has lapsed, all of it, and nothing else.
SweepsAreExact == SweepsTakeNothing /\ LapsedPaymentExpires /\ LapsedAccessEnds

-----------------------------------------------------------------------------
(***************************************************************************)
(* Payments as the ledger a customer may rely on.                          *)
(***************************************************************************)

Stage(p) ==
    IF p \notin DOMAIN payments THEN "none"
    ELSE CASE payments[p].status \in {"pending", "uploaded_receipt"} -> "open"
           [] payments[p].status = "approved" -> "delivered"
           [] payments[p].status = "rejected" /\ payments[p].autoRejected -> "disputed"
           [] OTHER -> "closed"

Spent ==
    {<<TransactionKey(receipts[r].doc), receipts[r].payment>> :
         r \in {q \in ApprovedReceipts : TransactionKey(receipts[q].doc) # Missing}}

Ledger ==
    INSTANCE PaymentLedger WITH
        Keys <- {TransactionKey(d) : d \in Docs} \ {Missing},
        stage <- [p \in PaymentIds |-> Stage(p)],
        spent <- Spent

\* The tables, the sweeps and the review rules together keep the ledger's promise.
ImplementsLedger == Ledger!Spec

-----------------------------------------------------------------------------
(***************************************************************************)
(* What the repository's documents say, which the code does not do.        *)
(***************************************************************************)

\* "1 paid friend: 7 days free; 3 paid friends: 1 month free" (its section on
\* referrals): the approval of somebody else's payment moves the end of a user's
\* access only in the step that grants the user the reward.
RewardDaysOnce ==
    [][\A p \in PaymentIds, w \in Users :
           /\ Approves(p)
           /\ payments'[p].user # w
           /\ AccessEnd(subscriptions', w) # AccessEnd(subscriptions, w)
           => \E t \in {WeekGoal, MonthGoal} : <<w, t>> \in rewards' \ rewards]_vars

=============================================================================
