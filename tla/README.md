# Verification of Genius Orda (zhenis-orda-service)

TLA+ models of the Go service behind the Genius Orda Telegram bot and Mini App,
checked with TLC on small instances, with theorems proved by TLAPS. The models
are written from the code under `internal/`, `traits/` and `cmd/`; where a
document or a test says something else, the difference is listed under
[Findings](#findings).

- [The system](#the-system)
- [Modules](#modules)
- [How the models abstract the code](#how-the-models-abstract-the-code)
- [Runs](#runs)
- [Findings](#findings)
- [Proofs](#proofs)
- [What is not modelled](#what-is-not-modelled)
- [Plan](#plan)

## The system

One process: an HTTP server (Mini App API and admin API), a Telegram bot that
long-polls, and five tickers. They share a `repository.Store` over SQLite and a
key-value store (Redis, or memory when Redis is off). SQLite is opened with one
connection (`SetMaxOpenConns(1)`), so transactions are serial; what is not
serial is everything a handler does before and after its transaction: reading a
status first, writing a file, sending a Telegram message, writing an audit row.

| component | state | operations | what is hard |
|---|---|---|---|
| Payments (`payments.go`) | `payments` | create or refresh, approve, reject, expire | approvals by admins and by uploads race with each other, with rejections and with the expiry job; an approval changes seven tables |
| Receipts (`receipts.go`) | `payment_receipts` | parse, judge, look up duplicates, attach | two receipts of one bank transaction, both waiting; verdicts that are stale when the payment is decided |
| Subscriptions (`payments.go`, `admin.go`) | `subscriptions` | extend, start, sweep, set status, give days | several current rows per user; ends that fall on the second of a purchase |
| Referral rewards (`payments.go`, `users.go`) | `referrals`, `referral_rewards`, `coin_transactions` | count, reward, give days and coins | three records of one fact with three guards against repetition |
| Premium courses (`premium_courses.go`) | `user_course_access`, courses, lessons | sell, grant, revoke, sweep | a grant that refuses after the payment was marked approved |
| Payment desk (`api.go`, `admin_http.go`, `telegram.go`) | receipt files, messages, requests in progress | upload, review, bonus | reads before and messages after the transaction; crashes between |
| Levels, tests, assignments (`progress.go`, `admin.go`) | `users.current_level`, watched lessons, test results | watch, submit, unlock | content changes under a user's feet; tests repeated |
| Broadcasts (`scheduler.go`, `admin.go`) | `broadcasts`, `broadcast_messages` | queue, claim, read the audience, send, record, finish | a stop or crash half-way; two claimants |
| Reminders (`scheduler.go`, `session.go`) | keys with a time to live | look who is due, set a key if absent, send | a key set and a message lost; a restart that forgets keys; a stream moved while users are told of it |
| Invites and blocking (`telegram_access.go`, `api.go`, `admin_http.go`) | three tables of links, `users.access_closed` | look up, create, record, join, block, unblock | calls to Telegram between two transactions; destinations edited meanwhile |
| Bot (`telegram.go`) | update offset, diagnostics dialogue | poll, dispatch, answer | an update delivered twice; a dialogue deleted before it is saved |
| Registration and legal agreement (`users.go`, `legal_agreements.go`) | `users`, `referrals`, acceptances | register, refer, accept | first contact by two ways at once; a new document version |
| Start-up and migrations (`database.go`, `schema.go`) | schema, indexes | look, add, rebuild, index, seed | a crash between two statements; two processes at once |

The components meet in one place above all: `approvePaymentTx` (payments.go),
which is called by the admin's approval and by the upload of a flawless receipt,
and writes payments, subscriptions or course access, levels, referrals, rewards,
coins and receipts in one transaction. The models start there. The other places
where components meet are the subscription a user has or has not (levels, invites,
reminders, audiences of broadcasts), the users both ways in register, the
agreement a payment asks for, and the process itself, whose end cuts every job
and request short.

What makes each component correct, in a sentence: a bank transaction pays once and
an approval is final; a payment, its receipt, what it bought and what it earned an
inviter agree; a level opens when it is finished and at once; coins are paid once;
nobody is sent a broadcast or a reminder twice and what is lost is lost to a fault;
a link leads where it should for as long as it should, and who is blocked is out;
who invited a user is settled once; who pays has seen the terms; a start never
loses a row and never leaves a database that no start can mend.

## Modules

| module | models | uses |
|---|---|---|
| `Tables` | SQLite tables: rows, ids, `ORDER BY ... DESC LIMIT 1` | |
| `Platform` | users, the clock, comparing a stored time with it | |
| `Subscriptions` | the `subscriptions` table | `Platform`, `Tables` |
| `Referrals` | paid referrals, reward rows, coins | `Platform` |
| `PremiumAccess` | `user_course_access` | `Platform` |
| `ReceiptParser` | what a receipt is read and judged as | |
| `ReceiptVerdict` | one receipt judged for one payment, and what is expected of that | `ReceiptParser` |
| `Payments` | payments, receipts, approval, the minute job | the four above |
| `PaymentLedger` | what the payment system promises (abstract) | |
| `PaymentDesk` | the handlers around `Payments` | `Payments` |
| `Progress` | levels, lessons, tests, assignments, coins for learning, the seeded levels | |
| `Broadcast` | messages to many users, in several processes | `Platform`, `Tables` |
| `Mailing` | what broadcasting promises (abstract) | |
| `Reminders` | the Zoom, subscription and stream jobs over Redis or memory | `Platform` |
| `Invites` | invite links, joining, blocking and unblocking | `Platform`, `Tables` |
| `Bot` | long polling, registration, the questions of the diagnostics | `Tables` |
| `Legal` | the agreement's two files, reading, accepting and paying | |
| `Accounts` | `Bot` and `Legal` with the Mini App as second way in | `Bot`, `Legal` |
| `Migration` | the steps of `Migrate` in processes that stop anywhere | |
| `PaymentsProofs` | theorems about `Payments` and, in its last part, `PaymentDesk` | `PaymentDesk` |
| `ReceiptVerdictProofs`, `ProgressProofs`, `BroadcastProofs`, `RemindersProofs`, `InvitesProofs`, `AccountsProofs`, `MigrationProofs` | theorems about the module of that name | that module |
| `MC...` | values for TLC | the module named |

`Subscriptions`, `Referrals` and `PremiumAccess` hold the tables and the steps
that only touch these. `Payments` composes them: `Approve` is `approvePaymentTx`
and conjoins what it does to each table, `Next` is the disjunction of every
operation of the four components, and each operation says which tables it leaves
alone. `PaymentDesk` wraps `Payments` again: its steps are a handler's reads,
its transaction (an action of `Payments`), and what follows the transaction.
`Progress` stands beside them. It sees of a user's subscriptions only whether one
is active, and has three steps for what `Payments` does to that; the user's level
is the variable they share in the program, and both models write it the same way
(a purchase opens level 1).

`Broadcast`, `Reminders`, `Invites` and `Migration` each stand alone too: what they
share with the others is a subscription, which `Reminders` and `Invites` reduce to
the time it ends and `Broadcast` to an arbitrary audience. `Accounts` composes `Bot`
and `Legal`: both need a registered user, whichever way he came.

### State

| variable | in the program |
|---|---|
| `clock` | `time.Now()` and `CURRENT_TIMESTAMP`, in whole seconds |
| `subscriptions`, `payments`, `receipts` | the tables; a row is a record of the columns that decide something |
| `gifts` | rows of `admin_actions` that record days given by an admin |
| `paidReferrals` | invited users whose `referrals` row is `paid` |
| `rewards`, `coins` | `referral_rewards`; `coin_transactions` of reason `referral_paid` |
| `access` | the newest `user_course_access` row of each user and course |
| `level` | `users.current_level` |
| `requests` | one entry per HTTP request or chat message: its stage and what it has read so far |
| `files`, `evidence` | receipt files on disk; which file a receipt row names |
| `told` | verdicts handed to Telegram for a payment's customer |
| `audits` | `admin_actions` about payments |
| `interrupted` | the one disconnect or crash a behaviour may have |
| `active`, `closed` | users with an active subscription; `users.access_closed` |
| `levels`, `lessons`, `tests` | these tables; `edits` counts their changes |
| `watched`, `passed`, `submitted` | `lesson_progress`, passed `test_attempts`, `assignment_submissions` |
| `granted`, `coins` | the unique index of `coin_transactions`; the balance from learning |
| `sheet` | the test on a user's page, and of which edit its questions are |
| `handing` | a user's assignment between its check, its row and the recalculation |
| `broadcasts`, `messages` | `broadcasts`, `broadcast_messages` |
| `process`, `job` | whether a process is up, told to stop or gone; what its broadcast job holds between two calls |
| `audience`, `attempts`, `cutShort` | observers: who was read, who was sent to how often, whose job did not end |
| `keys`, `store` | the keys of Redis and of the memory of this process; which of them it uses |
| `streams`, `expires`, `due` | `live_streams`; the end of each subscription; tickers that have fired |
| `sent`, `served`, `lost`, `forgets` | observers of the reminders |
| `invites` | `channel_invite_links`, `user_level_telegram_invites`, `user_premium_course_telegram_invites` |
| `chat`, `archived`, `until` | destinations with their chats; when a user's rights end |
| `requests`, `desk` | requests for a link, and a block or unblock, between two calls |
| `links`, `banned`, `members` | what Telegram keeps |
| `held`, `curtailed`, `excused` | observers: links given out, rights ended early or replaced by shorter ones, members blocking does not reach |
| `users`, `referrals` | these tables |
| `sent`, `confirmed`, `poller` | updates at Telegram; the offset it was asked for last; the loop with its offset and batch |
| `dialogue`, `saved` | the answers so far in the key-value store; `diagnostics` |
| `files`, `page`, `reading`, `agreements` | the agreement on disk, on a user's page, in a request, in `user_legal_agreements` |
| `tables`, `index`, `writer`, `draft` | the database file, its unique index, who has the write lock, what a transaction sees |
| `owed`, `overtaken`, `alone`, `deadEnds` | observers of the migration |

### Actions

| action | code |
|---|---|
| `CreatePayment` | `createPaymentForTariff`, `CreatePremiumCoursePaymentWithContactPhone` |
| `UploadToPayment`, `UploadToBot` | `AttachReceiptToPaymentWithValidation`, `AttachReceiptWithValidation`, both through `attachReceipt` |
| `ApprovePayment`, `RejectPayment` | `ApprovePaymentReviewed`, `RejectPayment` |
| `ExpirePendingPayments`, `SweepSubscriptions`, `SweepAccess` | the three sweeps of `runMinuteJobs` |
| `AdminSetsSubscription`, `AdminGivesDays`, `AdminGrantsAccess`, `AdminRevokesAccess` | the admin endpoints of those names |
| `ReceiveInApp`, `ReceiveInChat` | the part of an upload handler up to the saved file |
| `StoreUpload`, `DropUpload` | its transaction, committed or refused |
| `ReadForApproval`, `DecideApproval`, `DecideRejection` | the review handlers' read and transaction |
| `Follow` | the audit record and the message after a transaction |
| `Disconnect`, `Crash` | a request's context is cancelled; the process stops |
| `MarkLessonWatched`, `GetTest`, `SubmitTest` | the operations of `progress.go` of those names, each with the recalculation its transaction ends in |
| `CheckAssignment`, `StoreSubmission`, `RecalculateUserProgress` | the three separate calls of `handleSubmitAssignment` |
| `BreakOff` | that request's context is cancelled between two of them |
| `SubscriptionBought`, `SubscriptionGiven`, `SubscriptionEnds` | what an approval, a gift or bonus, and a deadline or sweep do to `active` |
| `SetUserAccessState` | an admin blocks or unblocks |
| `UpsertLevel`, `UpsertLesson`, `CreateTest`, `UpdateTest`, `Delete...` | the admin's edits; deleting archives |
| `seedLevels` | what every start does to the levels |
| `CreateBroadcast`, `ClaimQueuedBroadcast`, `ReadRecipients`, `RecipientsUnread`, `SendMessage`, `RecordBroadcastMessage`, `FinishBroadcast`, `GiveUp` | the steps of `runBroadcastJob` between two calls to the database or Telegram |
| `Stop`, `Exit`, `Start` | a signal cancels the context, the process is gone, one is started |
| `Begin`, `TakeUp` (`Skip`, `Take`, `Miss`), `SendMessage`, `NextReminder`, `End` | a reminder job looks who is due, sets a key, sends, goes on |
| `AskInvite`, `LookUpInvite`, `CreateInviteLink`, `LinkRefused`, `RecordInvite` | the steps of the three invite handlers and of `handleAdminIssueInvite` |
| `Join` | a user follows a link |
| `BuySubscription`, `GrantCourse`, `Revoke` | a purchase adds days to a subscription; a payment's or an admin's grant replaces access to a course; an admin ends it |
| `BlockUser`, `ListDestinations`, `CloseAccess`, `RemoveChatMember`, `BlockEnds` | the steps of a block; `adminUserTelegramDestinations` is three steps, one for each of its lists |
| `UnblockUser`, `ListDestinations`, `InviteBack`, `TellUser` | the steps of an unblock |
| `ExpireTelegramInvites` | the sweep of old invite rows |
| `Poll`, `TakeMessage`, `Reply`, `SaveDiagnostics` | `getUpdates`; `handleUpdate` with registration, then its answer or the saved questionnaire |
| `OpenMiniApp` | `withMiniAppAuth`, which registers the user on each call |
| `BeginRequest`, `LoadLegalDocumentMeta`, `LegalDocument`, `AcceptLegalAgreement`, `HasAcceptedLatestLegalAgreement`, `CreatePayment` | a request about the agreement: first file, second file, then what it was for |
| `DropTable`, `CreateTable`, `LookForColumn`, `AddColumn`, `LookAtShape`, `RenameTable`, `CreateNew`, `CopyRows`, `DropOld`, `Commit`, `LookForDuplicates`, `CreateIndex`, `Seed` | the statements of `Migrate` and `Seed`, one by one |
| `RequestCutOff`, `DeskCutOff`, `CutOff`, `BreakOff`, `Crash`, `Stop` | a request or process ends between two steps |

## How the models abstract the code

- **A transaction is one step.** The store opens SQLite with one connection, so
  no two transactions overlap. One that fails is rolled back and is the absence
  of a step; `PaymentDesk`, where a failure has consequences, has steps for it
  (`DropUpload`, the third case of `DecideApproval`).
- **Time.** A deadline is written by Go as text with a fraction of a second and
  compared as text with `CURRENT_TIMESTAMP`, which has none: a deadline within
  the current second counts as future. `Past(t)` is therefore `t < clock`. A day
  is one tick in the TLC instances and any number of ticks in the theorems.
- **Newest row.** `created_at` has whole seconds and no tie-breaker, so of the
  rows of one second any may be returned: `Newest` is a set and its users choose
  from it.
- **Ids** are random UUIDs in the program, naturals here; nothing depends on
  their order except through the time of creation.
- **Receipts.** `Text` says what the regular expressions find in a PDF. The
  identity of a receipt is its check number, or the first of its transaction id
  and reference; file and text hashes are left out, because the duplicate
  look-up does not use them and their unique indexes are dropped at start-up.
- **Prices** are constant and every product is on sale. The legal agreement and
  phone number that creating a payment asks for are left out.
- **The inviter** of a user is written once, at registration, and never changes:
  `Inviter` is a constant.
- **Messages** are attempts: what is handed to Telegram. Messages to admins are
  left out.
- **`dateOnly`** receipts are compared by calendar day in the server's zone; the
  models let a day be `DayLength` ticks from 0, a server in UTC.
- **Lessons** are naturals whose order is that of `sort_order`. Reordering them,
  and the ordinal number an edit may change, are left out.
- **Tests.** Whether the answers suffice is a Boolean input: the properties ask
  which test they count for. A saved test has new questions with new ids; the
  model stamps it with an `edition`, and answers to an older edition match no
  question. That is what comparing question ids comes to (progress.go:387): a saved
  test has at least one question, a pass mark of 1 to 100 per cent, and a new id for
  every question (admin.go:359-454), so that answers to others give 0 per cent and fail. A failed attempt writes a row nothing decides by.
- **Assignments** are written by the seed alone: `Assigned` is a constant. Their
  review changes a status that no level depends on.
- **The catalogue at the start** is a constant. `seedLevels` is what a later start
  does to it; a level that was given another number, which the seed would add
  anew, and the demo content behind an environment variable are left out.
- **Broadcasts.** The bot is enabled. Calls to the database fail when the context
  is cancelled and otherwise only at the query for the recipients; who has a
  subscription when that query runs is arbitrary. That the row of a recipient cannot be
  written in a process that goes on, which the job ignores, is left out: it makes the
  numbers of the list too small (see the findings).
- **Reminders.** A tick is a minute, and tickers fire on it: that a busy ticker
  drops ticks is left out. The three jobs share nothing but the clock and the
  process, so a behaviour follows one of them (`Followed`).
- **Invites.** A destination asks for a subscription or a course; the level or the
  rank of a tariff it may ask for beside is left out. Telegram may refuse any call,
  never lies, and a link is used once. The levels of a user and the row of each level
  are read in one step. A list of destinations may be lost to an error as a whole, and so
  may one destination of it, whose check or row fails without a word. Access without an
  end is one that ends after the clock has stopped.
- **Telegram** keeps updates until they are confirmed; that it drops those older than 24
  hours is left out.
- **Comments** of payments are told apart by the verdict they stand for. The program goes
  by a prefix (payments.go:225), which a comment an admin writes could have as well.
- **The agreement.** A version is the hash of two files; the model has the pair of
  their revisions. A user has one such request at a time.
- **Migration.** One column stands for each group of columns added alike, one of two
  indexes for both. What a rebuild asks of the old table's shape (its text and its
  columns, database.go:436 and :442) is one step; a rebuild by another process between the
  two reads is left out. `Stop` is a crash, a statement that fails and a wait of more
  than `busy_timeout` alike: each ends the start.

## Runs

Every run's constants are in its `.cfg`. The bounds are those of the id sets
(`PaymentIds`, `ReceiptIds`, `SubscriptionIds`, `Requests`), of the clock
(`MaxTime`), of gifts (`MaxGifts`) and of edits (`MaxEdits`). Where there is a
clock, deadlock is not checked: the bounded clock stops, and users may do
nothing. `learning` has no clock and checks it.

| run | what it asks | bounds, and why they suffice |
|---|---|---|
| `parser` | Is every small receipt judged as a customer and an admin expect? | All combinations of three numbers, currencies, two BINs, marker, dates before and after creation, identities. One number is the price, one within the tolerance, one far off |
| `receipts` | Does a transaction pay once, is approval final, do receipts and payments stay in step, do the tables implement `PaymentLedger`? | Two users, two payments, three receipts of four kinds, two ticks: enough for two uploads of one transaction to wait together, be approved by hand or on the spot, rejected, and to lapse |
| `shop` | Do referral rows, coins, rewards and subscriptions follow the approved payments? | One inviter, two friends (interchangeable, hence the symmetry), a tariff and a course, three payments: the thresholds 1 and 2 stand for 1 and 3, so both are reached and a renewal happens after each. An unpaid order lapses in a tick (`PaymentTTL` 0), as in `desk`; the other runs have it live longer |
| `terms` | Has an approved payment delivered? Does a second click open a second payment? Do sweeps take what is valid or leave what lapsed? | One user, a tariff, a course sold until tick 1, admin grants, revocations, a gift, three ticks: everything that can lapse does, with time left for the sweep |
| `desk` | Do files match receipts, messages and audit records follow approvals, and the tables move as `Payments` says, whatever the handlers' steps interleave with? | One payment, for a tariff or for a course sold until tick 1, three requests of every kind, one interruption: two racing decisions and an upload; approvals that the course's date makes fail, by hand or inside an upload. An order lapses in a tick, so that one looked at by a handler has lapsed by its transaction |
| `learning` | Are levels earned, opened as soon as they are due, and never stuck; are coins paid once and percentages true, whatever admins edit and starts write meanwhile; does whoever keeps learning get on? | One user: users share nothing but the catalogue. Three levels (`LastLevel`), two rows for them, three lessons, three tests, two edits. One edit moves a watched lesson, so that two levels are finished at once; a second renumbers a level, so that the last one can be finished; two replace a test twice under an open page |
| `broadcast` | Is nobody sent a broadcast twice, is what the list says true, does each broadcast end, and is `Mailing` implemented? | Two users, two broadcasts with different audiences, two processes, one stop or crash: two claims meet, and a job is cut short at any step while the other process goes on. Two creation times, so that the two may be of one second |
| `reminders` | Is nobody reminded twice, and is nothing lost but by a fault? | Two users, one stream, four ticks, one change, two faults, either store: a key outlives the process in one store only, and a second fault can follow a restart |
| `invites` | Do links lead where they should and end when they should; is who is blocked out? | One user with one tab beside the admin's desk (two users share no row, link or ban), a level, a course and a channel over two chats, two links, two invite rows, two changes, one fault: a link may be given again, a chat be reached by two destinations, and one of them moved while a block is under way. A link lives two ticks; the course is held until tick 2 and may be granted anew until tick 1, for three ticks, or for good, so that a purchase shortens it under a link that is out. The one fault loses a list or a destination of it, a call to Telegram, a row or a request |
| `accounts` | Is an inviter settled once, are the questionnaire's answers the user's, is every message handled; has who pays seen the terms? | Two people who may invite each other, two questions, four messages, one crash, one failed call; or one of them reads, accepts and pays while each file is replaced once |
| `migration` | Is no row lost, is what is served whole, is no database left that a start cannot mend? | Two processes, four kinds of database, two payments and two receipts with one key, two stops: a start is cut off, and so is its repetition |

Distinct states: `parser` 248,832, `receipts` 420,645, `shop` 286,494, `terms`
315,097, `desk` 123,753, `learning` 254,172, `broadcast` 441,588, `reminders`
8,582,162, `invites` 2,276,114, `accounts` 1,121,543, `migration` 448,657.

`reward_days` shows that the code does not do what a document says; see
[Findings](#findings).

**Fairness.** `FairSpec` assumes that time passes and that each sweep of the
minute job, once there is something for it, eventually runs: `StartSchedulers`
starts a ticker that runs `runMinuteJobs` for as long as the process lives, and
that function goes on to the next sweep when one fails. Nothing is assumed of
users and admins. `FairDeskSpec` assumes that a handler that has started takes
its next step; nothing makes a client send a request, and a crash or disconnect
may end one. `Broadcast!FairSpec` assumes that in each process the next step of
the broadcast job is taken while it can be, since its ticker runs for as long as
the process does; that anybody starts a process again is not assumed
(docker-compose.yml has no restart policy), so `AnnouncementEnds` excuses the case
that none works. `DiligentSpec` is not about scheduling: it says what `StudyLeadsOn`
means by a user who keeps learning, who watches the lessons of his level, keeps opening
the test he is given, and each so often answers it right before he opens another. The
other properties of `learning` are safety properties, which no fairness helps. `BotFairness` is the same for the polling loop, and `Migration`
assumes that a process that has begun to migrate goes on. `Reminders` and
`Invites` have safety properties alone.

## Findings

Shown by a run that finds the property violated:

- `reward_days`. PROJECT_FULL_FUNCTIONALITY_RU.txt:799 promises seven days for one
  paid friend. The reward rows of a referral are inserted once, but the days
  are added on *every* approval of any invited user's payment while the count is
  at or above the threshold (payments.go:522): a friend who renews each month
  gives the inviter seven days each month.

Met while modelling, without a run (the document is
PROJECT_FULL_FUNCTIONALITY_RU.txt):

- The document, line 724, has the latest receipt approved. Approval marks the one
  `ORDER BY created_at DESC LIMIT 1` returns (payments.go:361); of two receipts of
  one second the other one may be marked.
- Line 693 counts a repeated QR code among the duplicates. Receipts without a
  number are recognised by their QR payload at upload only and only against
  approved receipts; two that wait for review can both be approved
  (payments.go:294), and no index covers `qr_payload_hash`.
- http_test.go:1413 expects one message for an approval repeated. Whether the
  customer is told is decided by a read before the transaction (admin_http.go:508):
  two concurrent approvals both tell and both write an audit record.
- Lines 662-666 have every uploaded receipt stored. When the automatic approval of
  a flawless receipt fails, as for a course whose fixed date has passed, the row is
  rolled back and the handler deletes the file (receipts.go:384).
- Lines 464 and 501 ask for lessons watched and tests passed before a level opens,
  and the page announces it as ready (progress.go:162). For a level without active
  lessons whose tests are passed the page says ready and nothing opens.
- Lines 133 and 1082 have users reminded before a subscription ends. The job runs
  once a day and looks at two hours around the lead time: ends outside these two
  hours are not announced.
- Line 968 has a level's link end with the subscription; one given with an unblock
  lives 24 hours, however soon the subscription ends (admin_http.go:289).
- Every start writes the twelve seeded levels live again with their seeded titles
  (database.go:818): a level an admin archived or renamed is back. `seedTariffs`
  likewise overwrites a price that equals a former seed price.
- A stream's reminder is due in a window of one minute that a ticker of one minute
  looks at (scheduler.go:190); a late tick misses it. A stream moved within 48
  hours gets no second reminder, since its key does not name the start; and an
  audience of more than 1000 is cut off at 1000.
- When one of the three lists of a user's chats cannot be read, a block goes on with the
  others and warns the admin (admin_http.go:199, :222, :250): access is closed and the user
  stays in the chats of that list, which a repeated block no longer finds. A destination
  whose own check or row fails is left out without a warning (admin.go:686, admin_http.go:209,
  premium_courses.go:473).
- A payment for a course replaces access an admin granted for longer
  (premium_courses.go:361); a link given for the longer one can still be used.
- That the row of a broadcast's recipient could not be written is ignored
  (scheduler.go:51, :54), so that a completed broadcast may show fewer rows than it has
  recipients.
- Links that were given out and not used survive a block; `unbanChatMember` may fail
  after the ban and leave the user banned (telegram.go:127); nobody takes users
  whose subscription has ended out of the chats; a link given again may have been
  used already, since the database does not know.
- A second process that rebuilds `tests` from what it read before the first one had
  done so clears what was linked in between (database.go:446); the unique indexes
  are left out without a word when approved receipts already share a key
  (database.go:391); `user_legal_agreements` is not among the tables a reset drops.

- README.md:119 says final approval is manual; a flawless receipt is approved by
  the upload (receipts.go:382).
- PROJECT_FULL_FUNCTIONALITY_RU.txt:716 says only a pending or uploaded payment
  is approved; an automatically rejected or expired one with a receipt is, too.
- The same document, line 692, allows a receipt to be 24 hours older than its
  payment; the code allows 15 minutes (receipts.go:20).
- The same document, line 1241, says admin actions are recorded; the record of a
  review follows its transaction with the request's context and its error
  ignored, so a disconnect or a crash loses it (admin_http.go:521).
- telegram.go:606 answers `ErrAmbiguousPayment`, which nothing returns:
  `hasAmbiguousPendingPaymentTypes` has no caller.
- store_test.go:213 repeats a passed submission and expects it to pass again. It
  does while a level has one test; with several, the repeated answers are graded
  against the next one and the page shows a failure (progress.go:466). The pass
  itself stays.
- At level 12 `Completed` asks for the test alone, at every other level for the
  lessons as well (progress.go:153).
- A level of 199 lessons or more is shown at 100 % with one of them missing: the
  percentage is rounded to the nearest (progress.go:145).

## Proofs

`PaymentsProofs` proves `Spec => []TypeOK` for every value of the constants that
the named assumptions of the modules allow. The assumptions are about types
(ids are positive naturals, prices and terms are numbers) and about names
(tariffs are not courses, nobody invites himself). The proof has one lemma for
each operator that builds a table and one for each operation.

Its second part proves `KeySpentOnce`, `ApprovedReceiptBacked`,
`ReceiptStopsExpiry` and `ApprovalIsFinal`. None of the three invariants is
inductive. An approval by the upload, for instance, does not ask whether the
receipt it marks was a duplicate, and the receipt it marks may be another one
than the one uploaded, of the same second: that this one is no duplicate follows
only because uploading a duplicate refuses the payment, so that a payment that
waits has none. The inductive invariant is

    Inv == TypeOK /\ Sound(payments, receipts)

where `Sound` adds to the three that a receipt names a stored payment (`Belong`)
and that a payment in review has no receipt flagged as a duplicate (`Unflagged`).
`Sound` is an operator on two tables because an upload writes both and then
approves within one transaction: `StoreSound` shows that the tables it has
written are sound, `ApproveSound` that approving from sound tables leads to sound
tables, and `AttachSound` puts the two together. `ApprovalStays` follows from
`Inv` alone: an approved payment is not open, rejectable or expirable, and the
receipts of other payments are all a step on another payment touches.

The third part proves that `Payments` implements `PaymentLedger`, under the mapping
of a payment to its `Stage` and of the approved receipts to the keys they spend
(`Spent`). Each operation is shown to move at most one payment, in a way the ledger
allows, or to expire several, and to spend at most one key, for the payment it
approves. `Inv` gives what the ledger asks: a key that is spent was not spent before
(approving asks for that, and a payment not yet approved has no marked receipt),
and a payment that expires has no receipt, so that none closed by time is approved
after all.

The fourth part proves what customers and inviters are promised. Its
`StepKinds` sorts the steps: a step approves one payment and grants what it buys
and earns, or leaves approvals, referrals and levels alone and lets subscriptions
grow by a gift at most. From that, the invariant

    Promises == Inv /\ OneOpenPending /\ ApprovedDelivers /\ AccessIsEarned
                /\ RewardsFollowPayments /\ IsFiniteSet(paidReferrals)
                /\ LastExists(subscriptions)

is preserved. `LastExists`, that the current subscriptions of a user have a last end,
is a part of it because that a finite set has a maximum is an induction: a new
subscription or a longer one is the last or leaves the last one. `RewardsFollowPayments` needs that approving
a payment never lowers a count of paid friends and moves nobody's but the inviter's
(`CountMoves`), so that only his rows are due, and those he has stay due. From `Promises`
follow two action properties: `DaysAreAdded`, a purchase moves the end of the buyer's
access by exactly the days sold and nobody else's; `SweepsOnlyMark`, the minute job
takes nothing that has not run out.

Two more theorems of this part join `Payments` to the text of receipts, for any documents and
texts. `UnreviewedApprovalsAreProved`: a payment approved without an admin has a
receipt of its own that was read, shows the price of its product within the
configured tolerance, an allowed recipient and no time earlier than the 15 minutes
the code allows before the payment's creation, and can be recognised when it is sent
again. `AutomaticRefusalsAreGrounded`: a payment refused without an admin has a receipt of its own that was read and contradicts it,
or whose number is that of another approved payment. They say of every history
what the run `parser` says of one judgement. The invariant is

    WellJudged == Inv /\ Judged(r) for each receipt r /\ Grounded for each payment

`Judged` holds the codes of a stored row to the text and to the payment's price and
creation, neither of which changes; a duplicate remains one since approvals are
final. `Grounded` gives each decision without an admin the receipt it was
taken on. The theorems say "a receipt of its own" and not "the one marked approved":
of two receipts of one second another may be marked, as the findings say.

The last part proves `ImplementsPayments`, `DeskInv` and `ToldTheTruth` of
`PaymentDesk`, for any number of requests, from

    DeskSound == Inv /\ DeskTypeOK /\ FilesAccounted /\ VerdictsStand /\ ToldTheTruth

`FilesAccounted` ties each file to a row of the receipts or to a request that has
saved it and not yet stored it, unless the process stopped in between. `VerdictsStand`
says that a request which is about to tell of an approval tells of one that stands:
what was read before the transaction may be stale, but an approval is final once the
transaction has it. With `HandlersImplementPayments` every theorem about `Payments`
holds of the handlers, whatever their steps interleave with.

`ReceiptVerdictProofs` proves both properties of `parser` for one judgement, whatever
a receipt says and whatever prices, recipients and tolerances are configured.
`CleanReceiptsPay` needs a fact about dates: a receipt without a time counts as paid
at midnight and is compared by day, one with a time may be 15 minutes early, so that
either is less than a day too early. `RefusalsHaveReasons` shows that a text with the
price, tenge and an allowed recipient has no hard code, whatever else it shows, and
that whatever code refuses a payment (receipts.go:197) is also one that the comment
names (receipts.go:221). The invariant, `VerdictInv`, says that a stored verdict is the
one the text and the look-up give. Assumed are a positive price, times that are
naturals, and a slack of less than a day.

`ProgressProofs` proves every safety property of `learning`, for any catalogue, any number of levels, lessons, tests
and users and any number of edits. `LearningTypes` carries with the types that
what a user has watched, passed or handed in is still in its table, and
`HandInRefers` that an assignment on its way is; `DeleteLevel` and its like
archive, so that rows never go. `TypeInv` is the two together. The coins need

    CoinInv == TypeInv /\ IndexIsLearning /\ CoinsMatchLearning

where `IndexIsLearning` says that the unique index holds exactly the lessons
watched and the tests passed. Without it `CoinsMatchLearning` is not inductive:
the step would not know whether the index holds an award back. The two properties of
level changes follow from a lemma
about `Recalculated`: it is the least level from the present one on that does not
unlock the next.

`PageIsTrue` proves `ProgressPageIsTrue` while no level has more than 197 lessons
(`FewLessons`). The bound is the code's: a level has at most two units beside its
lessons, and from 200 units on `math.Round` (progress.go:145) turns one that is missing
into 100 %. That level numbers are distinct (`NumbersDistinct`, the UNIQUE of
schema.go:251, kept by every edit and by the seed) is what gives a level one assignment
at most; the rest are cardinalities of finite sets: a part as large as the whole is the
whole.

`BroadcastProofs` proves `BroadcastSafe` and that `Broadcast` implements `Mailing`,
for any number of users, broadcasts, processes, stops and crashes, from

    Inv == BroadcastTypeOK /\ JobsOwn /\ Unsent /\ AtMostOnce

`JobsOwn` says that a job's broadcast is in `processing` and has no other job, and
`Unsent` that whoever a job has still to send to, or a queued broadcast has before
it, was sent nothing. Claiming needs the first to keep the second: a broadcast in
the queue has no job. For `MailingImplemented` each action is mapped to the step of
`Mailing` it is, or to a stutter; `Inv` gives the guard of `Try`.

`ReportsAreTrue` adds `Books`, which follows a broadcast's rows, its audience and its
job's progress: while a job is not cut short the rows are those of the users it has
handled, one each, and while it has met no failure each of these was sent to exactly
once and its row says so. That the rows are as many as the audience, which makes the
numbers add up, is shown by a bijection between the rows and their users.

`RemindersProofs` proves both properties of `reminders`. `NoneLostQuietly` is
unconditional: where a key is, its reminder was sent, is being sent, or a fault took it
(`KeysAccount`), and a run that ends has gone through its list (`ListsAccount`).
`RemindersSafe` is proved from a budget:

    Owed(r, u) == SentTo(r, u) + (IF InFlight(r, u) THEN 1 ELSE 0)

is at most the number of times keys were forgotten, and one more while the reminder's
key is there or its time is over (`Guarded`). Streams need no more, since their window
is over before a key can run out (`StreamRemindersOnce`, unconditional). The Zoom and
subscription jobs do: a process that hangs between its list and a user for longer than keys live
would come to the user with the key gone. `RemindedOnce` therefore assumes

    []Prompt({"zoom", "ending"})

that a run comes to a reminder within `Delay` of a time it could be found, for some
`Delay` with a day, the spread of the lead time and `Delay` together no longer than the
key's life. In the program keys live seven days and a reminder can be found for a day,
or for a day and two hours, so only a run of more than five days over one list is
excluded. There is no horizon: the theorem holds for any `MaxTime`.
In the run `reminders` every behaviour satisfies the hypothesis with `Delay` 3, so there
`RemindersSafe` holds without it.

`AccountsProofs` proves `TermsSeenBeforePaying` and `RegistryInv`. The first needs
that revisions only grow: a page that shows a version shows a content no older than
the file was then, a request that has read a version lies between the files when it
was asked and now, and an accepted version was seen (`LegalInv`). That a version
compared equal twice was the same all along is what makes two reads of two files
safe. The second needs that users are numbered as they come (`Numbered`, by
cardinalities of finite sets), so that an inviter, who is registered already, has
the smaller number; `BotOK` carries the shape of the polling loop, which the types
of the other variables rest on.

`QuestionnairesFit` proves `AnswersFitQuestions`: a saved questionnaire holds one answer
of its user to each question; while the process has not crashed they are in the order
they were sent, and no answer serves twice unless a call to the store failed. Its invariant (`QuestionsInv`)
speaks of lists of messages: the list in the dialogue, the one about to be saved and
those saved are the user's (`Own`), among the messages handled in this life (`Among`),
in their order (`Ordered`) and pairwise disjoint (`Apart`). A message is handled once in
each life of the process, since the messages at hand lie beyond those handled
(`HandledOnce`, `BatchRises`); `TakenOncePerLife` says so: a message is handled at most
once more than there were crashes, which is the safe half of
`EveryMessageHandledOnce`.

`InvitesProofs` proves all three properties of `invites`. `LinksLeadThere` rests on
`LinksAgree`: rows, requests, the desk and what users hold name links as Telegram
has them, and Telegram does not forget. `LinksEndWithAccess` rests on `CoverInv`: a
link of the app, and the end a request has computed for it, lies before the end of
the right it was asked for unless that was ended early or replaced by a shorter one. It
is not inductive without a bound on the link's life, a day: a grant that shortens access
to a time after that leaves the link covered, and only one that ends within the day has
to be excused. `BlockedStaysOut` rests on `Reached`: each chat of the user being blocked
is on his list, or in a list still to be read, or excused. A list that is read moves what
was to be found in it to the user's list (`ListReaches`) or, where it fails, to the excuses; what
happens between two lists moves nothing out of sight that is not excused (`SightReaches`);
and what is granted meanwhile adds only to what is to be found (`BuyReaches`). Who is
blocked already is found in no list (`ClosedFindsNone`), so that blocking him again
excuses every chat. Access without an end is beyond the clock's horizon, hence
`clock <= MaxTime` in the invariant; the theorem holds for any `MaxTime`.

`MigrationProofs` proves the safety of start-up, for any number of processes and stops,
any rows and any database the assumption allows. `MigrationInv` is far from inductive:
it says nothing of what a process in the middle of the list may rely on. The invariant
is

    Inv == Basics /\ deadEnds = {} /\ (~overtaken => Orderly)

`Basics` holds unconditionally: the types, that a process inside a transaction is the
one with the lock and that `draft` is what its statements have made of the tables
(`DraftInv`), and that nobody migrates beside a process counted as alone. `Orderly`
holds until a process goes by what it had read before another one's migration. It says
that ids are of one kind (`OneKindOfIds`), that a process at the i-th step finds done
what the steps before it do, whoever did it and whoever was cut short (`Progressed`),
what a process relies on in the middle of a step (`Halfway`), and what one that is alone
relies on besides (`Undisturbed`): the column it is about to add is missing, the table
it is about to rename is old. The last is why its statements cannot fail, which
`NoDeadEnds` states. `DatabasesAssumption` says what a first start may find: users are
created first and dropped last, the tables of a database have ids of one kind, and no
test refers to a lesson before there is a column for it.

The exception in `MigrationInv` is real, since nothing in `Migrate` holds a lock from
the look to the statement. Two theorems say how far it goes. `OnlyBesideOthers`: a
process overtakes only while it is not the only one that migrates. And

    OneAtATimeKeepsEverything == Spec /\ []OneAtATime => []KeepsEverything

says that where processes migrate one after the other, as with one container, no row is
lost and what is served is whole without exception, however often starts stop.

Only model-checked: liveness (`SweepsAreExact`, `CustomerHears`, `AnnouncementEnds`,
`StudyLeadsOn`, `StartsSucceed`, and that every message is handled at all in
`EveryMessageHandledOnce`) and everything under fairness, which is out of the prover's
reach. What is safety in these is proved beside them (`SweepsOnlyMark`, `NoDeadEnds`,
`TakenOncePerLife`). Every invariant and every action property of a passing run is
stated by a theorem; two of these theorems have a hypothesis, `RemindedOnce` and
`PageIsTrue`. No proof is by induction over data, and no module reached by one has a
RECURSIVE operator.

## What is not modelled

PROJECT.json lists every component. Left out for good: editing of books, free
lessons and tariffs (single rows without interaction), the order of lessons, the
financial questionnaire, the review of submissions (no level depends on it),
configuration, logging, translations, menus and the browser code; the check of
Telegram's signature and browser sessions. Simplified: the audiences of broadcasts,
what a destination asks for, the columns of a migration (see above). Support
messages, which are saved before the admins are told and therefore sent again when
that fails, the coins an admin gives with a bonus, and `POST /api/diagnostics`, a second
way to write the questionnaire with whatever answers it is sent (api.go:54), are not
modelled yet.

## Plan

1. `Progress`, `Invites` and `Reminders` over the subscriptions of `Payments` in
   place of their own reduction of it.
2. The coins of a bonus and support messages in `PaymentDesk` and `Bot`: writes of
   several statements whose later ones may fail.
3. Ticks late by parts of a minute in `Reminders`.
4. Proofs: what an admin is left to see of two waiting receipts without a number that
   may be one; what users who register during a broadcast miss of it.

The suite of runs is kept small enough to be run on every change. New components
join existing runs where they share state; the runs of findings make room when a
finding is settled.
