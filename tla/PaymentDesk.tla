---------------------------- MODULE PaymentDesk ----------------------------
(***************************************************************************)
(* The handlers around Payments (internal/handler/api.go, admin_http.go,   *)
(* telegram.go).  A handler reads a payment or saves a file first, runs    *)
(* its transaction next, and sends messages and writes the audit record    *)
(* last; other handlers, the expiry job and a crash of the process come in *)
(* between.                                                                *)
(***************************************************************************)
EXTENDS Payments, Sequences, Functions

CONSTANT Requests   \* bound: requests and chat messages handled

VARIABLES
    requests,   \* how far each request has come, and what it remembers
    files,      \* requests whose receipt file is on disk
    evidence,   \* the request whose file a receipt names (file_path)
    told,       \* per payment, the verdicts its customer was sent
    audits,     \* admin_actions: <<action, payment>>
    interrupted \* what went wrong; bound: one thing

deskVars == <<requests, files, evidence, told, audits, interrupted>>

Verdicts == {"approved", "refused"}
Channels == {"http", "chat"}
Actions == {"payment_approve", "payment_reject", "payment_auto_approve", "payment_auto_reject"}

New == [stage |-> "new"]
Done == [stage |-> "done"]

Request ==
    {New, Done}
        \cup [stage : {"received"}, via : Channels, user : Users, payment : PaymentIds \cup {0}, doc : Docs]
        \cup [stage : {"read"}, payment : PaymentIds, days : ReviewDays, approved : BOOLEAN]
        \cup [stage : {"answer"}, via : Channels, payment : PaymentIds, verdict : Verdicts,
              action : Actions \cup {"none"}]

DeskTypeOK ==
    /\ TypeOK
    /\ requests \in [Requests -> Request]
    /\ files \subseteq Requests
    /\ evidence \in [DOMAIN receipts -> Requests]
    /\ DOMAIN told = PaymentIds /\ \A p \in PaymentIds : told[p] \in Seq(Verdicts)
    /\ audits \subseteq Actions \X PaymentIds
    /\ interrupted \in {"no", "client", "process"}

DeskInit ==
    /\ Init
    /\ requests = [k \in Requests |-> New]
    /\ files = {}
    /\ evidence = EmptyTable
    /\ told = [p \in PaymentIds |-> <<>>]
    /\ audits = {}
    /\ interrupted = "no"

-----------------------------------------------------------------------------
(***************************************************************************)
(* Uploads.                                                                *)
(***************************************************************************)

\* POST /api/payments/{id}/receipt: a first look at the payment, then the file.
ReceiveInApp(k, u, p, d) ==
    /\ requests[k] = New
    /\ p \in DOMAIN payments
    /\ payments[p].user = u
    /\ ~Past(payments[p].expires)
    /\ payments[p].status \in {"pending", "uploaded_receipt", "approved"}
    /\ requests' = [requests EXCEPT
                       ![k] = [stage |-> "received", via |-> "http",
                               user |-> u, payment |-> p, doc |-> d]]
    /\ files' = files \cup {k}
    /\ UNCHANGED <<vars, evidence, told, audits, interrupted>>

\* A document sent to the bot: it is downloaded before anything is looked up.
ReceiveInChat(k, u, d) ==
    /\ requests[k] = New
    /\ requests' = [requests EXCEPT
                       ![k] = [stage |-> "received", via |-> "chat",
                               user |-> u, payment |-> 0, doc |-> d]]
    /\ files' = files \cup {k}
    /\ UNCHANGED <<vars, evidence, told, audits, interrupted>>

\* Mutant: the payment seen before the transaction is the one.
ChosenEarly(k) ==
    IF requests[k].payment = 0
    THEN Newest(payments, Open(requests[k].user))
    ELSE {requests[k].payment}

\* The payments the transaction may attach the receipt to.
Chosen(k) ==
    IF requests[k].payment = 0
    THEN Newest(payments, Open(requests[k].user))
    ELSE Open(requests[k].user) \cap {requests[k].payment}

\* Access to the course p pays for can no longer be sold.
TermOver(p) ==
    payments[p].product \in Courses /\ TermEnds(DefaultTerm[payments[p].product]) = {}

\* The receipt is flawless and its payment cannot be approved all the same, so
\* that attachReceipt's transaction is rolled back.
ApprovalFails(d, p) ==
    LET row == ReceiptFor(d, p)
    IN  /\ row.status = "valid_candidate"
        /\ \/ TermOver(p)
           \/ \E i \in NextId(ReceiptIds, receipts) :
                  LET rs == Insert(receipts, i, row)
                  IN  \E r \in LatestReceipt(rs, p) : ~Approvable(Moved(p, row), rs, p, r, FALSE)

Answer(via, p, verdict, action) ==
    [stage |-> "answer", via |-> via, payment |-> p, verdict |-> verdict, action |-> action]

\* What is left to do when the transaction has moved p.  A customer whose
\* receipt waits for review gets no verdict.
AfterUpload(via, p) ==
    CASE payments'[p].status = "approved" -> Answer(via, p, "approved", "none")
      [] payments'[p].status = "rejected" -> Answer(via, p, "refused", "none")
      [] OTHER -> Done

SystemAudit(p) ==
    CASE payments'[p].status = "approved" -> {<<"payment_auto_approve", p>>}
      [] payments'[p].status = "rejected" -> {<<"payment_auto_reject", p>>}
      [] OTHER -> {}

\* The transaction stores the receipt and the audit record of what it decided.
StoreUpload(k) ==
    /\ requests[k].stage = "received"
    /\ \E p \in Chosen(k) :
           /\ AttachReceipt(requests[k].doc, p)
           /\ requests' = [requests EXCEPT ![k] = AfterUpload(requests[k].via, p)]
           /\ audits' = audits \cup SystemAudit(p)
    /\ evidence' = [r \in DOMAIN receipts' |-> IF r \in DOMAIN receipts THEN evidence[r] ELSE k]
    /\ UNCHANGED <<files, told, interrupted>>

\* Mutant: the file of a transaction that failed is left behind.
KeepFile(k) == files

RemoveFile(k) == files \ {k}

\* No payment takes the receipt, or its approval fails: the file is removed and
\* nothing is stored.
DropUpload(k) ==
    /\ requests[k].stage = "received"
    /\ Chosen(k) = {} \/ \E p \in Chosen(k) : ApprovalFails(requests[k].doc, p)
    /\ files' = RemoveFile(k)
    /\ requests' = [requests EXCEPT ![k] = Done]
    /\ UNCHANGED <<vars, evidence, told, audits, interrupted>>

-----------------------------------------------------------------------------
(***************************************************************************)
(* Reviews.                                                                *)
(***************************************************************************)

\* POST /api/admin/payments/{id}/approve: "before" is read outside the
\* transaction, and decides whether there will be something to tell.
ReadForApproval(k, p, days) ==
    /\ requests[k] = New
    /\ p \in DOMAIN payments
    /\ requests' = [requests EXCEPT
                       ![k] = [stage |-> "read", payment |-> p, days |-> days,
                               approved |-> payments[p].status = "approved"]]
    /\ UNCHANGED <<vars, files, evidence, told, audits, interrupted>>

\* Mutant: only the request that finds the payment approved tells the customer.
AfterApprovalSwapped(k) ==
    IF requests[k].approved
    THEN Answer("http", requests[k].payment, "approved", "payment_approve")
    ELSE Done

\* What is left to do after an approval, this request's or an earlier one.  The
\* record of a course's approval goes by another name.
AfterApproval(k) ==
    IF requests[k].approved THEN Done
    ELSE Answer("http", requests[k].payment, "approved", "payment_approve")

Undecidable(p) ==
    \/ TermOver(p) /\ payments[p].status # "approved"
    \/ \E r \in LatestReceipt(receipts, p) : ~Approvable(payments, receipts, p, r, TRUE)

\* Mutant: a refused approval is reported like any other.
FailedLikeOthers(k) == AfterApproval(k)

AfterFailure(k) == Done

DecideApproval(k) ==
    /\ requests[k].stage = "read"
    /\ LET p == requests[k].payment
       IN  \/ /\ ApprovePayment(p, requests[k].days)
              /\ requests' = [requests EXCEPT ![k] = AfterApproval(k)]
           \/ /\ Approved(p)
              /\ requests' = [requests EXCEPT ![k] = AfterApproval(k)]
              /\ UNCHANGED vars
           \/ /\ ~Approved(p)
              /\ Undecidable(p)
              /\ requests' = [requests EXCEPT ![k] = AfterFailure(k)]
              /\ UNCHANGED vars
    /\ UNCHANGED <<files, evidence, told, audits, interrupted>>

\* POST /api/admin/payments/{id}/reject.
DecideRejection(k, p) ==
    /\ requests[k] = New
    /\ RejectPayment(p)
    /\ requests' = [requests EXCEPT
                       ![k] = Answer("http", p, "refused", "payment_reject")]
    /\ UNCHANGED <<files, evidence, told, audits, interrupted>>

\* After the transaction: the audit record, then the message.
Follow(k) ==
    /\ requests[k].stage = "answer"
    /\ LET p == requests[k].payment
       IN  /\ audits' = IF requests[k].action = "none" THEN audits
                        ELSE audits \cup {<<requests[k].action, p>>}
           /\ told' = [told EXCEPT ![p] = Append(@, requests[k].verdict)]
    /\ requests' = [requests EXCEPT ![k] = Done]
    /\ UNCHANGED <<vars, files, evidence, interrupted>>

-----------------------------------------------------------------------------

\* The client of a request goes away: its context is cancelled, a transaction
\* that has not begun fails, and neither record nor message follows one that is
\* done.
Disconnect(k) ==
    /\ interrupted = "no"
    /\ \/ requests[k].stage = "read"
       \/ requests[k].stage \in {"received", "answer"} /\ requests[k].via = "http"
    /\ interrupted' = "client"
    /\ requests' = [requests EXCEPT ![k] = Done]
    /\ files' = IF requests[k].stage = "received" THEN RemoveFile(k) ELSE files
    /\ UNCHANGED <<vars, evidence, told, audits>>

\* The process stops and starts again: requests in progress are gone.
Crash ==
    /\ interrupted = "no"
    /\ interrupted' = "process"
    /\ requests' = [k \in Requests |-> IF requests[k] = New THEN New ELSE Done]
    /\ UNCHANGED <<vars, files, evidence, told, audits>>

\* The next step of a handler that has started.
HandlerStep(k) ==
    \/ StoreUpload(k)
    \/ DropUpload(k)
    \/ DecideApproval(k)
    \/ Follow(k)

RequestStep ==
    \E k \in Requests :
        \/ \E u \in Users, p \in PaymentIds, d \in Docs : ReceiveInApp(k, u, p, d)
        \/ \E u \in Users, d \in Docs : ReceiveInChat(k, u, d)
        \/ \E p \in PaymentIds, days \in ReviewDays : ReadForApproval(k, p, days)
        \/ \E p \in PaymentIds : DecideRejection(k, p)

\* Steps of Payments that no request here is involved in.  The admin's other
\* steps and the other sweeps touch no payment, receipt or file.
Background ==
    /\ \/ \E u \in Users, x \in Products : CreatePayment(u, x)
       \/ ExpirePendingPayments
       \/ Tick
    /\ UNCHANGED deskVars

Interruption == Crash \/ \E k \in Requests : Disconnect(k)

DeskNext == (\E k \in Requests : HandlerStep(k)) \/ RequestStep \/ Background \/ Interruption

DeskSpec == DeskInit /\ [][DeskNext]_<<vars, deskVars>>

\* A handler that has started goes on to its end.
FairDeskSpec == DeskSpec /\ \A k \in Requests : WF_<<vars, deskVars>>(HandlerStep(k))

-----------------------------------------------------------------------------

Quiet == \A k \in Requests : requests[k] \in {New, Done}

\* Every stored receipt has its file, at any time; and when nothing is in progress
\* there are no other files, unless the process was stopped between a file and its
\* row.
FilesMatchReceipts ==
    /\ Range(evidence) \subseteq files
    /\ Quiet /\ interrupted # "process" => files = Range(evidence)

\* Both: the tables and requests have their types, and files fit them.
DeskInv == DeskTypeOK /\ FilesMatchReceipts

\* Nobody is told of an approval that did not happen or was undone.
ToldTheTruth ==
    \A p \in PaymentIds : "approved" \in Range(told[p]) => Approved(p)

\* The handlers' stale reads do no harm to the tables: every step is one of
\* Payments or leaves its tables alone.
ImplementsPayments == Spec

\* Whoever approved a payment, its customer hears of it and an audit record says
\* so, unless the process stops or the request that would do it is cut off.
CustomerHears ==
    \A p \in PaymentIds :
        Approved(p) ~>
            \/ interrupted # "no"
            \/ /\ "approved" \in Range(told[p])
               /\ {<<"payment_approve", p>>, <<"payment_auto_approve", p>>} \cap audits # {}

=============================================================================
