--------------------------- MODULE ReceiptVerdict ---------------------------
(***************************************************************************)
(* One receipt, judged once for a payment (attachReceipt in                *)
(* internal/repository/receipts.go), and what a customer and an admin      *)
(* expect of the verdict.                                                  *)
(***************************************************************************)
EXTENDS ReceiptParser

CONSTANTS
    Texts,      \* what receipts may say
    Price,      \* of the payment
    Days        \* when the payment may have been created

VARIABLES text, created, duplicate, receipt

ASSUME VerdictAssumption ==
    /\ Price \in Nat \ {0} /\ Days \subseteq Nat
    /\ Missing \notin AllowedBins
    /\ DateSlack < DayLength    \* 15 minutes
    /\ \A t \in Texts :
        /\ t.amounts \subseteq Nat
        /\ t.paid \in Nat \cup {Missing}

Unread == [status |-> "none", codes |-> {}]

Init ==
    /\ text \in Texts
    /\ text.dateOnly => text.paid # Missing /\ text.paid % DayLength = 0
    /\ created \in Days
    /\ duplicate \in BOOLEAN
    /\ receipt = Unread

\* The look-up finds duplicates by an identity only.
Judge ==
    /\ receipt = Unread
    /\ duplicate => Identity(text) # Missing \/ QrPayload(text) # Missing
    /\ LET parsed == ParserCodes(text, Price, created)
       IN  receipt' =
               IF duplicate
               THEN [status |-> "duplicate", codes |-> parsed \cup {DuplicateCode}]
               ELSE [status |-> ValidationStatus(parsed), codes |-> parsed]
    /\ UNCHANGED <<text, created, duplicate>>

vars == <<text, created, duplicate, receipt>>

Spec == Init /\ [][Judge]_vars

-----------------------------------------------------------------------------

\* A receipt that approves its payment without an admin shows the price within
\* the tolerance, in tenge, paid to the shop, in time, and can be recognised when
\* it is sent again.
CleanReceiptPaysThePrice ==
    receipt.status = "valid_candidate" =>
        /\ text.readable /\ text.marker
        /\ \E a \in text.amounts : a \in (Price - Tolerance)..(Price + Tolerance)
        /\ "KZT" \in text.currencies
        /\ AllowedBins \cap ({text.recipientBin} \cup text.otherBins) # {}
        /\ text.paid = Missing \/ text.paid + DayLength > created
        /\ {text.check, text.transaction, text.reference, text.qr} # {Missing}

\* A payment is refused without an admin only when the text contradicts it: not
\* the price, not the currency, not the shop, or a receipt already used; and the
\* comment that the customer then reads names a reason.
RefusedOnContradiction ==
    receipt # Unread /\ AutoRejects(receipt.status, receipt.codes) =>
        /\ \/ duplicate
           \/ Price \notin text.amounts
           \/ "KZT" \notin text.currencies
           \/ text.recipientBin \notin AllowedBins
        /\ "receipt_rejected" \notin BlockingReasons(receipt.codes)

=============================================================================
