---------------------------- MODULE ReceiptParser ----------------------------
(***************************************************************************)
(* How a receipt is read and judged against the payment it was sent for    *)
(* (internal/repository/receipts.go, parseReceiptPDFWithProvider).  The    *)
(* regular expressions are left out: a text is what they can find in it.   *)
(* Codes the parser cannot give: the database look-up adds                 *)
(* "duplicate_identity_found".                                             *)
(***************************************************************************)
EXTENDS Naturals

CONSTANTS
    Missing,        \* a value the text does not show
    AllowedBins,    \* PAYMENT_RECIPIENT_BIN and its aliases
    Tolerance,      \* PAYMENT_AMOUNT_TOLERANCE_KZT
    DateSlack,      \* receiptDateTolerance, in ticks
    DayLength       \* ticks of a day

ASSUME ParserAssumption ==
    /\ Missing \notin Nat
    /\ Tolerance \in Nat /\ DateSlack \in Nat /\ DayLength \in Nat \ {0}

HardRejectCodes ==
    {"amount_mismatch", "currency_missing", "currency_mismatch",
     "recipient_bin_missing", "recipient_bin_mismatch"}

SuspiciousCodes ==
    {"payment_date_too_early", "provider_marker_missing", "recipient_bin_not_configured"}

NeutralCodes ==
    {"pdf_text_unreadable", "amount_not_found", "strong_identity_not_found"}

DuplicateCode == "duplicate_identity_found"

Codes == HardRejectCodes \cup SuspiciousCodes \cup NeutralCodes \cup {DuplicateCode}

ReceiptStatus ==
    {"parse_partial", "valid_candidate", "suspicious", "duplicate", "rejected", "approved"}

-----------------------------------------------------------------------------
(***************************************************************************)
(* What is read.  A text has the fields                                    *)
(*   readable                whether any text could be extracted           *)
(*   amounts                 numbers next to a label or a currency sign    *)
(*   currencies              currencies it mentions                        *)
(*   recipientBin, otherBins the BIN next to "recipient", and those not    *)
(*                           the payer's next to some other label          *)
(*   marker                  a word a bank receipt would have              *)
(*   paid, dateOnly          when it was paid, at midnight if dateOnly     *)
(*   check, transaction, reference, qr                                     *)
(***************************************************************************)

\* Mutant: the largest number wins even over the price.
LargestAmounts(text, price) == {a \in text.amounts : \A b \in text.amounts : b <= a}

\* extractAmountKZT: the price itself if it is among the numbers, else the
\* largest of them.
Amounts(text, price) ==
    IF text.amounts = {} THEN {}
    ELSE IF price \in text.amounts THEN {price}
    ELSE {a \in text.amounts : \A b \in text.amounts : b <= a}

\* extractRecipientBIN.
RecipientBins(text) ==
    IF text.recipientBin # Missing THEN {text.recipientBin}
    ELSE IF text.otherBins \cap AllowedBins # {} THEN text.otherBins \cap AllowedBins
    ELSE text.otherBins

\* BuildReceiptIdentity: the check number, else the first of the other two.
Identity(text) ==
    IF ~text.readable THEN Missing
    ELSE IF text.check # Missing THEN text.check
    ELSE IF text.transaction # Missing THEN text.transaction
    ELSE text.reference

QrPayload(text) == IF text.readable THEN text.qr ELSE Missing

\* receiptDateClearlyBefore: a bare date is not early on its own day.
TooEarly(text, created) ==
    /\ text.paid # Missing
    /\ ~(text.dateOnly /\ text.paid \div DayLength = created \div DayLength)
    /\ text.paid + DateSlack < created

-----------------------------------------------------------------------------

\* Mutant: only what was paid too little is compared.
NotBelow(a, b) == b <= a + Tolerance

Close(a, b) == a <= b + Tolerance /\ b <= a + Tolerance

AmountCodes(text, price) ==
    IF Amounts(text, price) = {} THEN {"amount_not_found"}
    ELSE {c \in {"amount_mismatch", "currency_missing", "currency_mismatch"} :
             CASE c = "amount_mismatch" -> \A a \in Amounts(text, price) : ~Close(a, price)
               [] c = "currency_missing" -> text.currencies = {}
               [] c = "currency_mismatch" ->
                      text.currencies # {} /\ "KZT" \notin text.currencies}

RecipientCodes(text) ==
    IF AllowedBins = {} THEN {"recipient_bin_not_configured"}
    ELSE IF RecipientBins(text) = {} THEN {"recipient_bin_missing"}
    ELSE IF RecipientBins(text) \subseteq AllowedBins THEN {}
    ELSE {"recipient_bin_mismatch"}

OtherCodes(text, created) ==
    {c \in {"provider_marker_missing", "payment_date_too_early", "strong_identity_not_found"} :
        CASE c = "provider_marker_missing" -> ~text.marker
          [] c = "payment_date_too_early" -> TooEarly(text, created)
          [] c = "strong_identity_not_found" ->
                 Identity(text) = Missing /\ QrPayload(text) = Missing}

\* The codes of text as a receipt of a payment over price.
ParserCodes(text, price, created) ==
    IF ~text.readable THEN {"pdf_text_unreadable"}
    ELSE AmountCodes(text, price) \cup RecipientCodes(text) \cup OtherCodes(text, created)

-----------------------------------------------------------------------------
(***************************************************************************)
(* What the codes mean.                                                    *)
(***************************************************************************)

\* Mutant: a partly read receipt keeps the default of the column.
ValidationStatusUnset(codes) ==
    CASE codes = {} -> "valid_candidate"
      [] codes \cap HardRejectCodes # {} -> "rejected"
      [] codes \cap HardRejectCodes = {} /\ codes \cap SuspiciousCodes # {} -> "suspicious"
      [] OTHER -> "uploaded"

\* receiptValidationStatus, for the codes of the parser.
ValidationStatus(codes) ==
    CASE codes = {} -> "valid_candidate"
      [] codes \cap HardRejectCodes # {} -> "rejected"
      [] codes \cap HardRejectCodes = {} /\ codes \cap SuspiciousCodes # {} -> "suspicious"
      [] OTHER -> "parse_partial"

\* receiptAutoRejectsPayment.
AutoRejects(status, codes) ==
    \/ status \in {"rejected", "duplicate"}
    \/ codes \cap (HardRejectCodes \cup {DuplicateCode}) # {}

\* Mutant: the wrong status stops an admin.
BlocksSuspicious(receipt) == receipt.status = "suspicious"

\* receiptBlocksManualApproval.
BlocksManualApproval(receipt) ==
    receipt.status = "duplicate" \/ DuplicateCode \in receipt.codes

\* receiptBlockingReasonCodes: what the admin comment names after
\* "auto_rejected:".
BlockingReasons(codes) ==
    LET named == codes \cap (HardRejectCodes \cup {DuplicateCode, "recipient_bin_not_configured"})
    IN  IF named = {} THEN {"receipt_rejected"} ELSE named

=============================================================================
