------------------------ MODULE ReceiptVerdictProofs ------------------------
(***************************************************************************)
(* Proofs about ReceiptVerdict, for any texts, prices, allowed recipients, *)
(* tolerances and dates.                                                   *)
(***************************************************************************)
EXTENDS ReceiptVerdict, TLAPS

-----------------------------------------------------------------------------
(***************************************************************************)
(* What the codes of a text say of it.                                     *)
(***************************************************************************)

\* What extractReceiptDate finds: a date without a time is midnight.
Dated(t) ==
    /\ t.amounts \subseteq Nat
    /\ t.paid \in Nat \cup {Missing}
    /\ t.dateOnly => t.paid # Missing /\ t.paid % DayLength = 0

\* Without a code for it, an amount within the tolerance is among the numbers.
LEMMA AmountShown ==
    ASSUME NEW t, AmountCodes(t, Price) = {}, t.amounts \subseteq Nat
    PROVE  /\ \E a \in t.amounts : a \in (Price - Tolerance)..(Price + Tolerance)
           /\ "KZT" \in t.currencies
<1>1. Amounts(t, Price) # {} /\ Amounts(t, Price) \subseteq t.amounts
  BY DEF AmountCodes, Amounts
<1>2. /\ "amount_mismatch" \notin AmountCodes(t, Price)
      /\ "currency_missing" \notin AmountCodes(t, Price)
      /\ "currency_mismatch" \notin AmountCodes(t, Price)
  OBVIOUS
<1>3. \E a \in Amounts(t, Price) : Close(a, Price)
  BY <1>1, <1>2 DEF AmountCodes
<1>4. PICK a \in t.amounts : Close(a, Price)
  BY <1>1, <1>3
<1>5. a \in Nat /\ Price \in Nat /\ Tolerance \in Nat
  BY ParserAssumption, VerdictAssumption
<1>6. a \in (Price - Tolerance)..(Price + Tolerance)
  BY <1>4, <1>5 DEF Close
<1>7. "KZT" \in t.currencies
  BY <1>1, <1>2 DEF AmountCodes
<1> QED
  BY <1>6, <1>7

LEMMA RecipientShown ==
    ASSUME NEW t, RecipientCodes(t) = {}
    PROVE  AllowedBins \cap ({t.recipientBin} \cup t.otherBins) # {}
<1>1. RecipientBins(t) # {} /\ RecipientBins(t) \subseteq AllowedBins
  BY DEF RecipientCodes
<1>2. RecipientBins(t) \subseteq {t.recipientBin} \cup t.otherBins
  BY DEF RecipientBins
<1> QED
  BY <1>1, <1>2

\* Two times of one day are less than a day apart, and so are a time and an
\* earlier one within the slack.
LEMMA PaidInTime ==
    ASSUME NEW t, NEW since \in Nat, Dated(t), ~TooEarly(t, since), t.paid # Missing
    PROVE  t.paid + DayLength > since
<1>1. t.paid \in Nat /\ DayLength \in Nat \ {0} /\ DateSlack \in Nat /\ DateSlack < DayLength
  BY ParserAssumption, VerdictAssumption DEF Dated
<1>2. CASE t.paid \div DayLength = since \div DayLength
  <2>1. \A x \in Nat, d \in Nat \ {0} : d * (x \div d) <= x /\ x < d * (x \div d) + d
    OBVIOUS
  <2>2. PICK x : x = t.paid
    OBVIOUS
  <2>3. x \in Nat /\ x \div DayLength = since \div DayLength
    BY <1>1, <1>2, <2>2
  <2>4. DayLength * (x \div DayLength) <= x
    BY <1>1, <2>1, <2>3
  <2>5. since < DayLength * (since \div DayLength) + DayLength
    BY <1>1, <2>1
  <2>6. DayLength * (x \div DayLength) \in Nat
    BY <1>1, <2>3
  <2>7. since < x + DayLength
    BY <1>1, <2>3, <2>4, <2>5, <2>6
  <2> QED
    BY <2>2, <2>7
<1>3. CASE t.paid \div DayLength # since \div DayLength
  <2>1. ~(t.paid + DateSlack < since)
    BY <1>3 DEF TooEarly
  <2> QED
    BY <1>1, <2>1
<1> QED
  BY <1>2, <1>3

LEMMA OthersShown ==
    ASSUME NEW t, NEW since, OtherCodes(t, since) = {}
    PROVE  /\ t.marker /\ ~TooEarly(t, since)
           /\ Identity(t) # Missing \/ QrPayload(t) # Missing
<1>1. /\ "provider_marker_missing" \notin OtherCodes(t, since)
      /\ "payment_date_too_early" \notin OtherCodes(t, since)
      /\ "strong_identity_not_found" \notin OtherCodes(t, since)
  OBVIOUS
<1> QED
  BY <1>1 DEF OtherCodes

\* A text with the price, tenge and an allowed recipient has no hard code.
LEMMA HardCodesContradict ==
    ASSUME NEW t, NEW since, ParserCodes(t, Price, since) \cap HardRejectCodes # {}
    PROVE  Price \notin t.amounts \/ "KZT" \notin t.currencies \/ t.recipientBin \notin AllowedBins
<1> SUFFICES ASSUME Price \in t.amounts, "KZT" \in t.currencies, t.recipientBin \in AllowedBins
             PROVE  ParserCodes(t, Price, since) \cap HardRejectCodes = {}
  OBVIOUS
<1>1. AmountCodes(t, Price) = {}
  <2>1. Amounts(t, Price) = {Price}
    BY DEF Amounts
  <2>2. Close(Price, Price)
    BY ParserAssumption, VerdictAssumption DEF Close
  <2>3. t.currencies # {}
    OBVIOUS
  <2> QED
    BY <2>1, <2>2, <2>3 DEF AmountCodes
<1>2. RecipientCodes(t) = {}
  <2>1. AllowedBins # {} /\ t.recipientBin # Missing
    BY VerdictAssumption
  <2>2. RecipientBins(t) = {t.recipientBin}
    BY <2>1 DEF RecipientBins
  <2> QED
    BY <2>1, <2>2 DEF RecipientCodes
<1> QED
  BY <1>1, <1>2 DEF ParserCodes, OtherCodes, HardRejectCodes

-----------------------------------------------------------------------------
(***************************************************************************)
(* Verdicts.                                                               *)
(***************************************************************************)

Parsed == ParserCodes(text, Price, created)

\* A verdict is the one that the text and the look-up give.
VerdictInv ==
    /\ Dated(text) /\ created \in Nat
    /\ \/ receipt = Unread
       \/ duplicate /\ receipt = [status |-> "duplicate", codes |-> Parsed \cup {DuplicateCode}]
       \/ ~duplicate /\ receipt = [status |-> ValidationStatus(Parsed), codes |-> Parsed]

LEMMA VerdictInvAlways == Spec => []VerdictInv
<1>1. Init => VerdictInv
  BY VerdictAssumption DEF Init, VerdictInv, Dated
<1>2. VerdictInv /\ [Judge]_vars => VerdictInv'
  <2> SUFFICES ASSUME VerdictInv, [Judge]_vars
               PROVE  VerdictInv'
    OBVIOUS
  <2>1. CASE Judge
    BY <2>1 DEF Judge, VerdictInv, Parsed, Dated
  <2>2. CASE UNCHANGED vars
    BY <2>2 DEF vars, VerdictInv, Parsed, Dated, Unread
  <2> QED
    BY <2>1, <2>2
<1> QED
  BY <1>1, <1>2, PTL DEF Spec

\* The statuses name what kind of codes there are.
LEMMA StatusOfCodes ==
    ASSUME NEW codes
    PROVE  /\ ValidationStatus(codes) = "valid_candidate" <=> codes = {}
           /\ ValidationStatus(codes) = "rejected" => codes \cap HardRejectCodes # {}
           /\ ValidationStatus(codes) # "duplicate"
<1>1. CASE codes = {}
  BY <1>1 DEF ValidationStatus
<1>2. CASE codes # {} /\ codes \cap HardRejectCodes # {}
  BY <1>2 DEF ValidationStatus
<1>3. CASE codes # {} /\ codes \cap HardRejectCodes = {} /\ codes \cap SuspiciousCodes # {}
  BY <1>3 DEF ValidationStatus
<1>4. CASE codes # {} /\ codes \cap HardRejectCodes = {} /\ codes \cap SuspiciousCodes = {}
  BY <1>4 DEF ValidationStatus
<1> QED
  BY <1>1, <1>2, <1>3, <1>4

\* Whatever a receipt says: one that approves its payment without an admin shows
\* what was to be paid, to whom and when, and can be recognised (attachReceipt
\* approves on "valid_candidate").
THEOREM CleanReceiptsPay == Spec => []CleanReceiptPaysThePrice
<1>1. VerdictInv => CleanReceiptPaysThePrice
  <2> SUFFICES ASSUME VerdictInv, receipt.status = "valid_candidate"
               PROVE  /\ text.readable /\ text.marker
                      /\ \E a \in text.amounts : a \in (Price - Tolerance)..(Price + Tolerance)
                      /\ "KZT" \in text.currencies
                      /\ AllowedBins \cap ({text.recipientBin} \cup text.otherBins) # {}
                      /\ text.paid = Missing \/ text.paid + DayLength > created
                      /\ {text.check, text.transaction, text.reference, text.qr} # {Missing}
    BY DEF CleanReceiptPaysThePrice
  <2>1. Parsed = {}
    BY StatusOfCodes DEF VerdictInv, Unread
  <2>2. /\ text.readable
        /\ AmountCodes(text, Price) = {} /\ RecipientCodes(text) = {} /\ OtherCodes(text, created) = {}
    BY <2>1 DEF Parsed, ParserCodes
  <2>3. /\ \E a \in text.amounts : a \in (Price - Tolerance)..(Price + Tolerance)
        /\ "KZT" \in text.currencies
    BY <2>2, AmountShown DEF VerdictInv, Dated
  <2>4. AllowedBins \cap ({text.recipientBin} \cup text.otherBins) # {}
    BY <2>2, RecipientShown
  <2>5. /\ text.marker /\ ~TooEarly(text, created)
        /\ Identity(text) # Missing \/ QrPayload(text) # Missing
    BY <2>2, OthersShown
  <2>6. text.paid = Missing \/ text.paid + DayLength > created
    BY <2>5, PaidInTime DEF VerdictInv
  <2>7. {text.check, text.transaction, text.reference, text.qr} # {Missing}
    BY <2>2, <2>5 DEF Identity, QrPayload
  <2> QED
    BY <2>2, <2>3, <2>4, <2>5, <2>6, <2>7
<1> QED
  BY <1>1, VerdictInvAlways, PTL

\* Whatever a receipt says: one that refuses its payment without an admin
\* contradicts the payment or was used before, and the comment names why
\* (receiptAutoRejectsPayment and receiptBlockingReasonCodes agree on codes).
THEOREM RefusalsHaveReasons == Spec => []RefusedOnContradiction
<1>1. VerdictInv => RefusedOnContradiction
  <2> SUFFICES ASSUME VerdictInv, receipt # Unread, AutoRejects(receipt.status, receipt.codes)
               PROVE  /\ \/ duplicate
                         \/ Price \notin text.amounts
                         \/ "KZT" \notin text.currencies
                         \/ text.recipientBin \notin AllowedBins
                      /\ "receipt_rejected" \notin BlockingReasons(receipt.codes)
    BY DEF RefusedOnContradiction
  <2>1. DuplicateCode \notin Parsed
    BY DEF Parsed, ParserCodes, AmountCodes, RecipientCodes, OtherCodes, DuplicateCode
  <2>2. receipt.codes \cap (HardRejectCodes \cup {DuplicateCode}) # {}
    <3>1. CASE duplicate
      BY <3>1 DEF VerdictInv
    <3>2. CASE ~duplicate
      <4>1. receipt.status = ValidationStatus(Parsed) /\ receipt.codes = Parsed
        BY <3>2 DEF VerdictInv
      <4> QED
        BY <4>1, StatusOfCodes DEF AutoRejects
    <3> QED
      BY <3>1, <3>2
  <2>3. "receipt_rejected" \notin BlockingReasons(receipt.codes)
    BY <2>2 DEF BlockingReasons, HardRejectCodes, DuplicateCode
  <2>4. ASSUME ~duplicate
        PROVE  \/ Price \notin text.amounts
               \/ "KZT" \notin text.currencies
               \/ text.recipientBin \notin AllowedBins
    <3>1. Parsed \cap HardRejectCodes # {}
      BY <2>1, <2>2, <2>4 DEF VerdictInv
    <3> QED
      BY <3>1, HardCodesContradict DEF Parsed
  <2> QED
    BY <2>3, <2>4
<1> QED
  BY <1>1, VerdictInvAlways, PTL

=============================================================================
