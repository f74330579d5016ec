\* Every small receipt, judged for a payment over 5.
SPECIFICATION Spec

CONSTANTS
    Missing = Missing
    ours = ours
    other = other
    number = number
    code = code
    AllowedBins <- TheAllowedBins
    Texts <- TheTexts
    Price = 5
    Days = {0, 3, 6}
    Tolerance = 1
    DateSlack = 1
    DayLength = 4

CHECK_DEADLOCK FALSE

INVARIANTS
    CleanReceiptPaysThePrice
    RefusedOnContradiction
