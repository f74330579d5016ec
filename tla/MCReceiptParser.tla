--------------------------- MODULE MCReceiptParser ---------------------------
(***************************************************************************)
(* Every receipt over small sets of what a text can show.                  *)
(***************************************************************************)
EXTENDS ReceiptVerdict

CONSTANTS ours, other, number, code

TheAllowedBins == {ours}

TheTexts ==
    [readable : BOOLEAN,
     amounts : SUBSET {4, 5, 9},
     currencies : {{}, {"KZT"}, {"USD"}, {"KZT", "USD"}},
     recipientBin : {ours, other, Missing},
     otherBins : SUBSET {ours, other},
     marker : BOOLEAN,
     paid : {Missing, 0, 5},
     dateOnly : BOOLEAN,
     check : {number, Missing},
     transaction : {Missing},
     reference : {Missing},
     qr : {code, Missing}]

=============================================================================
