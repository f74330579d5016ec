----------------------------- MODULE MCPayments -----------------------------
(***************************************************************************)
(* Constant values for model-checking Payments.                            *)
(***************************************************************************)
EXTENDS Payments, TLC

CONSTANTS
    ann, bob, cid,      \* users
    basic, vip, zen,    \* two tariffs, a course
    check, qr, ours     \* a check number, a QR payload, the shop's BIN

\* Days are ticks of the same clock as everything else.
Lifetime == [kind |-> "lifetime", value |-> 0]
OneTick == [kind |-> "days", value |-> 1]
UntilOne == [kind |-> "date", value |-> 1]

\* Nobody invited anybody, or ann everybody else.
NobodyInvites == [u \in Users |-> NoUser]
AnnInvites == [u \in Users |-> IF u = ann THEN NoUser ELSE ann]

\* Receipts: a flawless one; one of the same transaction, paid before every
\* payment but the earliest; one that only its QR payload identifies, without a
\* legible amount; one over another amount.
AllDocs == {"clean", "early", "qrOnly", "wrongAmount"}

Flawless ==
    [readable |-> TRUE, amounts |-> {5}, currencies |-> {"KZT"},
     recipientBin |-> ours, otherBins |-> {}, marker |-> TRUE,
     paid |-> Missing, dateOnly |-> FALSE,
     check |-> check, transaction |-> Missing, reference |-> Missing, qr |-> qr]

DocText ==
    [d \in Docs |->
        CASE d = "clean" -> Flawless
          [] d = "early" -> [Flawless EXCEPT !.paid = 0]
          [] d = "qrOnly" -> [Flawless EXCEPT !.amounts = {}, !.check = Missing]
          [] d = "wrongAmount" -> [Flawless EXCEPT !.amounts = {9}]]

Prices == [x \in Products |-> 5]

\* The term of the courses on sale in each run.
SellsOneTick == [c \in Courses |-> OneTick]
SellsUntilOne == [c \in Courses |-> UntilOne]

\* The terms an admin grants in the runs where one does.
AdminTerms == {Lifetime, OneTick}

\* The users ann invited differ in nothing: sound in a run without liveness.
Friends == Permutations({bob, cid})

=============================================================================
