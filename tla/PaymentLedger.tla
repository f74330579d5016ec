---------------------------- MODULE PaymentLedger ----------------------------
(***************************************************************************)
(* What the payment system promises, whatever its tables and jobs do: a    *)
(* payment is asked for once and ends once, what it buys is delivered at   *)
(* most once, and a bank transaction pays for at most one payment.         *)
(***************************************************************************)
CONSTANTS PaymentIds, Keys

VARIABLES
    stage,      \* how far each payment has come
    spent       \* <<transaction, the payment it paid for>>

Stages == {"none", "open", "disputed", "closed", "delivered"}

Init ==
    /\ stage = [p \in PaymentIds |-> "none"]
    /\ spent = {}

Request(p) ==
    /\ stage[p] = "none"
    /\ stage' = [stage EXCEPT ![p] = "open"]
    /\ UNCHANGED spent

\* The system refuses the evidence; an admin may still overrule it.
Dispute(p) ==
    /\ stage[p] = "open"
    /\ stage' = [stage EXCEPT ![p] = "disputed"]
    /\ UNCHANGED spent

\* Time runs out for some payments, or an admin refuses one, for good.
Close(S) ==
    /\ \A p \in S : stage[p] \in {"open", "disputed"}
    /\ stage' = [p \in PaymentIds |-> IF p \in S THEN "closed" ELSE stage[p]]
    /\ UNCHANGED spent

Deliver(p, keys) ==
    /\ stage[p] \in {"open", "disputed"}
    /\ \A k \in keys, q \in PaymentIds : <<k, q>> \notin spent
    /\ stage' = [stage EXCEPT ![p] = "delivered"]
    /\ spent' = spent \cup (keys \X {p})

Next ==
    \/ \E p \in PaymentIds : Request(p) \/ Dispute(p)
    \/ \E S \in SUBSET PaymentIds : Close(S)
    \/ \E p \in PaymentIds, keys \in {{}} \cup {{k} : k \in Keys} : Deliver(p, keys)

Spec == Init /\ [][Next]_<<stage, spent>>

=============================================================================
