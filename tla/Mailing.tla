------------------------------ MODULE Mailing ------------------------------
(***************************************************************************)
(* What broadcasting promises: a broadcast is opened once, tries a user at *)
(* most once and only while it is open, and is closed for good.            *)
(***************************************************************************)
CONSTANTS Users, Broadcasts

VARIABLES
    stage,    \* how far each broadcast has come
    tried     \* the users each broadcast was sent to, with whatever success

Init ==
    /\ stage = [b \in Broadcasts |-> "none"]
    /\ tried = [b \in Broadcasts |-> {}]

Move(b, from, to) ==
    /\ stage[b] = from
    /\ stage' = [stage EXCEPT ![b] = to]
    /\ UNCHANGED tried

Ask(b) == Move(b, "none", "waiting")
Open(b) == Move(b, "waiting", "open")
Close(b) == Move(b, "open", "closed")

Try(b, u) ==
    /\ stage[b] = "open"
    /\ u \notin tried[b]
    /\ tried' = [tried EXCEPT ![b] = @ \union {u}]
    /\ UNCHANGED stage

Next ==
    \E b \in Broadcasts :
        \/ Ask(b) \/ Open(b) \/ Close(b)
        \/ \E u \in Users : Try(b, u)

Spec == Init /\ [][Next]_<<stage, tried>>

=============================================================================
