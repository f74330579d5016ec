----------------------------- MODULE MCAccounts ------------------------------
(* Ann answers questions, bob comes by her link. *)
EXTENDS Accounts

CONSTANTS ann, bob

MCMessages ==
    {[from |-> ann, kind |-> "diagnose", code |-> Nobody],
     [from |-> ann, kind |-> "text", code |-> Nobody],
     [from |-> bob, kind |-> "menu", code |-> ann]}
MCOpenings == {<<ann, bob>>, <<bob, ann>>}
MCFollowed == {{"bot"}, {"legal"}}
=============================================================================
