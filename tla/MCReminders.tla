---------------------------- MODULE MCReminders -----------------------------
(***************************************************************************)
(* Constant values for model-checking Reminders.                           *)
(***************************************************************************)
EXTENDS Reminders

CONSTANTS ann, bob, talk

Ends == [u \in Users |-> IF u = ann THEN 4 ELSE 3]
Planned == [x \in Streams |-> 3]

=============================================================================
