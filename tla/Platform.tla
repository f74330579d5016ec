------------------------------ MODULE Platform ------------------------------
(***************************************************************************)
(* What every component shares: the users and the wall clock the tables    *)
(* are compared with, in ticks of one second.                              *)
(*                                                                         *)
(* Deadlines are written by Go with a fraction and a zone after the        *)
(* seconds, CURRENT_TIMESTAMP has neither, and SQLite compares both as     *)
(* text: a deadline within the current second is not yet past.             *)
(***************************************************************************)
EXTENDS Naturals

CONSTANTS
    Users,
    MaxTime     \* bound: the clock stops here

ASSUME PlatformAssumption == MaxTime \in Nat

VARIABLES
    clock       \* time.Now() and CURRENT_TIMESTAMP

PlatformTypeOK == clock \in Nat

PlatformInit == clock = 0

\* "deadline <= CURRENT_TIMESTAMP" in the sweeps, the negation of
\* "deadline > CURRENT_TIMESTAMP" in the look-ups.
Past(deadline) == deadline < clock

PassTime ==
    /\ clock < MaxTime
    /\ clock' = clock + 1

=============================================================================
