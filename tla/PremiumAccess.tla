---------------------------- MODULE PremiumAccess ----------------------------
(***************************************************************************)
(* Access to premium courses (internal/repository/premium_courses.go).     *)
(* A partial unique index allows one active row per user and course, and a *)
(* grant closes the row before it inserts the next one, so a user's newest *)
(* row for a course is all that matters: that row is the state.            *)
(***************************************************************************)
EXTENDS Platform

CONSTANTS
    Courses,
    Null,           \* SQL NULL: access without an end
    DefaultTerm,    \* the access a course sells
    GrantTerms      \* the terms an admin may choose for a grant

Terms == [kind : {"lifetime", "days", "date"}, value : Nat]

ASSUME PremiumAssumption ==
    /\ Null \notin Nat
    /\ DefaultTerm \in [Courses -> Terms]
    /\ GrantTerms \subseteq Terms

VARIABLES
    access          \* newest user_course_access row of each user and course

AccessStatus == {"none", "active", "expired", "revoked"}

AccessRow == [status : AccessStatus, expires : Nat \cup {Null}]

PremiumTypeOK == access \in [Users \X Courses -> AccessRow]

PremiumInit ==
    access = [k \in Users \X Courses |-> [status |-> "none", expires |-> Null]]

\* An active row whose time is up: it gives no access, though nobody has marked
\* it expired yet.
Lapsed(row) ==
    row.status = "active" /\ row.expires # Null /\ Past(row.expires)

\* premiumAccessExpiry: when access of a term granted now ends; no value when
\* the program refuses the term because its fixed date has gone by.
TermEnds(term) ==
    CASE term.kind = "lifetime" -> {Null}
      [] term.kind = "days" -> {clock + term.value}
      [] term.kind = "date" -> {d \in {term.value} : ~Past(d)}

\* grantPremiumCourseAccessTx: the active row, lapsed or not, gives way to a
\* new active one.
GrantAccess(u, c, term) ==
    \E e \in TermEnds(term) :
        access' = [access EXCEPT ![<<u, c>>] = [status |-> "active", expires |-> e]]

RevokePremiumCourseAccess(u, c) ==
    /\ access[<<u, c>>].status = "active"
    /\ access' = [access EXCEPT ![<<u, c>>].status = "revoked"]

\* The minute job.
ExpirePremiumCourseAccesses ==
    /\ \E k \in DOMAIN access : Lapsed(access[k])
    /\ access' = [k \in DOMAIN access |->
                     IF Lapsed(access[k])
                     THEN [access[k] EXCEPT !.status = "expired"]
                     ELSE access[k]]

=============================================================================
