---------------------------- MODULE Subscriptions ----------------------------
(***************************************************************************)
(* The subscriptions table (internal/repository/payments.go, admin.go).    *)
(*                                                                         *)
(* A user's subscription is extended in place while it is current and a    *)
(* new row is inserted otherwise; a sweep that runs every minute marks     *)
(* lapsed rows; an admin may set any row to any status, which is how one   *)
(* user can come to own several current rows.                              *)
(***************************************************************************)
EXTENDS Platform, Tables

CONSTANTS
    Tariffs,
    Basic,              \* the tariff of a subscription given as a bonus
    SubscriptionIds,    \* bound: rows the table can hold
    AdminStatuses,      \* bound: statuses an admin sets rows to
    GiftDays,           \* bound: day counts an admin adds by hand
    MaxGifts            \* bound: gifts a user gets

SubscriptionStatus == {"active", "expired", "cancelled", "paused"}

ASSUME SubscriptionsAssumption ==
    /\ Basic \in Tariffs
    /\ SubscriptionIds \subseteq Nat \ {0}
    /\ AdminStatuses \subseteq SubscriptionStatus
    /\ GiftDays \subseteq Nat
    /\ MaxGifts \in Nat

VARIABLES
    subscriptions,      \* table: user, tariff, status, expires
    gifts               \* times an admin gave a user days (admin_actions)

SubscriptionRow ==
    [user : Users, tariff : Tariffs, status : SubscriptionStatus, expires : Nat]

SubscriptionsTypeOK ==
    /\ IsTable(subscriptions, SubscriptionIds, SubscriptionRow)
    /\ gifts \in [Users -> Nat]

SubscriptionsInit ==
    /\ subscriptions = EmptyTable
    /\ gifts = [u \in Users |-> 0]

\* The rows that give u access now.
Current(table, u) ==
    {s \in DOMAIN table : /\ table[s].user = u
                          /\ table[s].status = "active"
                          /\ ~Past(table[s].expires)}

NewSubscription(u, tariff, days) ==
    [user |-> u, tariff |-> tariff, status |-> "active", expires |-> clock + days]

(***************************************************************************)
(* The tables that buying or being given days can lead to: the current row *)
(* that expires last grows, else a new row starts now.  A purchase also    *)
(* moves the row to the tariff bought; a bonus leaves the row's tariff and *)
(* uses its own for a new row only.                                        *)
(***************************************************************************)
Started(table, u, tariff, days) ==
    {Insert(table, s, NewSubscription(u, tariff, days)) :
         s \in NextId(SubscriptionIds, table)}

\* Mutant: the days bought replace those left.
PurchasedFromNow(table, u, tariff, days) ==
    IF Current(table, u) = {}
    THEN Started(table, u, tariff, days)
    ELSE {[table EXCEPT ![s].expires = clock + days, ![s].tariff = tariff] :
              s \in LastToEnd(table, Current(table, u))}

Purchased(table, u, tariff, days) ==
    IF Current(table, u) = {}
    THEN Started(table, u, tariff, days)
    ELSE {[table EXCEPT ![s].expires = table[s].expires + days, ![s].tariff = tariff] :
              s \in LastToEnd(table, Current(table, u))}

Extended(table, u, tariff, days) ==
    IF Current(table, u) = {}
    THEN Started(table, u, tariff, days)
    ELSE {[table EXCEPT ![s].expires = @ + days] :
              s \in LastToEnd(table, Current(table, u))}

-----------------------------------------------------------------------------

\* Mutant: a row ends a tick early.
OverdueInclusive(row) == row.status = "active" /\ row.expires <= clock

Overdue(row) == row.status = "active" /\ Past(row.expires)

\* The minute job: every active row whose time is up is marked expired.
ExpireSubscriptions ==
    /\ \E s \in DOMAIN subscriptions : Overdue(subscriptions[s])
    /\ subscriptions' =
           [s \in DOMAIN subscriptions |->
               IF Overdue(subscriptions[s])
               THEN [subscriptions[s] EXCEPT !.status = "expired"]
               ELSE subscriptions[s]]
    /\ UNCHANGED gifts

\* PATCH /api/admin/subscriptions/{id}: any row to any status.
UpdateSubscriptionStatus(s, status) ==
    /\ s \in DOMAIN subscriptions
    /\ subscriptions' = [subscriptions EXCEPT ![s].status = status]
    /\ UNCHANGED gifts

\* POST /api/admin/users/{id}/bonus: days for a user.
ManualAddSubscriptionDays(u, tariff, days) ==
    /\ days > 0
    /\ gifts[u] < MaxGifts
    /\ subscriptions' \in Extended(subscriptions, u, tariff, days)
    /\ gifts' = [gifts EXCEPT ![u] = @ + 1]

=============================================================================
