------------------------------ MODULE Referrals ------------------------------
(***************************************************************************)
(* Referrals and their rewards (internal/repository/payments.go,           *)
(* applyReferralPaymentRewardsTx).  A referral row is written once, when   *)
(* the invited user first starts the bot, and never moves to another       *)
(* inviter: the relation is a constant here.                               *)
(***************************************************************************)
EXTENDS Platform, FiniteSets

CONSTANTS
    NoUser,
    Inviter,        \* who invited a user, NoUser when nobody did
    Thresholds,     \* paid referrals at which a reward row is granted
    WeekGoal,       \* the threshold that also gives WeekDays
    MonthGoal,      \* the threshold that also gives MonthDays
    WeekDays,
    MonthDays

ASSUME ReferralsAssumption ==
    /\ NoUser \notin Users
    /\ Inviter \in [Users -> Users \cup {NoUser}]
    /\ \A u \in Users : Inviter[u] # u
    /\ Thresholds \subseteq Nat \ {0}
    /\ {WeekGoal, MonthGoal} \subseteq Thresholds
    /\ WeekDays \in Nat /\ MonthDays \in Nat

VARIABLES
    paidReferrals,  \* invited users whose referral row has status 'paid'
    rewards,        \* referral_rewards: <<inviter, threshold>>
    coins           \* coin_transactions of reason referral_paid: <<inviter, invited>>

referralVars == <<paidReferrals, rewards, coins>>

ReferralsTypeOK ==
    /\ paidReferrals \subseteq Users
    /\ rewards \subseteq Users \X Thresholds
    /\ coins \subseteq Users \X Users

ReferralsInit ==
    /\ paidReferrals = {}
    /\ rewards = {}
    /\ coins = {}

Referred(u) == Inviter[u] # NoUser

\* SELECT COUNT(*) FROM referrals WHERE inviter_user_id = w AND status IN ('paid', ...).
PaidCount(paid, w) == Cardinality({u \in paid : Inviter[u] = w})

\* Mutant: one paid referral too many is asked for.
ReachedLate(count) == {t \in Thresholds : t < count}

Reached(count) == {t \in Thresholds : t <= count}

\* The days one pass over the thresholds adds to the inviter's subscription.
BonusDays(count) ==
    (IF WeekGoal <= count THEN WeekDays ELSE 0)
        + (IF MonthGoal <= count THEN MonthDays ELSE 0)

\* The referral side of approving a subscription payment of u: the row turns
\* paid, the inviter's coins and reward rows are inserted unless present.
RewardInviter(u) ==
    LET w == Inviter[u]
        paid == paidReferrals \cup {u}
    IN  /\ paidReferrals' = paid
        /\ coins' = coins \cup {<<w, u>>}
        /\ rewards' = rewards \cup ({w} \X Reached(PaidCount(paid, w)))

=============================================================================
