------------------------------ MODULE Accounts -------------------------------
(***************************************************************************)
(* Users come by the bot and by the Mini App, in whatever order: either    *)
(* registers them.  The bot's questions and the agreement have nothing in  *)
(* common but the users, so a behaviour follows one of them.               *)
(***************************************************************************)
EXTENDS Bot, Legal

CONSTANTS
    Openings,       \* bound: who opens the Mini App, and by whose link
    Followed        \* sets of "bot" and "legal"

VARIABLES
    followed

vars == <<registry, bot, legal, followed>>

ASSUME AccountsAssumption ==
    /\ Readers \subseteq People
    /\ Openings \subseteq People \X (People \union {Nobody})
    /\ Followed \subseteq SUBSET {"bot", "legal"}

\* Every call of the Mini App registers or updates its user (withMiniAppAuth).
OpenMiniApp(p, code) ==
    /\ RegisterOrUpdateTelegramUser(p, code)
    /\ UNCHANGED <<bot, legal, followed>>

Init ==
    /\ BotInit
    /\ LegalInit
    /\ followed \in Followed

Next ==
    \/ \E opening \in Openings : OpenMiniApp(opening[1], opening[2])
    \/ "bot" \in followed /\ BotNext /\ UNCHANGED <<legal, followed>>
    \/ /\ "legal" \in followed
       /\ \/ \E language \in Languages : ReplaceFile(language)
          \/ \E p \in Readers \intersect DOMAIN users : RequestOf(p)
       /\ UNCHANGED <<registry, bot, followed>>

Spec == Init /\ [][Next]_vars /\ BotFairness

-----------------------------------------------------------------------------
(* Properties. *)

AccountsTypeOK == BotTypeOK /\ LegalTypeOK /\ followed \in Followed

\* The tables and what processes keep have their types, and who invited a user
\* is settled at his first contact, by either way in (withMiniAppAuth,
\* handleUpdate).
RegistryInv == AccountsTypeOK /\ InviterIsSettled

=============================================================================
