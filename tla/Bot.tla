-------------------------------- MODULE Bot ---------------------------------
(***************************************************************************)
(* The bot's side of an account (internal/handler/telegram.go, internal/   *)
(* repository/users.go): it polls Telegram for messages, registers who     *)
(* writes, and asks those who want it a list of questions, whose answers   *)
(* it keeps in the key-value store until the last.                         *)
(*                                                                         *)
(* Telegram keeps the messages until a poll asks for later ones; where the *)
(* bot is in the list only the process knows, so a crash repeats messages. *)
(***************************************************************************)
EXTENDS Naturals, Sequences, Tables, FiniteSets

CONSTANTS
    People, Nobody,
    Questions,      \* how many questions there are
    Messages,       \* bound: what people write
    MaxMessages,    \* bound: how many messages
    MaxCrashes, MaxFaults   \* bounds: crashes; calls that fail

VARIABLES
    users,      \* the users table, by Telegram id
    referrals,  \* the referrals table: <<inviter, invited>>
    saved,      \* the diagnostics table
    dialogue,   \* the key-value store: the answers each user has given so far
    sent,       \* Telegram: all messages, in order
    confirmed,  \* Telegram: how many of them it does not keep any more
    poller,     \* what the bot's process is doing
    times,      \* how often each message was handled
    crashes, faults

bot == <<saved, dialogue, sent, confirmed, poller, times, crashes, faults>>
registry == <<users, referrals>>

UserRow == [inviter : People \union {Nobody}, number : Nat \ {0}]
Message == [from : People, kind : {"menu", "diagnose", "text"}, code : People \union {Nobody}]
Answers == Seq(1..MaxMessages)

ASSUME BotAssumption ==
    /\ Nobody \notin People /\ IsFiniteSet(People)
    /\ Questions \in Nat \ {0} /\ {MaxMessages, MaxCrashes, MaxFaults} \subseteq Nat
    /\ Messages \subseteq Message

Down == [stage |-> "down"]
Ready(offset, batch) == [stage |-> "ready", offset |-> offset, batch |-> batch]

-----------------------------------------------------------------------------
(* Plausible mistakes, for checking that the properties notice them. *)

InviterLater(p, code) ==
    IF p \in DOMAIN users
    THEN [users EXCEPT ![p].inviter = IF @ = Nobody /\ code # p THEN code ELSE @]
    ELSE Insert(users, p, [inviter |-> code, number |-> Cardinality(DOMAIN users) + 1])
OffsetOfBatch(i) == Len(sent) + 1
StillAsking(u) == dialogue

-----------------------------------------------------------------------------
(* Registration, in one transaction of the only connection. *)

\* A code counts at the first contact and when somebody else owns it.
Inviter(p, code) == IF code \in DOMAIN users \ {p} THEN code ELSE Nobody

Registered(p, code) ==
    IF p \in DOMAIN users THEN users
    ELSE Insert(users, p, [inviter |-> Inviter(p, code), number |-> Cardinality(DOMAIN users) + 1])

RegisterOrUpdateTelegramUser(p, code) ==
    /\ users' = Registered(p, code)
    /\ referrals' =
        IF p \notin DOMAIN users /\ Inviter(p, code) # Nobody
        THEN referrals \union {<<Inviter(p, code), p>>}
        ELSE referrals

-----------------------------------------------------------------------------
(* Telegram. *)

Write(message) ==
    /\ Len(sent) < MaxMessages
    /\ sent' = Append(sent, message)
    /\ UNCHANGED <<registry, saved, dialogue, confirmed, poller, times, crashes, faults>>

\* What the next poll asks for, once message i has been taken.
NextOffset(i) == i + 1

Fault == faults < MaxFaults /\ faults' = faults + 1

\* Asking for messages from the offset on, the bot lets go of those before.
Poll ==
    /\ poller.stage = "ready" /\ poller.batch = <<>>
    /\ LET gone == IF poller.offset > confirmed + 1 THEN poller.offset - 1 ELSE confirmed
       IN  /\ gone > confirmed \/ Len(sent) > gone
           /\ confirmed' = gone
           /\ \/ poller' = Ready(poller.offset, [i \in 1..(Len(sent) - gone) |-> gone + i]) /\ UNCHANGED faults
              \/ Fault /\ UNCHANGED poller
    /\ UNCHANGED <<registry, saved, dialogue, sent, times, crashes>>

-----------------------------------------------------------------------------
(* handleUpdate, for the first message of the batch. *)

Current == Head(poller.batch)
From == sent[Current].from

Handled ==
    /\ times' = [times EXCEPT ![Current] = @ + 1]
    /\ poller' = Ready(poller.offset, Tail(poller.batch))

\* The offset moves on before the message is handled: a message that fails is
\* not asked for again.
TakeMessage ==
    /\ poller.stage = "ready" /\ poller.batch # <<>>
    /\ LET next == NextOffset(Current)
           offset == IF Current >= poller.offset THEN next ELSE poller.offset
       IN  \/ /\ RegisterOrUpdateTelegramUser(From, sent[Current].code)
              /\ poller' = [stage |-> "registered", offset |-> offset, batch |-> poller.batch]
              /\ UNCHANGED <<times, faults>>
           \/ /\ Fault
              /\ poller' = Ready(offset, Tail(poller.batch))
              /\ times' = [times EXCEPT ![Current] = @ + 1]
              /\ UNCHANGED registry
    /\ UNCHANGED <<saved, dialogue, sent, confirmed, crashes>>

\* The state of the questions after the last answer; that it may not be
\* deleted is ignored.
NoLongerAsking(u) == [v \in DOMAIN dialogue \ {u} |-> dialogue[v]]

\* The buttons of the menu are looked at first, then the questions, then the
\* other words.
Reply ==
    /\ poller.stage = "registered"
    /\ LET asking == From \in DOMAIN dialogue
           answers == IF asking THEN Append(dialogue[From], Current) ELSE <<>>
       IN  \/ /\ sent[Current].kind = "menu" \/ (sent[Current].kind = "text" /\ ~asking)
              /\ Handled /\ UNCHANGED <<dialogue, faults>>
           \/ /\ sent[Current].kind # "menu" /\ asking /\ Len(answers) >= Questions
              /\ \/ dialogue' = NoLongerAsking(From) /\ UNCHANGED faults
                 \/ Fault /\ UNCHANGED dialogue
              /\ poller' = [stage |-> "saving", offset |-> poller.offset, batch |-> poller.batch, answers |-> answers]
              /\ UNCHANGED times
           \/ /\ sent[Current].kind # "menu" /\ asking /\ Len(answers) < Questions
              /\ dialogue' = [dialogue EXCEPT ![From] = answers]
              /\ Handled /\ UNCHANGED faults
           \/ /\ sent[Current].kind = "diagnose" /\ ~asking
              /\ dialogue' = Insert(dialogue, From, <<>>)
              /\ Handled /\ UNCHANGED faults
           \/ Fault /\ sent[Current].kind # "menu" /\ Handled /\ UNCHANGED dialogue
    /\ UNCHANGED <<registry, saved, sent, confirmed, crashes>>

SaveDiagnostics ==
    /\ poller.stage = "saving"
    /\ \/ saved' = saved \union {[user |-> From, answers |-> poller.answers]} /\ UNCHANGED faults
       \/ Fault /\ UNCHANGED saved
    /\ Handled
    /\ UNCHANGED <<registry, dialogue, sent, confirmed, crashes>>

-----------------------------------------------------------------------------
(* What happens to the process and to the key-value store. *)

\* Answers are kept for a day after the last one; any time may have passed.
Forget(u) ==
    /\ u \in DOMAIN dialogue
    /\ dialogue' = [v \in DOMAIN dialogue \ {u} |-> dialogue[v]]
    /\ UNCHANGED <<registry, saved, sent, confirmed, poller, times, crashes, faults>>

\* The store is Redis, or it is lost with the process.
Crash ==
    /\ poller # Down /\ crashes < MaxCrashes
    /\ crashes' = crashes + 1
    /\ poller' = Down
    /\ dialogue' \in {dialogue, EmptyTable}
    /\ UNCHANGED <<registry, saved, sent, confirmed, times, faults>>

Start ==
    /\ poller = Down
    /\ poller' = Ready(0, <<>>)
    /\ UNCHANGED <<registry, saved, dialogue, sent, confirmed, times, crashes, faults>>

-----------------------------------------------------------------------------

BotInit ==
    /\ users = EmptyTable /\ referrals = {}
    /\ saved = {} /\ dialogue = EmptyTable
    /\ sent = <<>> /\ confirmed = 0
    /\ poller = Down
    /\ times = [i \in 1..MaxMessages |-> 0]
    /\ crashes = 0 /\ faults = 0

PollerStep == Poll \/ TakeMessage \/ Reply \/ SaveDiagnostics

BotNext ==
    \/ \E message \in Messages : Write(message)
    \/ PollerStep
    \/ \E u \in People : Forget(u)
    \/ Crash
    \/ Start

\* The polling loop goes on for as long as the process lives; calls need not fail.
BotFairness == WF_<<registry, bot>>(PollerStep)

-----------------------------------------------------------------------------
(* Properties. *)

BotTypeOK ==
    /\ IsTable(users, People, UserRow)
    /\ referrals \subseteq People \X People
    /\ saved \subseteq [user : People, answers : Answers]
    /\ IsTable(dialogue, People, Answers)
    /\ sent \in Seq(Message) /\ confirmed \in 0..Len(sent)
    /\ times \in [1..MaxMessages -> Nat]
    /\ crashes \in 0..MaxCrashes /\ faults \in 0..MaxFaults

\* Who invited a user is settled when he is registered: a code used later, by
\* another way in or again changes nothing, users and referrals agree, and an
\* inviter was there before those he invited (RegisterOrUpdateTelegramUser).
InviterIsSettled ==
    /\ referrals = {<<users[p].inviter, p>> : p \in {q \in DOMAIN users : users[q].inviter # Nobody}}
    /\ \A r \in referrals : r[1] \in DOMAIN users /\ users[r[1]].number < users[r[2]].number

\* The answers of a saved questionnaire are one to each question, the user's
\* own, in the order he gave them after he had asked for the questions, unless
\* a crash made the bot take messages again; two questionnaires have no answer
\* in common, unless the finished one stayed in the store (handleDiagnosticsText).
AnswersFitQuestions ==
    \A s \in saved :
        /\ Len(s.answers) = Questions
        /\ \A k \in DOMAIN s.answers : sent[s.answers[k]].from = s.user /\ sent[s.answers[k]].kind # "menu"
        /\ crashes = 0 =>
            /\ \A j, k \in DOMAIN s.answers : j < k => s.answers[j] < s.answers[k]
            /\ \E i \in 1..(s.answers[1] - 1) : sent[i].from = s.user /\ sent[i].kind = "diagnose"
        /\ crashes = 0 /\ faults = 0 =>
            \A other \in saved \ {s} : \A j, k \in 1..Questions : s.answers[j] # other.answers[k]

\* The bot always comes to have handled all messages there are, or its process
\* is down, and takes one again after a crash only (offset in StartLongPolling).
EveryMessageHandledOnce ==
    /\ [](\A i \in DOMAIN times : times[i] <= crashes + 1)
    /\ []<>(poller = Down \/ \A i \in 1..Len(sent) : times[i] > 0)

=============================================================================
