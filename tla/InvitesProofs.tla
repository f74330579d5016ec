--------------------------- MODULE InvitesProofs ----------------------------
(***************************************************************************)
(* Proofs about Invites: links lead where they were asked for, links of    *)
(* the app end with what they were given for, and a blocked user is out of *)
(* the chats, for any number of users, destinations, chats, requests under *)
(* way, changes and faults.                                                *)
(***************************************************************************)
EXTENDS Invites, TLAPS

-----------------------------------------------------------------------------
(***************************************************************************)
(* Types.                                                                  *)
(***************************************************************************)

LinkRow == [chat : Chats, expires : Nat, used : BOOLEAN, user : Users, dest : Destinations, by : {"app", "desk"}]

LEMMA DayType == Day \in Nat /\ Term \in Nat /\ MaxChanges \in Nat /\ MaxFaults \in Nat /\ Forever \in Nat \ {0}
BY InvitesAssumption, PlatformAssumption DEF Forever

LEMMA RightType == \A d \in Destinations : Right(d) \in Rights
BY InvitesAssumption DEF Right

\* What a request's stage tells about its fields.
LEMMA RequestShape ==
    ASSUME InvitesTypeOK, NEW tab \in Tabs
    PROVE  /\ requests[tab].stage \in {"asked", "creating"} => requests[tab].ask \in Ask
           /\ requests[tab].stage = "storing" => requests[tab].ask \in Ask /\ requests[tab].link \in Link
<1>1. requests[tab] \in Request \union {Idle}
  BY DEF InvitesTypeOK
<1>2. CASE requests[tab] \in [stage : {"asked", "creating"}, ask : Ask]
  BY <1>2
<1>3. CASE requests[tab] \in [stage : {"storing"}, ask : Ask, link : Link]
  BY <1>3
<1>4. CASE requests[tab] = Idle
  BY <1>4 DEF Idle
<1> QED
  BY <1>1, <1>2, <1>3, <1>4 DEF Request

LEMMA RequestForms ==
    /\ \A ask \in Ask : [stage |-> "asked", ask |-> ask] \in Request
    /\ \A ask \in Ask : [stage |-> "creating", ask |-> ask] \in Request
    /\ \A ask \in Ask, link \in Link : [stage |-> "storing", ask |-> ask, link |-> link] \in Request
BY DEF Request

BlockWork == [stage : {"blocking", "removing"}, at : Nat, user : Users, todo : SUBSET Chats]
InviteWork == [stage : {"inviting"}, at : Nat, user : Users, todo : SUBSET Ask, given : SUBSET (Ask \X Link)]

\* What the desk's stage tells about its fields.
LEMMA DeskShape ==
    ASSUME InvitesTypeOK
    PROVE  /\ desk.stage \in {"blocking", "removing"} => desk \in BlockWork
           /\ desk.stage = "inviting" => desk \in InviteWork
           /\ desk # Idle => desk.user \in Users /\ desk.stage \in {"blocking", "removing", "inviting"}
<1>1. desk \in DeskWork \union {Idle}
  BY DEF InvitesTypeOK
<1>2. CASE desk \in BlockWork
  BY <1>2 DEF BlockWork
<1>3. CASE desk \in InviteWork
  BY <1>3 DEF InviteWork
<1>4. CASE desk = Idle
  BY <1>4 DEF Idle
<1> QED
  BY <1>1, <1>2, <1>3, <1>4 DEF DeskWork, BlockWork, InviteWork

LEMMA InsertType ==
    ASSUME NEW table, NEW Ids, NEW Row, IsTable(table, Ids, Row), NEW i \in Ids, NEW row \in Row
    PROVE  IsTable(Insert(table, i, row), Ids, Row)
BY DEF IsTable, Insert

\* A recorded invite fits its table.
LEMMA RecordedType ==
    ASSUME InvitesTypeOK, NEW ask \in Ask, NEW l \in Link, NEW new \in Recorded(ask, l)
    PROVE  IsTable(new, InviteIds, InviteRow)
<1> DEFINE row == [user |-> ask.user, dest |-> ask.dest, chat |-> StoredChat(ask.chat), link |-> l,
                   expires |-> ask.expires, status |-> "issued", created |-> clock]
<1>1. PICK i \in NextId(InviteIds, invites) : new = Insert(invites, i, row)
  BY DEF Recorded
<1>2. ask.user \in Users /\ ask.dest \in Destinations /\ ask.chat \in Chats \union {NoChat} /\ ask.expires \in Nat
  BY DEF Ask
<1>3. StoredChat(ask.chat) \in Chats \union {"manual"}
  BY <1>2 DEF StoredChat
<1>4. row \in InviteRow
  BY <1>2, <1>3 DEF InviteRow, InvitesTypeOK, PlatformTypeOK
<1>5. i \in InviteIds
  BY DEF NextId
<1>6. IsTable(invites, InviteIds, InviteRow)
  BY DEF InvitesTypeOK
<1> HIDE DEF row
<1> QED
  BY <1>1, <1>4, <1>5, <1>6, InsertType

LEMMA NewLinkType ==
    ASSUME InvitesTypeOK, NEW ask \in Ask, ask.chat # NoChat, NEW by \in {"app", "desk"},
           NEW l \in NextId(LinkIds, links)
    PROVE  IsTable(Insert(links, l, NewLink(ask, by)), LinkIds, LinkRow)
<1>1. NewLink(ask, by) \in LinkRow
  BY DEF NewLink, LinkRow, Ask
<1>2. l \in LinkIds
  BY DEF NextId
<1>3. IsTable(links, LinkIds, LinkRow)
  BY DEF InvitesTypeOK, LinkRow
<1> QED
  BY <1>1, <1>2, <1>3, InsertType

LEMMA GivenType ==
    ASSUME NEW ask \in Ask, NEW l \in Link
    PROVE  Given(ask, l) \in [user : Users, dest : Destinations, chat : Chats \union {NoChat}, link : Link]
BY DEF Given, Ask

LEMMA InitType == Init => InvitesTypeOK
<1> SUFFICES ASSUME Init PROVE InvitesTypeOK
  OBVIOUS
<1>1. IsTable(chat, Destinations, Chats \union {NoChat})
  BY InvitesAssumption DEF Init
<1>2. IsTable(invites, InviteIds, InviteRow) /\ IsTable(links, LinkIds, LinkRow)
  BY DEF Init, IsTable, EmptyTable
<1>3. until \in [Users -> [Rights -> Nat]] /\ requests \in [Tabs -> Request \union {Idle}]
  BY InvitesAssumption DEF Init
<1> QED
  BY <1>1, <1>2, <1>3 DEF Init, InvitesTypeOK, PlatformInit, PlatformTypeOK, LinkRow

\* What a list would have named are chats.
LEMMA OutOfSightType == InvitesTypeOK => OutOfSight \subseteq Users \X Chats
<1> SUFFICES ASSUME InvitesTypeOK, desk.stage = "blocking" PROVE OutOfSight \subseteq Users \X Chats
  BY DEF OutOfSight
<1>1. desk.user \in Users
  BY DeskShape DEF BlockWork
<1>2. ToFind(desk.user, desk.at) \subseteq Chats
  BY DEF ToFind, ChatsOf, InvitesTypeOK, IsTable
<1> QED
  BY <1>1, <1>2 DEF OutOfSight

LEMMA CourseTermsType == (\A term \in CourseTerms : term \in Nat \ {0}) /\ (\A end \in FixedEnds : end \in Nat)
BY InvitesAssumption

\* A course is granted to an end that is still to come.
LEMMA CourseEndsType ==
    ASSUME InvitesTypeOK, NEW end \in CourseEnds
    PROVE  end \in Nat \ {0} /\ (clock <= MaxTime => end > clock)
<1>1. clock \in Nat /\ MaxTime \in Nat /\ Day \in Nat
  BY PlatformAssumption, DayType DEF InvitesTypeOK, PlatformTypeOK
<1>2. CASE end \in {clock + term : term \in CourseTerms}
  BY <1>1, <1>2, CourseTermsType
<1>3. CASE end \in {e \in FixedEnds : e > clock}
  BY <1>1, <1>3, CourseTermsType
<1>4. CASE end = Forever
  BY <1>1, <1>4 DEF Forever
<1> QED
  BY <1>2, <1>3, <1>4 DEF CourseEnds

\* Purchases, edits and the clock.
LEMMA WorldType ==
    ASSUME InvitesTypeOK,
           \/ \E u \in Users : BuySubscription(u)
           \/ \E u \in Users, course \in Bought, end \in CourseEnds : GrantCourse(u, course, end)
           \/ \E u \in Users, right \in Taken : Revoke(u, right)
           \/ \E edit \in Edits : EditDestination(edit)
           \/ TimePasses \/ ExpireTelegramInvites
    PROVE  InvitesTypeOK'
<1> USE DEF access, telegram, observed
<1>1. ASSUME NEW u \in Users, BuySubscription(u) PROVE InvitesTypeOK'
  <2>1. until[u] \in [Rights -> Nat] /\ "subscription" \in Rights /\ clock \in Nat /\ Term \in Nat
    BY InvitesAssumption, DayType DEF InvitesTypeOK, PlatformTypeOK
  <2>2. [until[u] EXCEPT !["subscription"] = (IF Holds(u, "subscription") THEN @ ELSE clock) + Term] \in [Rights -> Nat]
    BY <2>1
  <2>3. until' \in [Users -> [Rights -> Nat]]
    BY <1>1, <2>1, <2>2 DEF BuySubscription, InvitesTypeOK
  <2> QED
    BY <1>1, <2>3 DEF BuySubscription, InvitesTypeOK, PlatformTypeOK, IsTable
<1>2. ASSUME NEW u \in Users, NEW course \in Bought, NEW end \in CourseEnds, GrantCourse(u, course, end)
      PROVE  InvitesTypeOK'
  <2>1. course \in Rights /\ end \in Nat
    BY InvitesAssumption, CourseEndsType
  <2>2. until' \in [Users -> [Rights -> Nat]] /\ curtailed' \subseteq Users \X Rights
    BY <1>2, <2>1 DEF GrantCourse, InvitesTypeOK
  <2> QED
    BY <1>2, <2>2 DEF GrantCourse, InvitesTypeOK, PlatformTypeOK, IsTable
<1>3. ASSUME NEW u \in Users, NEW right \in Taken, Revoke(u, right) PROVE InvitesTypeOK'
  <2>1. right \in Rights
    BY InvitesAssumption
  <2>2. until' \in [Users -> [Rights -> Nat]]
    BY <1>3, <2>1 DEF Revoke, InvitesTypeOK
  <2>3. curtailed' \subseteq Users \X Rights
    BY <1>3, <2>1 DEF Revoke, InvitesTypeOK
  <2>4. excused' \subseteq Users \X Chats
    BY <1>3, OutOfSightType DEF Revoke, InvitesTypeOK
  <2> QED
    BY <1>3, <2>2, <2>3, <2>4 DEF Revoke, InvitesTypeOK, PlatformTypeOK, IsTable
<1>4. ASSUME NEW edit \in Edits, EditDestination(edit) PROVE InvitesTypeOK'
  <2>1. edit.dest \in Destinations /\ edit.chat \in Chats \union {NoChat}
    BY InvitesAssumption
  <2>2. IsTable(chat, Destinations, Chats \union {NoChat})'
    BY <1>4, <2>1 DEF EditDestination, InvitesTypeOK, IsTable
  <2>3. archived' \subseteq Destinations
    BY <1>4, <2>1 DEF EditDestination, InvitesTypeOK
  <2>4. excused' \subseteq Users \X Chats
    BY <1>4, OutOfSightType DEF EditDestination, InvitesTypeOK
  <2> QED
    BY <1>4, <2>2, <2>3, <2>4 DEF EditDestination, InvitesTypeOK, PlatformTypeOK, IsTable
<1>5. CASE TimePasses
  BY <1>5, OutOfSightType DEF TimePasses, PassTime, InvitesTypeOK, PlatformTypeOK, IsTable
<1>6. CASE ExpireTelegramInvites
  <2>1. ASSUME NEW i \in DOMAIN invites PROVE [invites[i] EXCEPT !.status = "expired"] \in InviteRow
    <3>1. invites[i] \in InviteRow
      BY DEF InvitesTypeOK, IsTable
    <3> QED
      BY <3>1 DEF InviteRow
  <2>2. IsTable(invites, InviteIds, InviteRow)'
    BY <1>6, <2>1 DEF ExpireTelegramInvites, InvitesTypeOK, IsTable
  <2> QED
    BY <1>6, <2>2 DEF ExpireTelegramInvites, InvitesTypeOK, PlatformTypeOK, IsTable
<1> QED
  BY <1>1, <1>3, <1>4, <1>5, <1>6, <1>2

\* What is asked for has a link of the bot's or one typed in.
AskedCanBeHad ==
    \A tab \in Tabs : requests[tab].stage = "asked" => requests[tab].ask.dest \in ByBot \union Manual

\* A user's request for a link, and joining by it.
LEMMA RequestType ==
    ASSUME InvitesTypeOK, AskedCanBeHad, NEW tab \in Tabs, RequestStep(tab)
    PROVE  InvitesTypeOK'
<1> USE DEF access, telegram, observed, Fault
<1>1. ASSUME NEW u \in Users, NEW d \in DOMAIN chat, AskInvite(tab, u, d) PROVE InvitesTypeOK'
  <2> DEFINE ask == [user |-> u, dest |-> d, chat |-> chat[d], expires |-> LinkEnd(u, d)]
  <2>1. d \in Destinations /\ chat[d] \in Chats \union {NoChat}
    BY DEF InvitesTypeOK, IsTable
  <2>2. LinkEnd(u, d) \in Nat
    <3>1. "subscription" \in Rights /\ (Source[d] = "course" => d \in Rights)
      BY <2>1, InvitesAssumption
    <3>2. until[u] \in [Rights -> Nat] /\ clock + Day \in Nat
      BY DayType DEF InvitesTypeOK, PlatformTypeOK
    <3> QED
      BY <3>1, <3>2 DEF LinkEnd
  <2>3. ask \in Ask
    BY <2>1, <2>2 DEF Ask
  <2>4. requests' = [requests EXCEPT ![tab] = [stage |-> "asked", ask |-> ask]]
    BY <1>1 DEF AskInvite
  <2> HIDE DEF ask
  <2>5. requests' \in [Tabs -> Request \union {Idle}]
    BY <2>3, <2>4, RequestForms DEF InvitesTypeOK
  <2> QED
    BY <1>1, <2>5 DEF AskInvite, InvitesTypeOK, PlatformTypeOK, IsTable
<1>2. CASE LookUpInvite(tab)
  <2>1. requests[tab].stage = "asked" /\ requests[tab].ask \in Ask
    BY <1>2, RequestShape DEF LookUpInvite
  <2>2. CASE \E i \in Newest(invites, Reusable(requests[tab].ask)) :
                /\ held' = held \union {Given(requests[tab].ask, invites[i].link)}
                /\ requests' = [requests EXCEPT ![tab] = Idle]
    <3>1. PICK i \in Reusable(requests[tab].ask) :
                /\ held' = held \union {Given(requests[tab].ask, invites[i].link)}
                /\ requests' = [requests EXCEPT ![tab] = Idle]
      BY <2>2 DEF Newest
    <3>2. invites[i] \in InviteRow
      BY DEF Reusable, InvitesTypeOK, IsTable
    <3>3. Given(requests[tab].ask, invites[i].link)
              \in [user : Users, dest : Destinations, chat : Chats \union {NoChat}, link : Link]
      BY <2>1, <3>2, GivenType DEF InviteRow
    <3> QED
      BY <1>2, <3>1, <3>3 DEF LookUpInvite, InvitesTypeOK, PlatformTypeOK, IsTable
  <2>3. CASE /\ requests' = [requests EXCEPT ![tab] =
                    IF requests[tab].ask.dest \in ByBot
                    THEN [stage |-> "creating", ask |-> requests[tab].ask]
                    ELSE [stage |-> "storing", ask |-> requests[tab].ask, link |-> requests[tab].ask.dest]]
             /\ UNCHANGED held
    <3>1. requests[tab].ask.dest \notin ByBot => requests[tab].ask.dest \in Link
      BY <2>1 DEF AskedCanBeHad, Link
    <3>2. requests' \in [Tabs -> Request \union {Idle}]
      BY <2>1, <2>3, <3>1, RequestForms DEF InvitesTypeOK
    <3> QED
      BY <1>2, <2>3, <3>2 DEF LookUpInvite, InvitesTypeOK, PlatformTypeOK, IsTable
  <2> QED
    BY <1>2, <2>2, <2>3 DEF LookUpInvite
<1>3. CASE CreateInviteLink(tab)
  <2>1. requests[tab].ask \in Ask /\ requests[tab].ask.chat # NoChat
    BY <1>3, RequestShape DEF CreateInviteLink
  <2>2. PICK l \in NextId(LinkIds, links) :
            /\ links' = Insert(links, l, NewLink(requests[tab].ask, "app"))
            /\ requests' = [requests EXCEPT ![tab] = [stage |-> "storing", ask |-> requests[tab].ask, link |-> l]]
    BY <1>3 DEF CreateInviteLink
  <2>3. IsTable(links', LinkIds, LinkRow)
    BY <2>1, <2>2, NewLinkType
  <2>4. requests' \in [Tabs -> Request \union {Idle}]
    BY <2>1, <2>2, RequestForms DEF InvitesTypeOK, Link, NextId
  <2>5. IsTable(invites, InviteIds, InviteRow)' /\ IsTable(chat, Destinations, Chats \union {NoChat})'
    BY <1>3 DEF CreateInviteLink, InvitesTypeOK, IsTable
  <2> QED
    BY <1>3, <2>3, <2>4, <2>5 DEF CreateInviteLink, InvitesTypeOK, PlatformTypeOK, LinkRow
<1>4. CASE LinkRefused(tab)
  <2>1. requests[tab].ask \in Ask
    BY <1>4, RequestShape DEF LinkRefused
  <2>2. requests' \in [Tabs -> Request \union {Idle}]
    BY <1>4, <2>1, RequestForms DEF LinkRefused, InvitesTypeOK, Link
  <2> QED
    BY <1>4, <2>2 DEF LinkRefused, InvitesTypeOK, PlatformTypeOK, IsTable
<1>5. CASE RecordInvite(tab)
  <2>1. requests[tab].ask \in Ask /\ requests[tab].link \in Link
    BY <1>5, RequestShape DEF RecordInvite
  <2>2. invites' \in Recorded(requests[tab].ask, requests[tab].link) \/ UNCHANGED invites
    BY <1>5 DEF RecordInvite
  <2>3. IsTable(invites', InviteIds, InviteRow)
    BY <2>1, <2>2, RecordedType DEF InvitesTypeOK
  <2>4. held' \subseteq [user : Users, dest : Destinations, chat : Chats \union {NoChat}, link : Link]
    BY <1>5, <2>1, GivenType DEF RecordInvite, InvitesTypeOK
  <2>5. requests' \in [Tabs -> Request \union {Idle}]
    BY <1>5 DEF RecordInvite, InvitesTypeOK
  <2> QED
    BY <1>5, <2>3, <2>4, <2>5 DEF RecordInvite, InvitesTypeOK, PlatformTypeOK, IsTable
<1>6. CASE RequestCutOff(tab)
  BY <1>6 DEF RequestCutOff, InvitesTypeOK, PlatformTypeOK, IsTable
<1> QED
  BY <1>1, <1>2, <1>3, <1>4, <1>5, <1>6 DEF RequestStep

LEMMA JoinType ==
    ASSUME InvitesTypeOK, NEW u \in Users, NEW l \in DOMAIN links \union Manual, Join(u, l)
    PROVE  InvitesTypeOK'
<1>1. LinkChat(l) \in Chats
  BY DEF Join
<1>2. IsTable(links', LinkIds, LinkRow)
  <2>1. ASSUME l \in DOMAIN links PROVE [links[l] EXCEPT !.used = TRUE] \in LinkRow
    <3>1. links[l] \in LinkRow
      BY <2>1 DEF InvitesTypeOK, IsTable, LinkRow
    <3> QED
      BY <3>1 DEF LinkRow
  <2> QED
    BY <2>1 DEF Join, InvitesTypeOK, IsTable, LinkRow
<1>3. members' \subseteq Users \X Chats /\ excused' \subseteq Users \X Chats
  BY <1>1 DEF Join, InvitesTypeOK
<1> QED
  BY <1>2, <1>3 DEF Join, access, InvitesTypeOK, PlatformTypeOK, IsTable, LinkRow

\* Blocking.
LEMMA BlockType ==
    ASSUME InvitesTypeOK,
           \/ \E u \in Users : BlockUser(u)
           \/ CloseAccess \/ (\E c \in Chats : RemoveChatMember(c)) \/ BlockEnds
    PROVE  InvitesTypeOK'
<1> USE DEF access, telegram, observed, Fault
<1>1. ASSUME NEW u \in Users, BlockUser(u) PROVE InvitesTypeOK'
  <2>1. desk' \in DeskWork
    BY <1>1 DEF BlockUser, DeskWork
  <2>2. excused' \subseteq Users \X Chats
    BY <1>1 DEF BlockUser, InvitesTypeOK
  <2> QED
    BY <1>1, <2>1, <2>2 DEF BlockUser, InvitesTypeOK, PlatformTypeOK, IsTable
<1>2. CASE CloseAccess
  <2>1. desk \in BlockWork
    BY <1>2, DeskShape DEF CloseAccess
  <2>2. desk' \in DeskWork /\ closed' \subseteq Users
    BY <1>2, <2>1 DEF CloseAccess, BlockWork, DeskWork, InvitesTypeOK
  <2> QED
    BY <1>2, <2>2 DEF CloseAccess, InvitesTypeOK, PlatformTypeOK, IsTable
<1>3. ASSUME NEW c \in Chats, RemoveChatMember(c) PROVE InvitesTypeOK'
  <2>1. desk \in BlockWork
    BY <1>3, DeskShape DEF RemoveChatMember
  <2>2. desk' \in DeskWork
    BY <1>3, <2>1 DEF RemoveChatMember, BlockWork, DeskWork
  <2>3. banned' \union members' \union excused' \subseteq Users \X Chats
    BY <1>3, <2>1 DEF RemoveChatMember, BlockWork, InvitesTypeOK
  <2> QED
    BY <1>3, <2>2, <2>3 DEF RemoveChatMember, InvitesTypeOK, PlatformTypeOK, IsTable
<1>4. CASE BlockEnds
  BY <1>4 DEF BlockEnds, InvitesTypeOK, PlatformTypeOK, IsTable
<1> QED
  BY <1>1, <1>2, <1>3, <1>4

\* What a link given on unblocking is made from.
Timed(ask) == [ask EXCEPT !.expires = RejoinEnd(@)]

LEMMA TimedType ==
    ASSUME InvitesTypeOK, NEW ask \in Ask
    PROVE  /\ Timed(ask) \in Ask
           /\ Timed(ask).user = ask.user /\ Timed(ask).dest = ask.dest /\ Timed(ask).chat = ask.chat
<1>1. RejoinEnd(ask.expires) \in Nat
  BY DayType DEF RejoinEnd, Ask, InvitesTypeOK, PlatformTypeOK
<1> QED
  BY <1>1 DEF Timed, Ask

\* A destination is done with, with a link to give or without.
LEMMA DeskGives ==
    ASSUME desk \in InviteWork,
           NEW ask \in Ask
    PROVE  /\ [desk EXCEPT !.todo = @ \ {ask}] \in DeskWork
           /\ \A l \in Link : [desk EXCEPT !.todo = @ \ {ask}, !.given = @ \union {<<ask, l>>}] \in DeskWork
<1>1. desk.todo \ {ask} \in SUBSET Ask /\ \A l \in Link : desk.given \union {<<ask, l>>} \in SUBSET (Ask \X Link)
  BY DEF InviteWork
<1> QED
  BY <1>1 DEF InviteWork, DeskWork

\* The lists are read, for blocking or for inviting back.
LEMMA ListType ==
    ASSUME InvitesTypeOK, ListDestinations
    PROVE  InvitesTypeOK'
<1> USE DEF access, telegram, observed, Fault
<1> DEFINE u == desk.user
           here == {d \in OpenDestinations(u) : Source[d] = Lists[desk.at]}
           ask(d) == [user |-> u, dest |-> d, chat |-> chat[d], expires |-> OwnEnd(u, d)]
<1>1. u \in Users
  BY DeskShape DEF ListDestinations, BlockWork, InviteWork
<1>2. PICK lost \in {{}, here} \union {{d} : d \in here} :
        \/ /\ desk.stage = "blocking"
           /\ desk' = [desk EXCEPT !.at = NextList(@, lost), !.todo = @ \union ChatsOf(here \ lost)]
           /\ excused' = excused \union ({u} \X ChatsOf(lost))
        \/ /\ desk.stage = "inviting"
           /\ desk' = [desk EXCEPT !.at = NextList(@, lost), !.todo = @ \union {ask(d) : d \in here \ lost}]
           /\ UNCHANGED excused
  BY DEF ListDestinations
<1>3. lost \subseteq here /\ here \subseteq DOMAIN chat
  BY DEF OpenDestinations
<1>4. \A S \in SUBSET here : ChatsOf(S) \subseteq Chats
  BY <1>3 DEF ChatsOf, InvitesTypeOK, IsTable
<1>5. ASSUME NEW d \in DOMAIN chat PROVE ask(d) \in Ask
  <2>1. d \in Destinations /\ chat[d] \in Chats \union {NoChat} /\ (Source[d] = "course" => d \in Rights)
    BY InvitesAssumption DEF InvitesTypeOK, IsTable
  <2>2. OwnEnd(u, d) \in Nat
    BY <1>1, <2>1, DayType DEF OwnEnd, InvitesTypeOK
  <2> QED
    BY <1>1, <2>1, <2>2 DEF Ask
<1> HIDE DEF u, here, ask
<1>6. desk' \in DeskWork /\ excused' \subseteq Users \X Chats
  <2>1. CASE desk.stage = "blocking"
    <3>1. desk \in BlockWork
      BY <2>1, DeskShape
    <3>2. /\ desk.at + 1 \in Nat /\ desk.todo \union ChatsOf(here \ lost) \in SUBSET Chats
          /\ desk' = [desk EXCEPT !.at = @ + 1, !.todo = @ \union ChatsOf(here \ lost)]
      BY <1>2, <1>4, <2>1, <3>1 DEF BlockWork, NextList
    <3>4. desk' \in BlockWork
      BY <3>1, <3>2 DEF BlockWork
    <3>3. ChatsOf(lost) \subseteq Chats
      BY <1>3, <1>4
    <3> QED
      BY <1>1, <1>2, <2>1, <3>3, <3>4 DEF BlockWork, DeskWork, InvitesTypeOK
  <2>2. CASE desk.stage = "inviting"
    <3>1. desk \in InviteWork
      BY <2>2, DeskShape
    <3>2. {ask(d) : d \in here \ lost} \subseteq Ask
      BY <1>3, <1>5
    <3>3. /\ desk.at + 1 \in Nat /\ desk.todo \union {ask(d) : d \in here \ lost} \in SUBSET Ask
          /\ desk' = [desk EXCEPT !.at = @ + 1, !.todo = @ \union {ask(d) : d \in here \ lost}]
      BY <1>2, <2>2, <3>1, <3>2 DEF InviteWork, NextList
    <3>4. desk' \in InviteWork
      BY <3>1, <3>3 DEF InviteWork
    <3> QED
      BY <1>2, <2>2, <3>4 DEF InviteWork, DeskWork, InvitesTypeOK
  <2> QED
    BY <2>1, <2>2 DEF ListDestinations
<1> QED
  BY <1>6 DEF ListDestinations, InvitesTypeOK, PlatformTypeOK, IsTable

\* Unblocking.
LEMMA UnblockType ==
    ASSUME InvitesTypeOK,
           \/ \E u \in Users : UnblockUser(u)
           \/ ListDestinations \/ (desk.stage = "inviting" /\ \E ask \in desk.todo : InviteBack(ask))
           \/ TellUser \/ DeskCutOff
    PROVE  InvitesTypeOK'
<1> USE DEF access, telegram, observed, Fault
<1>1. ASSUME NEW u \in Users, UnblockUser(u) PROVE InvitesTypeOK'
  BY <1>1 DEF UnblockUser, DeskWork, InvitesTypeOK, PlatformTypeOK, IsTable
<1>2. CASE ListDestinations
  BY <1>2, ListType
<1>3. ASSUME desk.stage = "inviting", NEW ask \in desk.todo, InviteBack(ask) PROVE InvitesTypeOK'
  <2>1. desk \in InviteWork /\ ask \in Ask
    BY <1>3, DeskShape DEF InviteWork
  <2>2. CASE UNCHANGED <<links, invites>>
    <3>1. \/ desk' = [desk EXCEPT !.todo = @ \ {ask}]
          \/ \E l \in Link : desk' = [desk EXCEPT !.todo = @ \ {ask}, !.given = @ \union {<<ask, l>>}]
      BY <1>3 DEF InviteBack, Link, NextId
    <3>2. desk' \in DeskWork
      <4>1. CASE desk' = [desk EXCEPT !.todo = @ \ {ask}]
        BY <2>1, <4>1, DeskGives
      <4>2. ASSUME NEW l \in Link, desk' = [desk EXCEPT !.todo = @ \ {ask}, !.given = @ \union {<<ask, l>>}]
            PROVE  desk' \in DeskWork
        BY <2>1, <4>2, DeskGives
      <4> QED
        BY <3>1, <4>1, <4>2
    <3> QED
      BY <1>3, <2>2, <3>2 DEF InviteBack, InvitesTypeOK, PlatformTypeOK, IsTable
  <2>3. CASE \E l \in NextId(LinkIds, links) :
                /\ ask.chat # NoChat
                /\ links' = Insert(links, l, NewLink(Timed(ask), "desk"))
                /\ invites' \in Recorded(Timed(ask), l) \/ UNCHANGED invites
                /\ desk' = [desk EXCEPT !.todo = @ \ {ask}, !.given = @ \union {<<ask, l>>}]
    <3>1. PICK l \in NextId(LinkIds, links) :
                /\ ask.chat # NoChat
                /\ links' = Insert(links, l, NewLink(Timed(ask), "desk"))
                /\ invites' \in Recorded(Timed(ask), l) \/ UNCHANGED invites
                /\ desk' = [desk EXCEPT !.todo = @ \ {ask}, !.given = @ \union {<<ask, l>>}]
      BY <2>3
    <3>2. l \in Link
      BY DEF NextId, Link
    <3>3. Timed(ask) \in Ask /\ Timed(ask).chat # NoChat
      BY <2>1, <3>1, TimedType
    <3>4. IsTable(links', LinkIds, LinkRow)
      BY <3>1, <3>3, NewLinkType
    <3>5. IsTable(invites', InviteIds, InviteRow)
      BY <3>1, <3>2, <3>3, RecordedType DEF InvitesTypeOK
    <3>6. desk' \in DeskWork
      BY <2>1, <3>1, <3>2, DeskGives
    <3> QED
      BY <1>3, <3>4, <3>5, <3>6 DEF InviteBack, InvitesTypeOK, PlatformTypeOK, IsTable, LinkRow
  <2> QED
    BY <1>3, <2>2, <2>3 DEF InviteBack, Timed
<1>4. CASE TellUser
  <2>1. desk \in InviteWork
    BY <1>4, DeskShape DEF TellUser
  <2>2. \A g \in desk.given : g[1] \in Ask /\ g[2] \in Link
    BY <2>1 DEF InviteWork
  <2>3. held' \subseteq [user : Users, dest : Destinations, chat : Chats \union {NoChat}, link : Link]
    BY <1>4, <2>2, GivenType DEF TellUser, InvitesTypeOK
  <2> QED
    BY <1>4, <2>3 DEF TellUser, InvitesTypeOK, PlatformTypeOK, IsTable
<1>5. CASE DeskCutOff
  <2>1. excused' \subseteq Users \X Chats
    BY <1>5, DeskShape DEF DeskCutOff, InvitesTypeOK
  <2> QED
    BY <1>5, <2>1 DEF DeskCutOff, InvitesTypeOK, PlatformTypeOK, IsTable
<1> QED
  BY <1>1, <1>2, <1>3, <1>4, <1>5

LEMMA AskedStays == InvitesTypeOK /\ AskedCanBeHad /\ [Next]_vars => AskedCanBeHad'
<1> SUFFICES ASSUME InvitesTypeOK, AskedCanBeHad, [Next]_vars PROVE AskedCanBeHad'
  OBVIOUS
<1>1. CASE UNCHANGED requests
  BY <1>1 DEF AskedCanBeHad
<1>2. ASSUME NEW tab \in Tabs, RequestStep(tab) PROVE AskedCanBeHad'
  <2> SUFFICES ASSUME NEW t \in Tabs, requests'[t].stage = "asked"
               PROVE  requests'[t].ask.dest \in ByBot \union Manual
    BY DEF AskedCanBeHad
  <2>1. CASE t # tab
    <3>1. requests'[t] = requests[t]
      BY <1>2, <2>1 DEF RequestStep, AskInvite, LookUpInvite, CreateInviteLink, LinkRefused, RecordInvite,
                        RequestCutOff, InvitesTypeOK
    <3> QED
      BY <3>1 DEF AskedCanBeHad
  <2>2. CASE t = tab
    <3>1. ASSUME NEW u \in Users, NEW d \in DOMAIN chat, AskInvite(tab, u, d)
          PROVE  requests'[t].ask.dest \in ByBot \union Manual
      BY <2>2, <3>1 DEF AskInvite, InvitesTypeOK
    <3>2. CASE ~\E u \in Users, d \in DOMAIN chat : AskInvite(tab, u, d)
      BY <1>2, <2>2, <3>2 DEF RequestStep, LookUpInvite, CreateInviteLink, LinkRefused, RecordInvite,
                              RequestCutOff, InvitesTypeOK, Idle
    <3> QED
      BY <3>1, <3>2
  <2> QED
    BY <2>1, <2>2
<1>3. Next /\ ~UNCHANGED requests => \E tab \in Tabs : RequestStep(tab)
  BY DEF Next, DeskStep, BuySubscription, GrantCourse, Revoke, EditDestination, TimePasses, ExpireTelegramInvites, Join, BlockUser,
         UnblockUser, CloseAccess, RemoveChatMember, BlockEnds, ListDestinations, InviteBack, TellUser,
         DeskCutOff
<1> QED
  BY <1>1, <1>2, <1>3 DEF vars

TypeInv == InvitesTypeOK /\ AskedCanBeHad

LEMMA NextType == TypeInv /\ [Next]_vars => TypeInv'
<1>1. InvitesTypeOK /\ UNCHANGED vars => InvitesTypeOK'
  BY DEF vars, access, telegram, observed, InvitesTypeOK, PlatformTypeOK, IsTable
<1>2. TypeInv /\ [Next]_vars => InvitesTypeOK'
  BY <1>1, WorldType, RequestType, JoinType, BlockType, UnblockType DEF Next, DeskStep, TypeInv
<1> QED
  BY <1>2, AskedStays DEF TypeInv

-----------------------------------------------------------------------------
(***************************************************************************)
(* Links.  Whatever carries a link of the bot's, a row, a request, a       *)
(* message on its way or a user, agrees with Telegram about what it is for. *)
(***************************************************************************)

Leads(table, user, dest, where, l) ==
    l \in LinkIds =>
        /\ l \in DOMAIN table
        /\ table[l].user = user /\ table[l].dest = dest /\ table[l].chat = where

RowLeads(table, row) == Leads(table, row.user, row.dest, row.chat, row.link)
AskLeads(table, ask, l) == Leads(table, ask.user, ask.dest, ask.chat, l)

InvitesLead == \A i \in DOMAIN invites : RowLeads(links, invites[i])
RequestsLead ==
    \A tab \in Tabs : requests[tab].stage = "storing" => AskLeads(links, requests[tab].ask, requests[tab].link)
DeskLeads == desk.stage = "inviting" => \A g \in desk.given : AskLeads(links, g[1], g[2])
HeldLeads == \A h \in held : RowLeads(links, h)

LinksAgree == InvitesLead /\ RequestsLead /\ DeskLeads /\ HeldLeads

\* Telegram forgets no link and does not change what one is for.
LinksStay ==
    \A l \in DOMAIN links :
        /\ l \in DOMAIN links'
        /\ links'[l].user = links[l].user /\ links'[l].dest = links[l].dest /\ links'[l].chat = links[l].chat
        /\ links'[l].by = links[l].by /\ links'[l].expires = links[l].expires

LEMMA NextLinks == TypeInv /\ [Next]_vars => LinksStay
<1> SUFFICES ASSUME TypeInv, [Next]_vars PROVE LinksStay
  OBVIOUS
<1>1. CASE UNCHANGED links
  BY <1>1 DEF LinksStay
<1>2. ASSUME NEW l \in NextId(LinkIds, links), NEW row, links' = Insert(links, l, row) PROVE LinksStay
  BY <1>2 DEF LinksStay, Insert, NextId
<1>3. ASSUME NEW u \in Users, NEW l \in DOMAIN links \union Manual, Join(u, l) PROVE LinksStay
  <2>1. \A m \in DOMAIN links : links[m] \in LinkRow
    BY DEF TypeInv, InvitesTypeOK, IsTable, LinkRow
  <2> QED
    BY <1>3, <2>1 DEF Join, LinksStay, LinkRow
<1>4. \A tab \in Tabs : CreateInviteLink(tab) =>
        \E l \in NextId(LinkIds, links), row \in {NewLink(requests[tab].ask, "app")} : links' = Insert(links, l, row)
  BY DEF CreateInviteLink
<1>5. \A ask \in desk.todo : InviteBack(ask) =>
        \/ UNCHANGED links
        \/ \E l \in NextId(LinkIds, links), row \in {NewLink(Timed(ask), "desk")} : links' = Insert(links, l, row)
  BY DEF InviteBack, Timed
<1>6. Next => \/ UNCHANGED links
              \/ \E tab \in Tabs : CreateInviteLink(tab)
              \/ \E u \in Users, l \in DOMAIN links \union Manual : Join(u, l)
              \/ \E ask \in desk.todo : InviteBack(ask)
  BY DEF Next, DeskStep, RequestStep, BuySubscription, GrantCourse, Revoke, EditDestination, TimePasses, ExpireTelegramInvites,
         AskInvite, LookUpInvite, LinkRefused, RecordInvite, RequestCutOff, BlockUser, UnblockUser, CloseAccess,
         RemoveChatMember, BlockEnds, ListDestinations, TellUser, DeskCutOff, access, telegram, observed
<1> QED
  BY <1>1, <1>2, <1>3, <1>4, <1>5, <1>6 DEF vars, telegram

LEMMA LeadsStay ==
    ASSUME LinksStay
    PROVE  /\ \A row : RowLeads(links, row) => RowLeads(links', row)
           /\ \A ask, l : AskLeads(links, ask, l) => AskLeads(links', ask, l)
BY DEF Leads, RowLeads, AskLeads, LinksStay

\* A new link leads where the request said.
LEMMA NewLinkLeads ==
    ASSUME NEW ask \in Ask, NEW by, NEW l \in NextId(LinkIds, links), links' = Insert(links, l, NewLink(ask, by))
    PROVE  AskLeads(links', ask, l)
BY DEF Leads, AskLeads, Insert, NewLink

\* A link typed in is none of the bot's.
LEMMA ManualLeads == \A table, ask, l : l \in Manual => AskLeads(table, ask, l)
BY InvitesAssumption DEF Leads, AskLeads

LEMMA GivenLeads == \A table, ask, l : AskLeads(table, ask, l) => RowLeads(table, Given(ask, l))
BY DEF AskLeads, RowLeads, Given

\* A row for a link that leads to a chat names that chat.
LEMMA RecordedLeads ==
    ASSUME InvitesLead, LinksStay, IsTable(links', LinkIds, LinkRow),
           NEW ask \in Ask, NEW l \in Link, AskLeads(links', ask, l),
           invites' \in Recorded(ask, l)
    PROVE  InvitesLead'
<1> DEFINE row == [user |-> ask.user, dest |-> ask.dest, chat |-> StoredChat(ask.chat), link |-> l,
                   expires |-> ask.expires, status |-> "issued", created |-> clock]
<1>1. PICK k \in NextId(InviteIds, invites) : invites' = Insert(invites, k, row)
  BY DEF Recorded
<1>2. l \in LinkIds => StoredChat(ask.chat) = ask.chat
  BY InvitesAssumption DEF AskLeads, Leads, IsTable, LinkRow, StoredChat
<1>3. RowLeads(links', row)
  BY <1>2 DEF RowLeads, AskLeads, Leads
<1>4. \A i \in DOMAIN invites : RowLeads(links', invites[i])
  BY LeadsStay DEF InvitesLead
<1> HIDE DEF row
<1> QED
  BY <1>1, <1>3, <1>4 DEF Insert, InvitesLead

LEMMA InvitesLeadStays ==
    ASSUME TypeInv, LinksAgree, [Next]_vars
    PROVE  InvitesLead'
<1>1. LinksStay /\ IsTable(links', LinkIds, LinkRow)
  BY NextLinks, NextType DEF TypeInv, InvitesTypeOK, LinkRow
<1>2. CASE UNCHANGED invites
  BY <1>1, <1>2, LeadsStay DEF LinksAgree, InvitesLead
<1>3. CASE ExpireTelegramInvites
  <2>1. \A i \in DOMAIN invites : invites[i] \in InviteRow
    BY DEF TypeInv, InvitesTypeOK, IsTable
  <2>2. \A i \in DOMAIN invites : RowLeads(links', invites'[i])
    BY <1>1, <1>3, <2>1, LeadsStay DEF LinksAgree, InvitesLead, ExpireTelegramInvites, RowLeads, InviteRow
  <2> QED
    BY <1>3, <2>2 DEF ExpireTelegramInvites, InvitesLead
<1>4. ASSUME NEW tab \in Tabs, RecordInvite(tab), ~UNCHANGED invites PROVE InvitesLead'
  <2>1. requests[tab].ask \in Ask /\ requests[tab].link \in Link
    BY <1>4, RequestShape DEF RecordInvite, TypeInv
  <2>2. AskLeads(links', requests[tab].ask, requests[tab].link)
    BY <1>1, <1>4, LeadsStay DEF RecordInvite, LinksAgree, RequestsLead
  <2>3. invites' \in Recorded(requests[tab].ask, requests[tab].link)
    BY <1>4 DEF RecordInvite
  <2> QED
    BY <1>1, <2>1, <2>2, <2>3, RecordedLeads DEF LinksAgree
<1>5. ASSUME desk.stage = "inviting", NEW ask \in desk.todo, InviteBack(ask), ~UNCHANGED invites
      PROVE  InvitesLead'
  <2>1. ask \in Ask
    BY <1>5, DeskShape DEF TypeInv, InviteWork
  <2>2. PICK l \in NextId(LinkIds, links) :
            links' = Insert(links, l, NewLink(Timed(ask), "desk")) /\ invites' \in Recorded(Timed(ask), l)
    BY <1>5 DEF InviteBack, Timed
  <2>3. Timed(ask) \in Ask
    BY <2>1, TimedType DEF TypeInv
  <2>4. AskLeads(links', Timed(ask), l) /\ l \in Link
    BY <2>2, <2>3, NewLinkLeads DEF NextId, Link
  <2> QED
    BY <1>1, <2>2, <2>3, <2>4, RecordedLeads DEF LinksAgree
<1>6. Next => \/ UNCHANGED invites
              \/ ExpireTelegramInvites
              \/ \E tab \in Tabs : RecordInvite(tab)
              \/ desk.stage = "inviting" /\ \E ask \in desk.todo : InviteBack(ask)
  BY DEF Next, DeskStep, RequestStep, BuySubscription, GrantCourse, Revoke, EditDestination, TimePasses, Join, CreateInviteLink,
         AskInvite, LookUpInvite, LinkRefused, RequestCutOff, BlockUser, UnblockUser, CloseAccess,
         RemoveChatMember, BlockEnds, ListDestinations, TellUser, DeskCutOff, access, telegram, observed
<1> QED
  BY <1>2, <1>3, <1>4, <1>5, <1>6 DEF vars

LEMMA RequestsLeadStays ==
    ASSUME TypeInv, LinksAgree, [Next]_vars
    PROVE  RequestsLead'
<1>1. LinksStay
  BY NextLinks
<1>2. CASE UNCHANGED requests
  BY <1>1, <1>2, LeadsStay DEF LinksAgree, RequestsLead
<1>3. ASSUME NEW tab \in Tabs, RequestStep(tab) PROVE RequestsLead'
  <2>1. \A t \in Tabs \ {tab} : requests'[t] = requests[t]
    BY <1>3 DEF RequestStep, AskInvite, LookUpInvite, CreateInviteLink, LinkRefused, RecordInvite,
                RequestCutOff, TypeInv, InvitesTypeOK
  <2>2. requests'[tab].stage = "storing" => AskLeads(links', requests'[tab].ask, requests'[tab].link)
    <3>1. CASE CreateInviteLink(tab)
      <4>1. PICK l \in NextId(LinkIds, links) :
                /\ links' = Insert(links, l, NewLink(requests[tab].ask, "app"))
                /\ requests' = [requests EXCEPT ![tab] = [stage |-> "storing", ask |-> requests[tab].ask, link |-> l]]
        BY <3>1 DEF CreateInviteLink
      <4>2. requests[tab].ask \in Ask
        BY <3>1, RequestShape DEF CreateInviteLink, TypeInv
      <4> QED
        BY <4>1, <4>2, NewLinkLeads DEF TypeInv, InvitesTypeOK
    <3>2. CASE LookUpInvite(tab)
      <4>1. requests[tab].ask.dest \in ByBot \union Manual
        BY <3>2 DEF LookUpInvite, TypeInv, AskedCanBeHad
      <4>2. requests'[tab].stage = "storing" =>
                requests'[tab].link = requests[tab].ask.dest /\ requests[tab].ask.dest \in Manual
        BY <3>2, <4>1 DEF LookUpInvite, TypeInv, InvitesTypeOK, Idle
      <4> QED
        BY <4>2, ManualLeads
    <3>3. CASE LinkRefused(tab)
      <4>1. requests'[tab].stage = "storing" => requests'[tab].link \in Manual
        BY <3>3 DEF LinkRefused, TypeInv, InvitesTypeOK, Idle
      <4> QED
        BY <4>1, ManualLeads
    <3>4. CASE RecordInvite(tab) \/ RequestCutOff(tab) \/ \E u \in Users, d \in DOMAIN chat : AskInvite(tab, u, d)
      BY <3>4 DEF RecordInvite, RequestCutOff, AskInvite, TypeInv, InvitesTypeOK, Idle
    <3> QED
      BY <1>3, <3>1, <3>2, <3>3, <3>4 DEF RequestStep
  <2> QED
    BY <1>1, <2>1, <2>2, LeadsStay DEF LinksAgree, RequestsLead
<1>4. Next /\ ~UNCHANGED requests => \E tab \in Tabs : RequestStep(tab)
  BY DEF Next, DeskStep, BuySubscription, GrantCourse, Revoke, EditDestination, TimePasses, ExpireTelegramInvites, Join, BlockUser,
         UnblockUser, CloseAccess, RemoveChatMember, BlockEnds, ListDestinations, InviteBack, TellUser,
         DeskCutOff
<1> QED
  BY <1>2, <1>3, <1>4 DEF vars

LEMMA DeskLeadsStays ==
    ASSUME TypeInv, LinksAgree, [Next]_vars
    PROVE  DeskLeads'
<1>1. LinksStay
  BY NextLinks
<1>2. CASE UNCHANGED desk
  BY <1>1, <1>2, LeadsStay DEF LinksAgree, DeskLeads
<1>3. CASE desk'.stage # "inviting"
  BY <1>3 DEF DeskLeads
<1>4. CASE ListDestinations /\ desk.stage = "inviting"
  <2>1. desk'.given = desk.given
    BY <1>4, DeskShape DEF ListDestinations, TypeInv, InviteWork
  <2> QED
    BY <1>1, <1>4, <2>1, LeadsStay DEF LinksAgree, DeskLeads
<1>5. ASSUME NEW u \in Users, UnblockUser(u) PROVE DeskLeads'
  BY <1>5 DEF UnblockUser, DeskLeads
<1>6. ASSUME desk.stage = "inviting", NEW ask \in desk.todo, InviteBack(ask) PROVE DeskLeads'
  <2>1. desk \in InviteWork /\ ask \in Ask
    BY <1>6, DeskShape DEF TypeInv, InviteWork
  <2>2. \A g \in desk.given : AskLeads(links', g[1], g[2])
    BY <1>1, <1>6, LeadsStay DEF LinksAgree, DeskLeads
  <2>3. \/ desk'.given = desk.given
        \/ \E l : desk'.given = desk.given \union {<<ask, l>>} /\ AskLeads(links', ask, l)
    <3>1. CASE ask.dest \in Manual /\ desk' = [desk EXCEPT !.todo = @ \ {ask}, !.given = @ \union {<<ask, ask.dest>>}]
      <4>1. desk'.given = desk.given \union {<<ask, ask.dest>>}
        BY <2>1, <3>1 DEF InviteWork
      <4> QED
        BY <3>1, <4>1, ManualLeads
    <3>2. ASSUME NEW l \in NextId(LinkIds, links), links' = Insert(links, l, NewLink(Timed(ask), "desk")),
                 desk' = [desk EXCEPT !.todo = @ \ {ask}, !.given = @ \union {<<ask, l>>}]
          PROVE  desk'.given = desk.given \union {<<ask, l>>} /\ AskLeads(links', ask, l)
      <4>1. /\ Timed(ask) \in Ask
            /\ Timed(ask).user = ask.user /\ Timed(ask).dest = ask.dest /\ Timed(ask).chat = ask.chat
        BY <2>1, TimedType DEF TypeInv
      <4>2. AskLeads(links', Timed(ask), l)
        BY <3>2, <4>1, NewLinkLeads
      <4> QED
        BY <2>1, <3>2, <4>1, <4>2 DEF AskLeads, InviteWork
    <3>3. CASE desk' = [desk EXCEPT !.todo = @ \ {ask}]
      BY <2>1, <3>3 DEF InviteWork
    <3> QED
      BY <1>6, <3>1, <3>2, <3>3 DEF InviteBack, Timed
  <2> QED
    BY <2>2, <2>3 DEF DeskLeads
<1>7. Next => \/ UNCHANGED desk \/ desk'.stage # "inviting"
              \/ \E u \in Users : UnblockUser(u)
              \/ ListDestinations /\ desk.stage = "inviting"
              \/ desk.stage = "inviting" /\ \E ask \in desk.todo : InviteBack(ask)
  <2>1. CloseAccess \/ (\E c \in Chats : RemoveChatMember(c)) => desk'.stage # "inviting"
    BY DeskShape DEF TypeInv, CloseAccess, RemoveChatMember, BlockWork
  <2>2. ListDestinations /\ desk.stage # "inviting" => desk'.stage # "inviting"
    BY DeskShape DEF TypeInv, ListDestinations, BlockWork
  <2>3. (\E u \in Users : BlockUser(u)) \/ BlockEnds \/ TellUser \/ DeskCutOff => desk'.stage # "inviting"
    BY DEF BlockUser, BlockEnds, TellUser, DeskCutOff, Idle
  <2>4. Next /\ ~DeskStep => UNCHANGED desk
    BY DEF Next, RequestStep, BuySubscription, GrantCourse, Revoke, EditDestination, TimePasses, Join,
           CreateInviteLink, AskInvite, LookUpInvite, LinkRefused, RecordInvite, RequestCutOff,
           ExpireTelegramInvites
  <2> QED
    BY <2>1, <2>2, <2>3, <2>4 DEF DeskStep
<1> QED
  BY <1>2, <1>3, <1>4, <1>5, <1>6, <1>7 DEF vars

LEMMA HeldLeadsStays ==
    ASSUME TypeInv, LinksAgree, [Next]_vars
    PROVE  HeldLeads'
<1>1. LinksStay
  BY NextLinks
<1>2. \A h \in held : RowLeads(links', h)
  BY <1>1, LeadsStay DEF LinksAgree, HeldLeads
<1>3. CASE UNCHANGED held
  BY <1>2, <1>3 DEF HeldLeads
<1>4. ASSUME NEW tab \in Tabs, LookUpInvite(tab) PROVE HeldLeads'
  <2>1. CASE \E i \in Newest(invites, Reusable(requests[tab].ask)) :
                held' = held \union {Given(requests[tab].ask, invites[i].link)}
    <3>1. PICK i \in Reusable(requests[tab].ask) : held' = held \union {Given(requests[tab].ask, invites[i].link)}
      BY <2>1 DEF Newest
    <3>2. RowLeads(links', invites[i])
      BY <1>1, LeadsStay DEF Reusable, LinksAgree, InvitesLead
    <3>3. RowLeads(links', Given(requests[tab].ask, invites[i].link))
      BY <3>2 DEF Reusable, RowLeads, Given
    <3> QED
      BY <1>2, <3>1, <3>3 DEF HeldLeads
  <2> QED
    BY <1>3, <1>4, <2>1 DEF LookUpInvite
<1>5. ASSUME NEW tab \in Tabs, RecordInvite(tab) PROVE HeldLeads'
  <2>1. AskLeads(links', requests[tab].ask, requests[tab].link)
    BY <1>1, <1>5, LeadsStay DEF RecordInvite, LinksAgree, RequestsLead
  <2> QED
    BY <1>2, <1>5, <2>1, GivenLeads DEF RecordInvite, HeldLeads
<1>6. CASE TellUser
  <2>1. \A g \in desk.given : RowLeads(links', Given(g[1], g[2]))
    BY <1>1, <1>6, LeadsStay, GivenLeads DEF TellUser, LinksAgree, DeskLeads
  <2> QED
    BY <1>2, <1>6, <2>1 DEF TellUser, HeldLeads
<1>7. Next => \/ UNCHANGED held
              \/ \E tab \in Tabs : LookUpInvite(tab) \/ RecordInvite(tab)
              \/ TellUser
  BY DEF Next, DeskStep, RequestStep, BuySubscription, GrantCourse, Revoke, EditDestination, TimePasses, ExpireTelegramInvites, Join,
         AskInvite, CreateInviteLink, LinkRefused, RequestCutOff, BlockUser, UnblockUser, CloseAccess,
         RemoveChatMember, BlockEnds, ListDestinations, InviteBack, DeskCutOff
<1> QED
  BY <1>3, <1>4, <1>5, <1>6, <1>7 DEF vars

LinkInv == TypeInv /\ LinksAgree

LEMMA LinksAlways == Spec => []LinkInv
<1>1. Init => LinkInv
  <2> SUFFICES ASSUME Init PROVE LinkInv
    OBVIOUS
  <2>1. LinksAgree /\ AskedCanBeHad
    BY DEF Init, EmptyTable, Idle, LinksAgree, InvitesLead, RequestsLead, DeskLeads, HeldLeads, AskedCanBeHad
  <2> QED
    BY <2>1, InitType DEF LinkInv, TypeInv
<1>2. LinkInv /\ [Next]_vars => LinkInv'
  BY NextType, InvitesLeadStays, RequestsLeadStays, DeskLeadsStays, HeldLeadsStays DEF LinkInv, LinksAgree
<1> QED
  BY <1>1, <1>2, PTL DEF Spec

\* A link leads to the chat that its destination had when the link was asked for
\* or listed, and one given again is the user's own: the look-ups by user,
\* destination and chat find no other (telegram_access.go, premium_courses.go).
THEOREM LinksLeadThere == Spec => []InvitesSafe
<1>1. LinkInv => InvitesSafe
  BY DEF LinkInv, TypeInv, LinksAgree, HeldLeads, RowLeads, Leads, InvitesSafe, LinkLeadsThere
<1> QED
  BY <1>1, LinksAlways, PTL

-----------------------------------------------------------------------------
(***************************************************************************)
(* Links of the app end no later than what they were given for: a           *)
(* subscription is only extended or ended early by an admin; a course may   *)
(* be replaced by a grant that ends sooner, but a link to it lives no       *)
(* longer than a day, so that only a grant for less than that is outlived.  *)
(***************************************************************************)

Covered(u, right, end) ==
    \/ <<u, right>> \in curtailed
    \/ /\ until[u][right] > 0 /\ end <= until[u][right]
       /\ right # "subscription" => end <= clock + Day

AskCovered(ask) == Source[ask.dest] # "channel" => Covered(ask.user, Right(ask.dest), ask.expires)

RequestsCovered == \A tab \in Tabs : requests[tab].stage \in {"asked", "creating"} => AskCovered(requests[tab].ask)

LinkCovered(row) ==
    row.by = "app" /\ Source[row.dest] # "channel" => Covered(row.user, Right(row.dest), row.expires)

LinksCovered == \A l \in DOMAIN links : LinkCovered(links[l])

\* What is covered stays so.
CoverStays ==
    /\ \A ask \in Ask : AskCovered(ask) => AskCovered(ask)'
    /\ \A row \in LinkRow : LinkCovered(row) => LinkCovered(row)'

LEMMA ClockMoves == [Next]_vars => clock' = clock \/ PassTime
BY DEF Next, DeskStep, RequestStep, BuySubscription, GrantCourse, Revoke, EditDestination, TimePasses,
       ExpireTelegramInvites, Join, AskInvite, LookUpInvite, CreateInviteLink, LinkRefused, RecordInvite,
       RequestCutOff, BlockUser, UnblockUser, CloseAccess, RemoveChatMember, BlockEnds, ListDestinations,
       InviteBack, TellUser, DeskCutOff, vars

LEMMA LaterStays == \A end, now, later, day \in Nat : later >= now /\ end <= now + day => end <= later + day
OBVIOUS

LEMMA NextCovers == TypeInv /\ [Next]_vars => CoverStays
<1> SUFFICES ASSUME TypeInv, [Next]_vars,
                    NEW u \in Users, NEW right \in Rights, NEW end \in Nat, Covered(u, right, end)
             PROVE  Covered(u, right, end)'
  BY RightType DEF CoverStays, AskCovered, LinkCovered, Ask, LinkRow
<1>1. until \in [Users -> [Rights -> Nat]] /\ until[u][right] \in Nat /\ clock \in Nat
  BY DEF TypeInv, InvitesTypeOK, PlatformTypeOK
<1>2. clock' \in Nat /\ clock' >= clock
  BY <1>1, ClockMoves DEF PassTime
<1>3. CASE UNCHANGED <<until, curtailed>>
  <2>1. Day \in Nat /\ end \in Nat
    BY DayType
  <2>2. end <= clock + Day => end <= clock' + Day
    BY <1>1, <1>2, <2>1, LaterStays
  <2> QED
    BY <1>3, <2>2 DEF Covered
<1>4. ASSUME NEW v \in Users, BuySubscription(v) PROVE Covered(u, right, end)'
  <2>1. UNCHANGED <<curtailed, clock>> /\ "subscription" \in Rights
    BY <1>4, InvitesAssumption DEF BuySubscription
  <2>2. CASE v # u \/ right # "subscription"
    <3>1. until'[u][right] = until[u][right]
      BY <1>1, <1>4, <2>1, <2>2 DEF BuySubscription
    <3> QED
      BY <2>1, <3>1 DEF Covered
  <2>3. CASE v = u /\ right = "subscription"
    <3>1. until'[u][right] = (IF Holds(u, right) THEN until[u][right] ELSE clock) + Term
      BY <1>1, <1>4, <2>1, <2>3 DEF BuySubscription
    <3>2. until[u][right] > 0 => until'[u][right] >= until[u][right]
      BY <1>1, <3>1, DayType DEF Holds, Past
    <3>3. until'[u][right] \in Nat
      BY <1>1, <3>1, DayType
    <3> QED
      BY <1>1, <2>1, <2>3, <3>2, <3>3 DEF Covered
  <2> QED
    BY <2>2, <2>3
<1>5. ASSUME NEW v \in Users, NEW c \in Bought \ {"subscription"}, NEW t \in CourseEnds, GrantCourse(v, c, t)
      PROVE  Covered(u, right, end)'
  <2>1. c \in Rights /\ t \in Nat \ {0} /\ clock' = clock /\ curtailed \subseteq curtailed'
    BY <1>5, InvitesAssumption, CourseEndsType DEF GrantCourse, TypeInv
  <2>2. CASE v # u \/ c # right
    <3>1. until'[u][right] = until[u][right]
      BY <1>1, <1>5, <2>1, <2>2 DEF GrantCourse
    <3> QED
      BY <2>1, <3>1 DEF Covered
  <2>3. CASE v = u /\ c = right
    <3>1. until'[u][right] = t
      BY <1>1, <1>5, <2>1, <2>3 DEF GrantCourse
    <3>2. CASE t < until[u][right] /\ t < clock + Day
      BY <1>5, <2>3, <3>2 DEF GrantCourse, Covered
    <3>3. CASE t >= until[u][right] \/ t >= clock + Day
      BY <1>1, <2>1, <2>3, <3>1, <3>3, DayType DEF Covered
    <3> QED
      BY <1>1, <2>1, <3>2, <3>3, DayType
  <2> QED
    BY <2>2, <2>3
<1>6. ASSUME NEW v \in Users, NEW r \in Taken, Revoke(v, r) PROVE Covered(u, right, end)'
  <2>1. r \in Rights /\ curtailed' = curtailed \union {<<v, r>>} /\ clock' = clock
    BY <1>6, InvitesAssumption DEF Revoke
  <2>2. v # u \/ r # right => until'[u][right] = until[u][right]
    BY <1>1, <1>6, <2>1 DEF Revoke
  <2> QED
    BY <2>1, <2>2 DEF Covered
<1>7. Next => \/ UNCHANGED <<until, curtailed>>
              \/ \E v \in Users : BuySubscription(v)
              \/ \E v \in Users, c \in Bought \ {"subscription"}, t \in CourseEnds : GrantCourse(v, c, t)
              \/ \E v \in Users, r \in Taken : Revoke(v, r)
  BY DEF Next, DeskStep, RequestStep, EditDestination, TimePasses, ExpireTelegramInvites, Join, AskInvite,
         LookUpInvite, CreateInviteLink, LinkRefused, RecordInvite, RequestCutOff, BlockUser, UnblockUser,
         CloseAccess, RemoveChatMember, BlockEnds, ListDestinations, InviteBack, TellUser, DeskCutOff,
         access, observed
<1> QED
  BY <1>3, <1>4, <1>5, <1>6, <1>7 DEF vars, access, observed

\* A link is asked for with access, to end no later.
LEMMA AskedIsCovered ==
    ASSUME TypeInv, NEW tab \in Tabs, NEW u \in Users, NEW d \in DOMAIN chat, AskInvite(tab, u, d)
    PROVE  AskCovered(requests[tab].ask)'
<1>1. d \in Destinations /\ Source[d] \in {"channel", "level", "course"}
  BY InvitesAssumption DEF TypeInv, InvitesTypeOK, IsTable
<1>2. UNCHANGED <<until, curtailed, chat, clock>>
  BY DEF AskInvite, access, observed
<1>3. ASSUME Source[d] # "channel"
      PROVE  /\ until[u][Right(d)] > 0 /\ LinkEnd(u, d) <= until[u][Right(d)]
             /\ Right(d) # "subscription" => LinkEnd(u, d) <= clock + Day
  <2>1. until[u][Right(d)] \in Nat /\ clock + Day \in Nat
    BY <1>1, RightType, DayType DEF TypeInv, InvitesTypeOK, PlatformTypeOK
  <2>2. Holds(u, Right(d))
    BY <1>3 DEF AskInvite, Access
  <2> QED
    BY <1>1, <1>3, <2>1, <2>2, DayType DEF Holds, LinkEnd, Right
<1>4. requests'[tab].ask = [user |-> u, dest |-> d, chat |-> chat[d], expires |-> LinkEnd(u, d)]
  BY DEF AskInvite, TypeInv, InvitesTypeOK
<1> QED
  BY <1>2, <1>3, <1>4 DEF AskCovered, Covered

LEMMA RequestsCoveredStays ==
    ASSUME TypeInv, RequestsCovered, [Next]_vars
    PROVE  RequestsCovered'
<1> SUFFICES ASSUME NEW tab \in Tabs, requests'[tab].stage \in {"asked", "creating"}
             PROVE  AskCovered(requests[tab].ask)'
  BY DEF RequestsCovered
<1>1. CASE \E u \in Users, d \in DOMAIN chat : AskInvite(tab, u, d)
  BY <1>1, AskedIsCovered
<1>2. CASE requests[tab].stage \in {"asked", "creating"} /\ requests'[tab].ask = requests[tab].ask
  <2>1. PICK ask \in Ask : ask = requests[tab].ask
    BY <1>2, RequestShape DEF TypeInv
  <2>2. AskCovered(ask)'
    BY <1>2, <2>1, NextCovers DEF CoverStays, RequestsCovered
  <2>3. requests'[tab].ask = ask
    BY <1>2, <2>1
  <2> QED
    BY <2>2, <2>3 DEF AskCovered
<1>3. \/ \E u \in Users, d \in DOMAIN chat : AskInvite(tab, u, d)
      \/ requests[tab].stage \in {"asked", "creating"} /\ requests'[tab].ask = requests[tab].ask
  <2>1. CASE requests'[tab] = requests[tab]
    BY <2>1
  <2>2. CASE RequestStep(tab) /\ ~\E u \in Users, d \in DOMAIN chat : AskInvite(tab, u, d)
    BY <2>2 DEF RequestStep, LookUpInvite, CreateInviteLink, LinkRefused, RecordInvite, RequestCutOff,
                TypeInv, InvitesTypeOK, Idle
  <2>3. ASSUME NEW t \in Tabs, RequestStep(t), t # tab PROVE requests'[tab] = requests[tab]
    BY <2>3 DEF RequestStep, AskInvite, LookUpInvite, CreateInviteLink, LinkRefused, RecordInvite,
                RequestCutOff, TypeInv, InvitesTypeOK
  <2>4. Next /\ ~UNCHANGED requests => \E t \in Tabs : RequestStep(t)
    BY DEF Next, DeskStep, BuySubscription, GrantCourse, Revoke, EditDestination, TimePasses, ExpireTelegramInvites, Join, BlockUser,
           UnblockUser, CloseAccess, RemoveChatMember, BlockEnds, ListDestinations, InviteBack, TellUser,
           DeskCutOff
  <2> QED
    BY <2>1, <2>2, <2>3, <2>4 DEF vars
<1> QED
  BY <1>1, <1>2, <1>3

LEMMA LinksCoveredStays ==
    ASSUME TypeInv, RequestsCovered, LinksCovered, [Next]_vars
    PROVE  LinksCovered'
<1> SUFFICES ASSUME NEW l \in DOMAIN links' PROVE LinkCovered(links[l])'
  BY DEF LinksCovered
<1>1. CASE l \in DOMAIN links
  <2>1. PICK row \in LinkRow : row = links[l]
    BY <1>1 DEF TypeInv, InvitesTypeOK, IsTable, LinkRow
  <2>2. LinkCovered(row)'
    BY <1>1, <2>1, NextCovers DEF CoverStays, LinksCovered
  <2>3. /\ links'[l].user = row.user /\ links'[l].dest = row.dest
        /\ links'[l].by = row.by /\ links'[l].expires = row.expires
    BY <1>1, <2>1, NextLinks DEF LinksStay
  <2> QED
    BY <2>2, <2>3 DEF LinkCovered
<1>2. ASSUME NEW tab \in Tabs, CreateInviteLink(tab), l \notin DOMAIN links PROVE LinkCovered(links[l])'
  <2>1. PICK ask \in Ask : ask = requests[tab].ask
    BY <1>2, RequestShape DEF CreateInviteLink, TypeInv
  <2>2. AskCovered(ask)'
    BY <1>2, <2>1, NextCovers DEF CoverStays, RequestsCovered, CreateInviteLink
  <2>3. links'[l] = NewLink(ask, "app")
    BY <1>2, <2>1 DEF CreateInviteLink, Insert
  <2> QED
    BY <2>2, <2>3 DEF AskCovered, LinkCovered, NewLink
<1>3. ASSUME NEW ask \in desk.todo, InviteBack(ask), l \notin DOMAIN links PROVE LinkCovered(links[l])'
  <2>1. links' = links \/ \E m : links' = Insert(links, m, NewLink(Timed(ask), "desk"))
    BY <1>3 DEF InviteBack, Timed
  <2>2. PICK m : links' = Insert(links, m, NewLink(Timed(ask), "desk"))
    BY <1>3, <2>1
  <2>3. l = m
    BY <1>3, <2>2 DEF Insert
  <2>4. links'[l] = NewLink(Timed(ask), "desk")
    BY <2>2, <2>3 DEF Insert
  <2> QED
    BY <2>4 DEF LinkCovered, NewLink
<1>4. ASSUME NEW u \in Users, NEW m \in DOMAIN links \union Manual, Join(u, m) PROVE l \in DOMAIN links
  BY <1>4 DEF Join
<1>5. Next => \/ UNCHANGED links
              \/ \E tab \in Tabs : CreateInviteLink(tab)
              \/ \E u \in Users, m \in DOMAIN links \union Manual : Join(u, m)
              \/ \E ask \in desk.todo : InviteBack(ask)
  BY DEF Next, DeskStep, RequestStep, BuySubscription, GrantCourse, Revoke, EditDestination, TimePasses, ExpireTelegramInvites,
         AskInvite, LookUpInvite, LinkRefused, RecordInvite, RequestCutOff, BlockUser, UnblockUser, CloseAccess,
         RemoveChatMember, BlockEnds, ListDestinations, TellUser, DeskCutOff, access, telegram, observed
<1> QED
  BY <1>1, <1>2, <1>3, <1>4, <1>5 DEF vars, telegram

CoverInv == TypeInv /\ RequestsCovered /\ LinksCovered

LEMMA CoversAlways == Spec => []CoverInv
<1>1. Init => CoverInv
  <2> SUFFICES ASSUME Init PROVE CoverInv
    OBVIOUS
  <2>1. AskedCanBeHad /\ RequestsCovered /\ LinksCovered
    BY DEF Init, EmptyTable, Idle, AskedCanBeHad, RequestsCovered, LinksCovered
  <2> QED
    BY <2>1, InitType DEF CoverInv, TypeInv
<1>2. CoverInv /\ [Next]_vars => CoverInv'
  BY NextType, RequestsCoveredStays, LinksCoveredStays DEF CoverInv
<1> QED
  BY <1>1, <1>2, PTL DEF Spec

\* A link that is used now has not ended, so that its user still has what he
\* had it for.
LEMMA UsedWithAccess ==
    ASSUME CoverInv, [Next]_vars, NEW l \in DOMAIN links, links'[l].used, ~links[l].used,
           links[l].by = "app", Source[links[l].dest] # "channel"
    PROVE  \/ Holds(links[l].user, Right(links[l].dest))
           \/ <<links[l].user, Right(links[l].dest)>> \in curtailed
<1>1. links[l] \in LinkRow
  BY DEF CoverInv, TypeInv, InvitesTypeOK, IsTable, LinkRow
<1>2. ASSUME NEW u \in Users, NEW m \in DOMAIN links \union Manual, Join(u, m) PROVE ~Past(links[l].expires)
  <2>1. m = l
    BY <1>1, <1>2 DEF Join, LinkRow
  <2>2. l \notin Manual
    BY InvitesAssumption DEF CoverInv, TypeInv, InvitesTypeOK, IsTable
  <2> QED
    BY <1>2, <2>1, <2>2 DEF Join, Usable
<1>3. ASSUME NEW k \in NextId(LinkIds, links), NEW row, links' = Insert(links, k, row) PROVE FALSE
  BY <1>3 DEF Insert, NextId
<1>4. \A tab \in Tabs : ~CreateInviteLink(tab)
  BY <1>3 DEF CreateInviteLink
<1>5. \A ask \in desk.todo : ~InviteBack(ask)
  BY <1>3 DEF InviteBack
<1>6. \E u \in Users, m \in DOMAIN links \union Manual : Join(u, m)
  BY <1>4, <1>5 DEF vars, Next, DeskStep, RequestStep, BuySubscription, GrantCourse, Revoke, EditDestination, TimePasses,
         ExpireTelegramInvites, AskInvite, LookUpInvite, LinkRefused, RecordInvite, RequestCutOff, BlockUser,
         UnblockUser, CloseAccess, RemoveChatMember, BlockEnds, ListDestinations, TellUser, DeskCutOff,
         access, telegram, observed
<1>7. Covered(links[l].user, Right(links[l].dest), links[l].expires)
  BY DEF CoverInv, LinksCovered, LinkCovered
<1>8. until[links[l].user][Right(links[l].dest)] \in Nat /\ clock \in Nat /\ links[l].expires \in Nat
  BY <1>1, RightType DEF LinkRow, CoverInv, TypeInv, InvitesTypeOK, PlatformTypeOK
<1> QED
  BY <1>2, <1>6, <1>7, <1>8 DEF Covered, Holds, Past

\* Nobody joins a level or a course by a link of the app once what he had the
\* link for is over, unless an admin ended that early, or a later grant of the
\* course replaced it by one that ended within the link's day: links end with the
\* subscription or the access, a course's in a day at the latest (CreateInviteLink,
\* expire_date; grantPremiumCourseAccessTx).
THEOREM LinksEndWithAccess == Spec => AppLinkEndsWithAccess
<1>1. CoverInv /\ [Next]_vars =>
        [\A l \in DOMAIN links :
            /\ links'[l].used /\ ~links[l].used
            /\ links[l].by = "app" /\ Source[links[l].dest] # "channel"
            => LET u == links[l].user
                   right == Right(links[l].dest)
               IN  Holds(u, right) \/ <<u, right>> \in curtailed]_vars
  BY UsedWithAccess
<1> QED
  BY <1>1, CoversAlways, PTL DEF Spec, AppLinkEndsWithAccess

-----------------------------------------------------------------------------
(***************************************************************************)
(* Blocking.  While the destinations are listed, a chat is still to be     *)
(* found, to be done, or one that blocking does not reach; once access is  *)
(* closed nothing is left to be found.                                     *)
(***************************************************************************)

\* The desk is about to take u out of c.
ToDo(u, c) == desk.stage \in {"blocking", "removing"} /\ desk.user = u /\ c \in desk.todo

Found ==
    desk.stage = "blocking" =>
        \A c \in Chats :
            c \in desk.todo \/ <<desk.user, c>> \in excused \/ c \in ToFind(desk.user, desk.at)

\* Someone blocked again is closed to everything: nothing of his is to be found.
Reached ==
    /\ Found
    /\ \A u \in closed, c \in Chats : <<u, c>> \in members => <<u, c>> \in excused \/ ToDo(u, c)

OutInv == InvitesTypeOK /\ clock <= MaxTime /\ Reached

LEMMA ClosedFindsNone == \A at : \A u \in closed : ToFind(u, at) = {}
BY DEF ToFind, ChatsOf

\* Whatever a step puts out of the admin's sight is excused.
LEMMA SightReaches ==
    ASSUME OutInv, UNCHANGED <<desk, closed, members>>, excused' = excused \union OutOfSight
    PROVE  Reached'
<1>1. ASSUME desk.stage = "blocking", NEW c \in Chats
      PROVE  c \in desk.todo \/ <<desk.user, c>> \in excused' \/ c \in ToFind(desk.user, desk.at)'
  <2>1. c \in ToFind(desk.user, desk.at) => <<desk.user, c>> \in OutOfSight \/ c \in ToFind(desk.user, desk.at)'
    BY <1>1 DEF OutOfSight
  <2> QED
    BY <1>1, <2>1 DEF OutInv, Reached, Found
<1>2. \A u \in closed, c \in Chats : <<u, c>> \in members' => <<u, c>> \in excused' \/ ToDo(u, c)'
  BY DEF OutInv, Reached, ToDo
<1> QED
  BY <1>1, <1>2 DEF Reached, Found

\* A purchase only brings more into sight: what is held afterwards was held
\* before, or is held anew.
LEMMA BuyReaches ==
    ASSUME OutInv,
           \E u \in Users : BuySubscription(u)
                \/ \E course \in Bought \ {"subscription"}, end \in CourseEnds : GrantCourse(u, course, end)
    PROVE  Reached'
<1>1. UNCHANGED <<clock, closed, chat, archived, desk, members, excused>>
  BY DEF BuySubscription, GrantCourse, telegram
<1>2. \A u \in Users, right \in Rights : Holds(u, right) => Holds(u, right)'
  <2> SUFFICES ASSUME NEW u \in Users, NEW right \in Rights, Holds(u, right) PROVE Holds(u, right)'
    OBVIOUS
  <2>1. until \in [Users -> [Rights -> Nat]] /\ until[u][right] \in Nat /\ clock \in Nat
    BY DEF OutInv, InvitesTypeOK, PlatformTypeOK
  <2>2. ASSUME NEW v \in Users, BuySubscription(v) PROVE Holds(u, right)'
    <3>1. until'[u][right] = until[u][right] \/ until'[u][right] = until[u][right] + Term
      BY <2>1, <2>2, InvitesAssumption DEF BuySubscription
    <3> QED
      BY <1>1, <2>1, <3>1, DayType DEF Holds, Past
  <2>3. ASSUME NEW v \in Users, NEW course \in Bought \ {"subscription"}, NEW end \in CourseEnds,
               GrantCourse(v, course, end)
        PROVE  Holds(u, right)'
    <3>1. course \in Rights /\ end \in Nat /\ end > clock
      BY <2>1, InvitesAssumption, CourseEndsType DEF OutInv
    <3>2. until'[u][right] \in {until[u][right], end}
      BY <2>1, <2>3, <3>1 DEF GrantCourse
    <3> QED
      BY <1>1, <2>1, <3>1, <3>2 DEF Holds, Past
  <2> QED
    BY <2>2, <2>3
<1>3. desk.stage = "blocking" => ToFind(desk.user, desk.at) \subseteq ToFind(desk.user, desk.at)'
  <2> SUFFICES ASSUME desk.stage = "blocking", NEW c \in ToFind(desk.user, desk.at)
               PROVE  c \in ToFind(desk.user, desk.at)'
    OBVIOUS
  <2>1. PICK d \in DOMAIN chat \ archived, k \in desk.at..Len(Lists) :
            /\ c = chat[d] /\ c # NoChat /\ desk.user \notin closed /\ Holds(desk.user, Right(d))
            /\ Source[d] = Lists[k]
    BY DEF ToFind, ChatsOf
  <2>2. desk.user \in Users /\ Right(d) \in Rights
    BY DeskShape, RightType DEF BlockWork, OutInv, InvitesTypeOK, IsTable
  <2>3. Holds(desk.user, Right(d))'
    BY <1>1, <1>2, <2>1, <2>2
  <2> QED
    BY <1>1, <2>1, <2>3 DEF ToFind, ChatsOf
<1> QED
  BY <1>1, <1>3 DEF OutInv, Reached, Found, ToDo

LEMMA BlockReaches ==
    ASSUME OutInv, NEW u \in Users, BlockUser(u)
    PROVE  Reached'
<1>1. /\ desk' = [stage |-> "blocking", at |-> 1, user |-> u, todo |-> {}]
      /\ excused' = {e \in excused : e[1] # u} \union ({u} \X (Chats \ ToFind(u, 1)))
      /\ UNCHANGED <<closed, members>> /\ desk = Idle
  BY DEF BlockUser, access, telegram
<1>2. ToFind(u, 1)' = ToFind(u, 1)
  BY DEF BlockUser, access, ToFind, ChatsOf, Holds, Past
<1>3. \A v \in closed, c \in Chats : <<v, c>> \in members' => <<v, c>> \in excused' \/ ToDo(v, c)'
  <2> SUFFICES ASSUME NEW v \in closed, NEW c \in Chats, <<v, c>> \in members
               PROVE  <<v, c>> \in excused'
    BY <1>1
  <2>1. CASE v = u
    BY <1>1, <2>1, ClosedFindsNone
  <2>2. CASE v # u
    BY <1>1, <2>2 DEF OutInv, Reached, ToDo, Idle
  <2> QED
    BY <2>1, <2>2
<1> QED
  BY <1>1, <1>2, <1>3 DEF Reached, Found

\* A list names the chats it should, but those that are lost.
LEMMA ListReaches ==
    ASSUME OutInv, ListDestinations
    PROVE  Reached'
<1> DEFINE u == desk.user
           here == {d \in OpenDestinations(u) : Source[d] = Lists[desk.at]}
<1>1. UNCHANGED <<clock, until, closed, chat, archived, members>>
  BY DEF ListDestinations, access, telegram
<1>2. CASE desk.stage = "inviting"
  <2>1. desk'.stage = "inviting" /\ UNCHANGED excused
    BY <1>2, DeskShape DEF ListDestinations, InviteWork, OutInv
  <2> QED
    BY <1>1, <1>2, <2>1 DEF OutInv, Reached, Found, ToDo
<1>3. CASE desk.stage = "blocking"
  <2>1. PICK lost \in {{}, here} \union {{d} : d \in here} :
          /\ desk' = [desk EXCEPT !.at = NextList(@, lost), !.todo = @ \union ChatsOf(here \ lost)]
          /\ excused' = excused \union ({u} \X ChatsOf(lost))
    BY <1>3 DEF ListDestinations
  <2>2. desk \in BlockWork
    BY <1>3, DeskShape DEF OutInv
  <2>3. /\ desk'.stage = "blocking" /\ desk'.user = u /\ desk'.at = desk.at + 1
        /\ desk'.todo = desk.todo \union ChatsOf(here \ lost)
    BY <1>3, <2>1, <2>2 DEF BlockWork, NextList
  <2>4. ASSUME NEW c \in ToFind(u, desk.at)
        PROVE  c \in ChatsOf(here \ lost) \/ c \in ChatsOf(lost) \/ c \in ToFind(u, desk.at + 1)
    <3>1. PICK d \in DOMAIN chat \ archived, k \in desk.at..Len(Lists) :
            c = chat[d] /\ c # NoChat /\ u \notin closed /\ Holds(u, Right(d)) /\ Source[d] = Lists[k]
      BY DEF ToFind, ChatsOf
    <3>2. CASE k = desk.at
      <4>1. d \in here
        BY <3>1, <3>2 DEF OpenDestinations, Access
      <4> QED
        BY <3>1, <4>1 DEF ChatsOf
    <3>3. CASE k # desk.at
      <4>1. k \in (desk.at + 1)..Len(Lists)
        BY <2>2, <3>1, <3>3 DEF BlockWork, Lists
      <4> QED
        BY <3>1, <4>1 DEF ToFind, ChatsOf
    <3> QED
      BY <3>2, <3>3
  <2>5. \A at : ToFind(u, at)' = ToFind(u, at)
    BY <1>1, <2>3 DEF ToFind, ChatsOf, Holds, Past
  <2>6. ASSUME NEW c \in Chats
        PROVE  c \in desk'.todo \/ <<u, c>> \in excused' \/ c \in ToFind(desk.user, desk.at)'
    <3>1. ToFind(desk.user, desk.at)' = ToFind(u, desk.at + 1)
      BY <1>1, <2>3 DEF ToFind, ChatsOf, Holds, Past
    <3> QED
      BY <1>3, <2>1, <2>3, <2>4, <3>1 DEF OutInv, Reached, Found
  <2>7. \A v \in closed, c \in Chats : <<v, c>> \in members => <<v, c>> \in excused' \/ ToDo(v, c)'
    BY <2>1, <2>3 DEF OutInv, Reached, ToDo
  <2> QED
    BY <1>1, <2>3, <2>6, <2>7 DEF Reached, Found
<1> QED
  BY <1>2, <1>3 DEF ListDestinations

LEMMA RemoveReaches ==
    ASSUME OutInv, CloseAccess \/ (\E c \in Chats : RemoveChatMember(c)) \/ BlockEnds \/ DeskCutOff
    PROVE  Reached'
<1>1. CASE CloseAccess
  <2>1. desk \in BlockWork
    BY <1>1, DeskShape DEF CloseAccess, OutInv
  <2>2. /\ desk'.stage = "removing" /\ desk'.user = desk.user /\ desk'.todo = desk.todo
        /\ closed' = closed \union {desk.user} /\ UNCHANGED <<members, excused>>
    BY <1>1, <2>1 DEF CloseAccess, telegram, observed, BlockWork
  <2>3. ToFind(desk.user, desk.at) = {}
    <3>1. desk.at \in Nat /\ desk.at > Len(Lists)
      BY <1>1, <2>1 DEF CloseAccess, BlockWork
    <3>2. desk.at..Len(Lists) = {}
      BY <3>1 DEF Lists
    <3> QED
      BY <3>2 DEF ToFind, ChatsOf
  <2> QED
    BY <1>1, <2>1, <2>2, <2>3 DEF CloseAccess, OutInv, Reached, Found, ToDo
<1>2. ASSUME NEW c \in Chats, RemoveChatMember(c) PROVE Reached'
  <2>1. desk \in BlockWork
    BY <1>2, DeskShape DEF RemoveChatMember, OutInv
  <2>2. /\ desk'.stage = "removing" /\ desk'.user = desk.user /\ desk'.todo = desk.todo \ {c}
        /\ UNCHANGED closed
        /\ members' \subseteq members /\ excused \subseteq excused'
        /\ <<desk.user, c>> \notin members' \/ <<desk.user, c>> \in excused'
    BY <1>2, <2>1 DEF RemoveChatMember, access, BlockWork
  <2> QED
    BY <1>2, <2>1, <2>2 DEF RemoveChatMember, OutInv, Reached, Found, ToDo
<1>3. CASE BlockEnds
  BY <1>3 DEF BlockEnds, access, telegram, observed, OutInv, Reached, Found, ToDo, Idle
<1>4. CASE DeskCutOff
  <2>1. UNCHANGED <<closed, members>> /\ desk' = Idle /\ excused \subseteq excused'
    BY <1>4 DEF DeskCutOff, access, telegram
  <2>2. \A u, c : c \in Chats /\ ToDo(u, c) => <<u, c>> \in excused'
    BY <1>4 DEF DeskCutOff, ToDo
  <2> QED
    BY <2>1, <2>2 DEF OutInv, Reached, Found, Idle
<1> QED
  BY <1>1, <1>2, <1>3, <1>4

LEMMA UnblockReaches ==
    ASSUME OutInv,
           \/ \E u \in Users : UnblockUser(u)
           \/ (desk.stage = "inviting" /\ \E ask \in desk.todo : InviteBack(ask)) \/ TellUser
    PROVE  Reached'
<1>1. ASSUME NEW u \in Users, UnblockUser(u) PROVE Reached'
  BY <1>1 DEF UnblockUser, telegram, OutInv, Reached, Found, ToDo, Idle
<1>2. ASSUME desk.stage = "inviting", NEW ask \in desk.todo, InviteBack(ask) PROVE Reached'
  <2>1. desk \in InviteWork
    BY <1>2, DeskShape DEF OutInv
  <2>2. desk'.stage = "inviting"
    BY <1>2, <2>1 DEF InviteBack, InviteWork
  <2>3. UNCHANGED <<closed, members, excused>>
    BY <1>2 DEF InviteBack, access
  <2> QED
    BY <1>2, <2>2, <2>3 DEF OutInv, Reached, Found, ToDo
<1>3. CASE TellUser
  BY <1>3 DEF TellUser, access, telegram, OutInv, Reached, Found, ToDo, Idle
<1> QED
  BY <1>1, <1>2, <1>3

LEMMA JoinReaches ==
    ASSUME OutInv, NEW u \in Users, NEW l \in DOMAIN links \union Manual, Join(u, l)
    PROVE  Reached'
<1>1. UNCHANGED <<desk, closed>>
  BY DEF Join, access
<1>2. members' = members \union {<<u, LinkChat(l)>>}
  BY DEF Join
<1>3. excused' = IF u \in closed THEN excused \union {<<u, LinkChat(l)>>} ELSE excused
  BY DEF Join
<1>4. ToFind(desk.user, desk.at)' = ToFind(desk.user, desk.at)
  BY DEF Join, access, ToFind, ChatsOf, Holds, Past
<1> QED
  BY <1>1, <1>2, <1>3, <1>4 DEF OutInv, Reached, Found, ToDo

LEMMA NextReaches == OutInv /\ [Next]_vars => Reached'
<1> SUFFICES ASSUME OutInv, [Next]_vars PROVE Reached'
  OBVIOUS
<1>1. CASE UNCHANGED <<desk, clock, access, members, excused>>
  BY <1>1 DEF access, OutInv, Reached, Found, ToDo, ToFind, ChatsOf, Holds, Past
<1>2. CASE DeskStep
  BY <1>2, BlockReaches, ListReaches, RemoveReaches, UnblockReaches DEF DeskStep
<1>3. CASE \E u \in Users, l \in DOMAIN links \union Manual : Join(u, l)
  BY <1>3, JoinReaches
<1>4. CASE UNCHANGED <<desk, closed, members>> /\ excused' = excused \union OutOfSight
  BY <1>4, SightReaches
<1>5. CASE \E u \in Users : BuySubscription(u)
           \/ \E course \in Bought \ {"subscription"}, end \in CourseEnds : GrantCourse(u, course, end)
  BY <1>5, BuyReaches
<1>6. Next => \/ UNCHANGED <<desk, clock, access, members, excused>>
              \/ DeskStep
              \/ \E u \in Users, l \in DOMAIN links \union Manual : Join(u, l)
              \/ UNCHANGED <<desk, closed, members>> /\ excused' = excused \union OutOfSight
              \/ \E u \in Users : BuySubscription(u)
                    \/ \E course \in Bought \ {"subscription"}, end \in CourseEnds : GrantCourse(u, course, end)
  BY DEF Next, RequestStep, Revoke, EditDestination, TimePasses, ExpireTelegramInvites, AskInvite,
         LookUpInvite, CreateInviteLink, LinkRefused, RecordInvite, RequestCutOff, access, telegram, observed
<1> QED
  BY <1>1, <1>2, <1>3, <1>4, <1>5, <1>6 DEF vars, telegram, observed

\* Once an admin has blocked a user, the user is in no chat but those blocking
\* does not reach, whatever he joins, admins edit and lists fail meanwhile: the
\* lists are read before his access is closed, and one that fails keeps back only
\* its own (applyAdminUserAccessChange, adminUserTelegramDestinations).
THEOREM BlockedStaysOut == Spec => []BlockedIsOut
<1>1. Init => Reached /\ clock <= MaxTime
  BY PlatformAssumption DEF Init, PlatformInit, Reached, Found, Idle
<1>2. OutInv => BlockedIsOut
  BY DEF OutInv, Reached, ToDo, BlockedIsOut, Idle
<1>3. InvitesTypeOK /\ clock <= MaxTime /\ [Next]_vars => (clock <= MaxTime)'
  BY PlatformAssumption, ClockMoves DEF PassTime, InvitesTypeOK, PlatformTypeOK
<1>4. InvitesTypeOK /\ clock <= MaxTime /\ Reached /\ [Next]_vars => Reached'
  BY NextReaches DEF OutInv
<1>5. LinkInv => InvitesTypeOK
  BY DEF LinkInv, TypeInv
<1>6. InvitesTypeOK /\ clock <= MaxTime /\ Reached => BlockedIsOut
  BY <1>2 DEF OutInv
<1> QED
  BY <1>1, <1>3, <1>4, <1>5, <1>6, LinksAlways, PTL DEF Spec

=============================================================================
