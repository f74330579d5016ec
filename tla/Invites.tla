------------------------------ MODULE Invites -------------------------------
(***************************************************************************)
(* Invite links to the Telegram chats of channels, levels and premium      *)
(* courses, and the blocking of users, which takes them out of the chats   *)
(* (internal/handler/api.go, admin_http.go, internal/repository/           *)
(* telegram_access.go).                                                    *)
(*                                                                         *)
(* A request reads the database, asks Telegram and writes the database in  *)
(* turn.  Requests run concurrently, and any of them can end after any     *)
(* step: the client goes away, a call fails, or the process crashes.       *)
(* The users have reached the levels and bought the tariffs asked for.     *)
(***************************************************************************)
EXTENDS Platform, Tables, FiniteSets, Sequences

CONSTANTS
    Destinations,   \* channels, levels and premium courses
    Source,         \* which of the three each is
    ByBot,          \* those whose links the bot creates
    Manual,         \* those with a link an admin has typed in
    Chats, NoChat,
    SeedChats,      \* the destinations there may be at the start, with their chats
    Rights,         \* "subscription" and the courses
    SeedUntil,      \* when each right ends at the start; 0 is never held
    LinkIds, InviteIds,     \* bound: links created and rows written
    Tabs,           \* bound: requests for a link under way at once
    Day, Term,      \* life of a link; what a purchase adds to a subscription
    CourseTerms,    \* the terms a course is sold or granted for: 30 and 90 days
    FixedEnds,      \* bound: the dates that access to a course is set to end at
    Bought, Taken,  \* bound: rights that are bought or granted, and ended by admins
    Edits,          \* bound: what admins set a destination's chat and state to
    MaxChanges,     \* bound: purchases, edits, blocks and unblocks
    MaxFaults       \* bound: calls that fail and requests cut off

ASSUME InvitesAssumption ==
    /\ ByBot \union Manual \subseteq Destinations /\ LinkIds \intersect Manual = {}
    /\ SeedUntil \in [Users -> [Rights -> Nat]]
    /\ Source \in [Destinations -> {"channel", "level", "course"}]
    /\ {d \in Destinations : Source[d] = "level"} \subseteq ByBot \ Manual
    /\ NoChat \notin Chats /\ \A seed \in SeedChats : IsTable(seed, Destinations, Chats \union {NoChat})
    /\ Rights = {"subscription"} \union {d \in Destinations : Source[d] = "course"}
    /\ Bought \union Taken \subseteq Rights
    /\ Edits \subseteq [dest : Destinations, chat : Chats \union {NoChat}, active : BOOLEAN]
    /\ LinkIds \union InviteIds \subseteq Nat
    /\ {Day, Term} \union CourseTerms \subseteq Nat \ {0} /\ FixedEnds \subseteq Nat
    /\ {MaxChanges, MaxFaults} \subseteq Nat

VARIABLES
    until,      \* when each user's subscription and course access end
    closed,     \* users.access_closed
    chat,       \* telegram_chat_id of each destination there is
    archived,   \* destinations that are not active any more
    invites,    \* the tables of invites
    requests,   \* what each request for a link is doing
    desk,       \* what the admin who blocks or unblocks is doing
    links,      \* Telegram: the links the bot created
    banned,     \* Telegram: <<user, chat>> banned
    members,    \* Telegram: <<user, chat>>
    held,       \* links users were given, with what they had asked for
    changes, faults,
    curtailed,  \* <<user, right>> ended early, or replaced by one that ends within the day
    excused     \* <<user, chat>> that blocking does not reach

access == <<until, closed, chat, archived>>
telegram == <<links, banned, members>>
observed == <<changes, faults, curtailed, excused>>
vars == <<clock, access, invites, requests, desk, telegram, held, observed>>

Link == LinkIds \union Manual
InviteRow ==
    [user : Users, dest : Destinations, chat : Chats \union {"manual"}, link : Link,
     expires : Nat, status : {"issued", "expired"}, created : Nat]

Ask == [user : Users, dest : Destinations, chat : Chats \union {NoChat}, expires : Nat]
Idle == [stage |-> "idle"]
Request ==
    [stage : {"asked", "creating"}, ask : Ask] \union [stage : {"storing"}, ask : Ask, link : Link]

\* The lists that destinations are found in, one query after the other; "at" is
\* the list to be read next.
Lists == <<"channel", "level", "course">>
DeskWork ==
    [stage : {"blocking", "removing"}, at : Nat, user : Users, todo : SUBSET Chats]
    \union [stage : {"inviting"}, at : Nat, user : Users, todo : SUBSET Ask, given : SUBSET (Ask \X Link)]

\* When access without an end is over: after the clock has stopped and every
\* link has ended.
Forever == MaxTime + Day + 1

Right(d) == IF Source[d] = "course" THEN d ELSE "subscription"

-----------------------------------------------------------------------------
(* Plausible mistakes, for checking that the properties notice them. *)

AnyIssued(ask) ==
    {i \in DOMAIN invites : /\ Source[ask.dest] # "channel" /\ ask.dest \in ByBot
                            /\ invites[i].user = ask.user /\ invites[i].dest = ask.dest
                            /\ invites[i].status = "issued" /\ ~Past(invites[i].expires)}
LinkEndOfADay(u, d) == clock + Day
ListUntilOneFails(at, lost) == IF lost = {} THEN at + 1 ELSE Len(Lists) + 1

-----------------------------------------------------------------------------
(* Reads. *)

Holds(u, right) == until[u][right] > 0 /\ ~Past(until[u][right])
Access(u, d) == u \notin closed /\ Holds(u, Right(d))

\* Where adminUserTelegramDestinations finds the user to have access.
OpenDestinations(u) == {d \in DOMAIN chat \ archived : Access(u, d)}

ChatsOf(S) == {chat[d] : d \in S} \ {NoChat}

\* The next list is read whether or not the last one could be.
NextList(at, lost) == at + 1

\* When a link asked for in the app ends.
LinkEnd(u, d) ==
    CASE Source[d] = "level" -> until[u]["subscription"]
      [] Source[d] = "course" /\ until[u][d] < clock + Day -> until[u][d]
      [] OTHER -> clock + Day

\* The end that a listed destination has of its own: only a course's is read.
OwnEnd(u, d) == IF Source[d] = "course" THEN until[u][d] ELSE Forever

\* When a link given on unblocking ends: the clock is read as it is made.
RejoinEnd(ownEnd) == IF ownEnd < clock + Day THEN ownEnd ELSE clock + Day

\* When access to a course ends that is sold or granted now.
CourseEnds == {clock + term : term \in CourseTerms} \union {end \in FixedEnds : end > clock} \union {Forever}

\* Channels' links are never looked up again.
Reusable(ask) ==
    {i \in DOMAIN invites : /\ Source[ask.dest] # "channel" /\ ask.dest \in ByBot
                            /\ invites[i].user = ask.user /\ invites[i].dest = ask.dest
                            /\ invites[i].chat = ask.chat
                            /\ invites[i].status = "issued" /\ ~Past(invites[i].expires)}

StoredChat(c) == IF c = NoChat THEN "manual" ELSE c

LinkChat(l) == IF l \in Manual THEN chat[l] ELSE links[l].chat
Usable(l) == l \notin Manual => ~links[l].used /\ ~Past(links[l].expires)

Recorded(ask, l) ==
    {Insert(invites, i, [user |-> ask.user, dest |-> ask.dest, chat |-> StoredChat(ask.chat), link |-> l,
                         expires |-> ask.expires, status |-> "issued", created |-> clock]) :
        i \in NextId(InviteIds, invites)}

NewLink(ask, by) ==
    [chat |-> ask.chat, expires |-> ask.expires, used |-> FALSE, user |-> ask.user, dest |-> ask.dest, by |-> by]

Given(ask, l) == [user |-> ask.user, dest |-> ask.dest, chat |-> ask.chat, link |-> l]

-----------------------------------------------------------------------------
(* Purchases, edits, and the clock. *)

\* Chats that an admin who blocks u has still to find in the lists from "at" on.
ToFind(u, at) ==
    ChatsOf({d \in DOMAIN chat : /\ d \notin archived /\ u \notin closed /\ Holds(u, Right(d))
                                 /\ \E k \in at..Len(Lists) : Source[d] = Lists[k]})

\* Those that a step puts out of his sight, by an edit or the end of access.
OutOfSight ==
    IF desk.stage = "blocking" THEN {desk.user} \X (ToFind(desk.user, desk.at) \ ToFind(desk.user, desk.at)') ELSE {}

Change == changes < MaxChanges /\ changes' = changes + 1
Fault == faults < MaxFaults /\ faults' = faults + 1

\* Days are added to what is left.
BuySubscription(u) ==
    /\ Change
    /\ until' = [until EXCEPT ![u]["subscription"] = (IF Holds(u, "subscription") THEN @ ELSE clock) + Term]
    /\ UNCHANGED <<clock, closed, chat, archived, invites, requests, desk, telegram, held, faults, curtailed, excused>>

\* A payment's or an admin's grant of a course replaces what is left, by an end
\* that may be earlier.
GrantCourse(u, course, end) ==
    /\ Change
    /\ until' = [until EXCEPT ![u][course] = end]
    /\ curtailed' = IF end < until[u][course] /\ end < clock + Day THEN curtailed \union {<<u, course>>} ELSE curtailed
    /\ UNCHANGED <<clock, closed, chat, archived, invites, requests, desk, telegram, held, faults, excused>>

Revoke(u, right) ==
    /\ Change
    /\ until' = [until EXCEPT ![u][right] = 0]
    /\ curtailed' = curtailed \union {<<u, right>>}
    /\ UNCHANGED <<clock, closed, chat, archived, invites, requests, desk, telegram, held, faults>>
    /\ excused' = excused \union OutOfSight

EditDestination(edit) ==
    /\ Change
    /\ edit.dest \in DOMAIN chat
    /\ chat' = [chat EXCEPT ![edit.dest] = edit.chat]
    /\ archived' = IF edit.active THEN archived \ {edit.dest} ELSE archived \union {edit.dest}
    /\ UNCHANGED <<clock, until, closed, invites, requests, desk, telegram, held, faults, curtailed>>
    /\ excused' = excused \union OutOfSight

TimePasses ==
    /\ PassTime
    /\ UNCHANGED <<access, invites, requests, desk, telegram, held, changes, faults, curtailed>>
    /\ excused' = excused \union OutOfSight

ExpireTelegramInvites ==
    /\ \E i \in DOMAIN invites : invites[i].status = "issued" /\ Past(invites[i].expires)
    /\ invites' = [i \in DOMAIN invites |->
            IF Past(invites[i].expires) THEN [invites[i] EXCEPT !.status = "expired"] ELSE invites[i]]
    /\ UNCHANGED <<clock, access, requests, desk, telegram, held, observed>>

-----------------------------------------------------------------------------
(* A user asks for a link in the app, or an admin has one made for him. *)

AskInvite(tab, u, d) ==
    /\ requests[tab] = Idle
    /\ \/ Access(u, d) /\ (Source[d] = "course" => d \notin archived)
       \/ Source[d] = "channel"     \* handleAdminIssueInvite asks for no access
    /\ d \in ByBot => chat[d] # NoChat \/ Source[d] = "channel"
    /\ d \in ByBot \union Manual
    /\ requests' = [requests EXCEPT ![tab] =
            [stage |-> "asked",
             ask |-> [user |-> u, dest |-> d, chat |-> chat[d], expires |-> LinkEnd(u, d)]]]
    /\ UNCHANGED <<clock, access, invites, desk, telegram, held, observed>>

LookUpInvite(tab) ==
    /\ requests[tab].stage = "asked"
    /\ LET ask == requests[tab].ask
       IN  \/ \E i \in Newest(invites, Reusable(ask)) :
                /\ held' = held \union {Given(ask, invites[i].link)}
                /\ requests' = [requests EXCEPT ![tab] = Idle]
           \/ /\ Reusable(ask) = {}
              /\ requests' = [requests EXCEPT ![tab] =
                    IF ask.dest \in ByBot
                    THEN [stage |-> "creating", ask |-> ask]
                    ELSE [stage |-> "storing", ask |-> ask, link |-> ask.dest]]
              /\ UNCHANGED held
    /\ UNCHANGED <<clock, access, invites, desk, telegram, observed>>

CreateInviteLink(tab) ==
    /\ requests[tab].stage = "creating" /\ requests[tab].ask.chat # NoChat
    /\ \E l \in NextId(LinkIds, links) :
        /\ links' = Insert(links, l, NewLink(requests[tab].ask, "app"))
        /\ requests' = [requests EXCEPT ![tab] = [stage |-> "storing", ask |-> requests[tab].ask, link |-> l]]
    /\ UNCHANGED <<clock, access, invites, desk, banned, members, held, observed>>

\* A channel's own link serves when Telegram refuses; otherwise the request fails.
LinkRefused(tab) ==
    /\ requests[tab].stage = "creating"
    /\ IF requests[tab].ask.chat = NoChat THEN UNCHANGED faults ELSE Fault
    /\ LET ask == requests[tab].ask
       IN  requests' = [requests EXCEPT ![tab] =
                IF Source[ask.dest] = "channel" /\ ask.dest \in Manual
                THEN [stage |-> "storing", ask |-> ask, link |-> ask.dest]
                ELSE Idle]
    /\ UNCHANGED <<clock, access, invites, desk, telegram, held, changes, curtailed, excused>>

\* A level's or a course's link is given once it is recorded; the error of
\* recording a channel's is ignored.
RecordInvite(tab) ==
    /\ requests[tab].stage = "storing"
    /\ LET r == requests[tab]
       IN  /\ \/ invites' \in Recorded(r.ask, r.link) /\ UNCHANGED faults
              \/ Source[r.ask.dest] = "channel" /\ Fault /\ UNCHANGED invites
           /\ held' = held \union {Given(r.ask, r.link)}
    /\ requests' = [requests EXCEPT ![tab] = Idle]
    /\ UNCHANGED <<clock, access, desk, telegram, changes, curtailed, excused>>

RequestCutOff(tab) ==
    /\ Fault
    /\ requests[tab] # Idle
    /\ requests' = [requests EXCEPT ![tab] = Idle]
    /\ UNCHANGED <<clock, access, invites, desk, telegram, held, changes, curtailed, excused>>

\* Anybody who was given a link may use it.
Join(u, l) ==
    /\ \E h \in held : h.user = u /\ h.link = l
    /\ Usable(l) /\ LinkChat(l) \in Chats
    /\ <<u, LinkChat(l)>> \notin banned \union members
    /\ members' = members \union {<<u, LinkChat(l)>>}
    /\ links' = IF l \in Manual THEN links ELSE [links EXCEPT ![l].used = TRUE]
    /\ excused' = IF u \in closed THEN excused \union {<<u, LinkChat(l)>>} ELSE excused
    /\ UNCHANGED <<clock, access, invites, requests, desk, banned, held, changes, faults, curtailed>>

-----------------------------------------------------------------------------
(* An admin blocks a user: the destinations are listed while his access is *)
(* still open, then it is closed, then he is removed chat by chat.         *)

BlockUser(u) ==
    /\ Change
    /\ desk = Idle
    /\ desk' = [stage |-> "blocking", at |-> 1, user |-> u, todo |-> {}]
    /\ excused' = {e \in excused : e[1] # u} \union ({u} \X (Chats \ ToFind(u, 1)))
    /\ UNCHANGED <<clock, access, invites, requests, telegram, held, faults, curtailed>>

\* A list that cannot be read is left out, and so is a destination whose access
\* cannot be checked or, of the levels, whose row cannot be read.
ListDestinations ==
    /\ desk.stage \in {"blocking", "inviting"} /\ desk.at <= Len(Lists)
    /\ LET u == desk.user
           here == {d \in OpenDestinations(u) : Source[d] = Lists[desk.at]}
       IN  \E lost \in {{}, here} \union {{d} : d \in here} :
            /\ IF lost = {} THEN UNCHANGED faults ELSE Fault
            /\ \/ /\ desk.stage = "blocking"
                  /\ desk' = [desk EXCEPT !.at = NextList(@, lost), !.todo = @ \union ChatsOf(here \ lost)]
                  /\ excused' = excused \union ({u} \X ChatsOf(lost))
               \/ /\ desk.stage = "inviting"
                  /\ desk' = [desk EXCEPT !.at = NextList(@, lost), !.todo = @ \union
                        {[user |-> u, dest |-> d, chat |-> chat[d], expires |-> OwnEnd(u, d)] : d \in here \ lost}]
                  /\ UNCHANGED excused
    /\ UNCHANGED <<clock, access, invites, requests, telegram, held, changes, curtailed>>

CloseAccess ==
    /\ desk.stage = "blocking" /\ desk.at > Len(Lists)
    /\ closed' = closed \union {desk.user}
    /\ desk' = [desk EXCEPT !.stage = "removing"]
    /\ UNCHANGED <<clock, until, chat, archived, invites, requests, telegram, held, observed>>

\* banChatMember, then unbanChatMember; either may fail.
RemoveChatMember(c) ==
    /\ desk.stage = "removing" /\ c \in desk.todo
    /\ \/ /\ members' = members \ {<<desk.user, c>>}
          /\ \/ UNCHANGED <<banned, faults>>
             \/ Fault /\ banned' = banned \union {<<desk.user, c>>}
          /\ UNCHANGED excused
       \/ /\ Fault
          /\ excused' = excused \union {<<desk.user, c>>}
          /\ UNCHANGED <<members, banned>>
    /\ desk' = [desk EXCEPT !.todo = @ \ {c}]
    /\ UNCHANGED <<clock, access, invites, requests, links, held, changes, curtailed>>

BlockEnds ==
    /\ desk.stage = "removing" /\ desk.todo = {}
    /\ desk' = Idle
    /\ UNCHANGED <<clock, access, invites, requests, telegram, held, observed>>

-----------------------------------------------------------------------------
(* An admin unblocks a user: his access is opened, the destinations listed *)
(* as above, links found or made for each, and sent in one message.        *)

UnblockUser(u) ==
    /\ Change
    /\ desk = Idle
    /\ closed' = closed \ {u}
    /\ desk' = [stage |-> "inviting", at |-> 1, user |-> u, todo |-> {}, given |-> {}]
    /\ excused' = {e \in excused : e[1] # u}
    /\ UNCHANGED <<clock, until, chat, archived, invites, requests, telegram, held, faults, curtailed>>

\* The link typed in is preferred to one of the bot's. Nobody can tell whether
\* the bot's link exists before it is recorded; that may fail, and the link is
\* sent all the same.
InviteBack(ask) ==
    /\ desk.stage = "inviting" /\ desk.at > Len(Lists) /\ ask \in desk.todo
    /\ \/ /\ ask.dest \in Manual
          /\ desk' = [desk EXCEPT !.todo = @ \ {ask}, !.given = @ \union {<<ask, ask.dest>>}]
          /\ UNCHANGED <<links, invites, faults>>
       \/ /\ ask.dest \in ByBot \ Manual /\ ask.chat # NoChat
          /\ LET now == [ask EXCEPT !.expires = RejoinEnd(@)]
             IN  \E l \in NextId(LinkIds, links) :
                    /\ links' = Insert(links, l, NewLink(now, "desk"))
                    /\ \/ invites' \in Recorded(now, l) /\ UNCHANGED faults
                       \/ Fault /\ UNCHANGED invites
                    /\ desk' = [desk EXCEPT !.todo = @ \ {ask}, !.given = @ \union {<<ask, l>>}]
       \/ /\ ask.dest \notin Manual
          /\ IF ask.dest \in ByBot /\ ask.chat # NoChat THEN Fault ELSE UNCHANGED faults
          /\ desk' = [desk EXCEPT !.todo = @ \ {ask}]
          /\ UNCHANGED <<links, invites>>
    /\ UNCHANGED <<clock, access, requests, banned, members, held, changes, curtailed, excused>>

TellUser ==
    /\ desk.stage = "inviting" /\ desk.at > Len(Lists) /\ desk.todo = {}
    /\ \/ held' = held \union {Given(g[1], g[2]) : g \in desk.given} /\ UNCHANGED faults
       \/ Fault /\ UNCHANGED held
    /\ desk' = Idle
    /\ UNCHANGED <<clock, access, invites, requests, telegram, changes, curtailed, excused>>

DeskCutOff ==
    /\ Fault
    /\ desk # Idle
    /\ excused' = IF desk.stage \in {"blocking", "removing"} THEN excused \union ({desk.user} \X Chats) ELSE excused
    /\ desk' = Idle
    /\ UNCHANGED <<clock, access, invites, requests, telegram, held, changes, curtailed>>

-----------------------------------------------------------------------------

Init ==
    /\ PlatformInit
    /\ until = SeedUntil
    /\ closed = {} /\ archived = {}
    /\ chat \in SeedChats
    /\ invites = EmptyTable /\ links = EmptyTable
    /\ requests = [tab \in Tabs |-> Idle]
    /\ desk = Idle
    /\ banned = {} /\ members = {} /\ held = {}
    /\ changes = 0 /\ faults = 0
    /\ curtailed = {} /\ excused = {}

RequestStep(tab) ==
    \/ \E u \in Users, d \in DOMAIN chat : AskInvite(tab, u, d)
    \/ LookUpInvite(tab)
    \/ CreateInviteLink(tab)
    \/ LinkRefused(tab)
    \/ RecordInvite(tab)
    \/ RequestCutOff(tab)

DeskStep ==
    \/ \E u \in Users : BlockUser(u) \/ UnblockUser(u)
    \/ CloseAccess
    \/ \E c \in Chats : RemoveChatMember(c)
    \/ BlockEnds
    \/ ListDestinations
    \/ desk.stage = "inviting" /\ \E ask \in desk.todo : InviteBack(ask)
    \/ TellUser
    \/ DeskCutOff

Next ==
    \/ \E u \in Users :
        \/ "subscription" \in Bought /\ BuySubscription(u)
        \/ \E course \in Bought \ {"subscription"}, end \in CourseEnds : GrantCourse(u, course, end)
    \/ \E u \in Users, right \in Taken : Revoke(u, right)
    \/ \E edit \in Edits : EditDestination(edit)
    \/ TimePasses
    \/ ExpireTelegramInvites
    \/ \E tab \in Tabs : RequestStep(tab)
    \/ \E u \in Users, l \in DOMAIN links \union Manual : Join(u, l)
    \/ DeskStep

Spec == Init /\ [][Next]_vars

-----------------------------------------------------------------------------
(* Properties. *)

\* Rows fit the tables (schema.go:205, :412): no invite without a chat.
InvitesTypeOK ==
    /\ PlatformTypeOK
    /\ until \in [Users -> [Rights -> Nat]]
    /\ closed \subseteq Users /\ archived \subseteq Destinations
    /\ IsTable(chat, Destinations, Chats \union {NoChat})
    /\ IsTable(invites, InviteIds, InviteRow)
    /\ IsTable(links, LinkIds, [chat : Chats, expires : Nat, used : BOOLEAN,
                                user : Users, dest : Destinations, by : {"app", "desk"}])
    /\ requests \in [Tabs -> Request \union {Idle}]
    /\ desk \in DeskWork \union {Idle}
    /\ banned \union members \union excused \subseteq Users \X Chats
    /\ held \subseteq [user : Users, dest : Destinations, chat : Chats \union {NoChat}, link : Link]
    /\ curtailed \subseteq Users \X Rights

\* Once an admin has blocked a user, the user is in no chat, except where his
\* access was over, the destination archived or moved before it was listed, the
\* list could not be read, Telegram refused, the request was cut off, or he came
\* back by a link he still held (applyAdminUserAccessChange lists before it
\* closes and removes after; a list that fails does not keep the others back).
BlockedIsOut ==
    \A u \in closed : desk # Idle \/ \A c \in Chats : <<u, c>> \in members => <<u, c>> \in excused

\* A link leads to the chat that its destination had when it was asked for or
\* listed, and a link given again is the user's own (the look-ups of invites).
LinkLeadsThere ==
    \A h \in held : h.link \in LinkIds =>
        /\ links[h.link].chat = h.chat
        /\ links[h.link].dest = h.dest /\ links[h.link].user = h.user

\* Both: rows that fit the tables, and links that fit what they are given for.
InvitesSafe == InvitesTypeOK /\ LinkLeadsThere

\* Nobody joins a level or a course by a link of the app once what he had the
\* link for is over, unless an admin ended that early, or a later grant of the
\* course replaced it by one that ended within the link's day (expires_at of the
\* links; grantPremiumCourseAccessTx replaces whatever there is).
AppLinkEndsWithAccess ==
    [][\A l \in DOMAIN links :
        /\ links'[l].used /\ ~links[l].used
        /\ links[l].by = "app" /\ Source[links[l].dest] # "channel"
        => LET u == links[l].user
               right == Right(links[l].dest)
           IN  Holds(u, right) \/ <<u, right>> \in curtailed]_vars

=============================================================================
