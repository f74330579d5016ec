----------------------------- MODULE Reminders ------------------------------
(***************************************************************************)
(* The three jobs that remind users: of the Zoom meeting, of a subscription *)
(* that ends, of a live stream (internal/handler/scheduler.go).  Each takes *)
(* a key in the key-value store before it sends, so that a restart or a    *)
(* second run does not repeat the message (internal/handler/session.go).   *)
(*                                                                         *)
(* A tick of the clock is the minute of the tickers.                       *)
(***************************************************************************)
EXTENDS Platform, FiniteSets

CONSTANTS
    Streams,
    Windows,        \* how long before a stream users are reminded
    ZoomMinutes,    \* minutes that are Monday or Thursday, 20:00
    DayLength,      \* the period of the daily job, and a calendar day
    Lead, Slack,    \* SUBSCRIPTION_REMINDER_HOURS; the hour around it
    ZoomTTL, SubscriptionTTL, StreamTTL,    \* how long keys are kept
    Term,           \* what a purchase adds to a subscription
    SeedExpiry,     \* when subscriptions end at the start; 0 is never had one
    SeedStart,      \* when streams are planned to start
    Stores,         \* key-value stores a start may find: "redis", "memory"
    Followed,       \* sets of jobs to follow: the jobs share the clock and the process alone
    MaxChanges,     \* bound: purchases, blocks, moved and cancelled streams
    MaxFaults       \* bound: crashes and failed calls

Kinds == {"zoom", "ending", "stream"}

\* A reminder is about a day, about a subscription and the day it ends, or about a
\* stream, a window and the stream's start.
Reminder ==
    [kind : {"zoom"}, user : Users, day : Nat]
    \union [kind : {"ending"}, user : Users, day : Nat]
    \union [kind : {"stream"}, stream : Streams, window : Windows, start : Nat]

ASSUME RemindersAssumption ==
    /\ Windows \subseteq Nat /\ ZoomMinutes \subseteq Nat
    /\ {DayLength, ZoomTTL, SubscriptionTTL, StreamTTL, Term} \subseteq Nat \ {0}
    /\ {Lead, Slack, MaxChanges, MaxFaults} \subseteq Nat
    /\ SeedExpiry \in [Users -> Nat] /\ SeedStart \in [Streams -> Nat]
    /\ Stores \subseteq {"redis", "memory"}
    /\ Followed \subseteq SUBSET Kinds

VARIABLES
    expires,     \* when each user's subscription ends
    closed,      \* users.access_closed
    streams,     \* the live_streams table
    changes,     \* how many changes there were
    store,       \* the key-value store of the present process
    keys,        \* the keys of Redis and of this process's memory, with their ends
    running,     \* is there a process
    started,     \* when it started
    kinds,       \* the jobs that are followed
    due,         \* jobs whose ticker has fired
    job,         \* what each job is doing
    faults,      \* crashes and failed calls so far
    sent,        \* how often a user was sent a reminder
    forgets,     \* how often keys were left behind by a start
    served,      \* <<reminder, user>> that a run listed and came to the end with
    lost         \* <<reminder, user>> whose message a crash or failed call took

world == <<expires, closed, streams, changes>>
rounds == <<kinds, due, job>>
observed == <<sent, forgets, served, lost>>
vars == <<clock, world, store, keys, running, started, rounds, faults, observed>>

StreamRow == [start : Nat, status : {"scheduled", "cancelled"}]

Idle == [stage |-> "idle"]
Job ==
    [stage : {"listing"}, todo : SUBSET Reminder, listed : SUBSET (Reminder \X Users)]
    \union [stage : {"sending"}, todo : SUBSET Reminder, listed : SUBSET (Reminder \X Users),
            reminder : Reminder, to : SUBSET Users]

-----------------------------------------------------------------------------
(* Plausible mistakes, for checking that the properties notice them. *)

KeyOfAll(r) == IF r.kind = "stream" THEN <<"stream", r.stream, r.window>> ELSE <<r.kind, r.day>>
TTLOfAMinute(r) == 1

-----------------------------------------------------------------------------
(* Reads. *)

HasSubscription(u) == expires[u] > 0 /\ ~Past(expires[u])
DateOf(t) == t \div DayLength

\* The key of a reminder. A stream's does not name the start.
Key(r) ==
    IF r.kind = "stream" THEN <<"stream", r.stream, r.window>> ELSE <<r.kind, r.user, r.day>>

TTL(r) ==
    CASE r.kind = "zoom" -> ZoomTTL
      [] r.kind = "ending" -> SubscriptionTTL
      [] OTHER -> StreamTTL

Taken(r) == Key(r) \in DOMAIN keys[store] /\ clock < keys[store][Key(r)]

WithKey(r) ==
    [k \in DOMAIN keys[store] \union {Key(r)} |-> IF k = Key(r) THEN clock + TTL(r) ELSE keys[store][k]]

NotifiedUsers == {u \in Users : HasSubscription(u) /\ u \notin closed}
EndingUsers == {u \in Users : expires[u] \in (clock + Lead - Slack)..(clock + Lead + Slack)}

\* until <= window && until > window - one minute
InWindow(start, window) == clock + window = start

\* What a job finds to do when its ticker fires.
Agenda(kind) ==
    CASE kind = "zoom" ->
            IF clock \in ZoomMinutes
            THEN {[kind |-> "zoom", user |-> u, day |-> DateOf(clock)] : u \in NotifiedUsers}
            ELSE {}
      [] kind = "ending" -> {[kind |-> "ending", user |-> u, day |-> DateOf(expires[u])] : u \in EndingUsers}
      [] OTHER ->
            {[kind |-> "stream", stream |-> x, window |-> w, start |-> streams[x].start] :
                x \in {y \in Streams : streams[y].status = "scheduled"}, w \in Windows}

\* The live stream job looks at each window in turn; the other jobs' lists are
\* exact from the start.
StillDue(r) == r.kind = "stream" => InWindow(r.start, r.window)

\* Whom a reminder goes to, once its key is taken.
Readers(r) == IF r.kind = "stream" THEN NotifiedUsers ELSE {r.user}

Period(kind) == IF kind = "ending" THEN DayLength ELSE 1

-----------------------------------------------------------------------------
(* Users, admins, and the clock. *)

Change == running /\ changes < MaxChanges /\ changes' = changes + 1

Buys(u) ==
    /\ Change
    /\ expires' = [expires EXCEPT ![u] = (IF HasSubscription(u) THEN @ ELSE clock) + Term]
    /\ UNCHANGED <<clock, closed, streams, store, keys, running, started, rounds, faults, observed>>

SetUserAccessState(u) ==
    /\ Change
    /\ closed' = (closed \ {u}) \union ({u} \ closed)
    /\ UNCHANGED <<clock, expires, streams, store, keys, running, started, rounds, faults, observed>>

UpsertStream(x, start) ==
    /\ Change
    /\ streams' = [streams EXCEPT ![x] = [start |-> start, status |-> "scheduled"]]
    /\ UNCHANGED <<clock, expires, closed, store, keys, running, started, rounds, faults, observed>>

DeleteStream(x) ==
    /\ Change
    /\ streams' = [streams EXCEPT ![x].status = "cancelled"]
    /\ UNCHANGED <<clock, expires, closed, store, keys, running, started, rounds, faults, observed>>

\* A ticker holds one tick for a job that is busy and drops the others. A job
\* that waits for its tick does not sleep through the minute.
TimePasses ==
    /\ PassTime
    /\ \A kind \in due : job[kind] # Idle
    /\ due' = IF running THEN due \union {k \in kinds : (clock' - started) % Period(k) = 0} ELSE due
    /\ UNCHANGED <<world, store, keys, running, started, kinds, job, faults, observed>>

-----------------------------------------------------------------------------
(* The jobs. *)

\* The rows are read once. When that fails the run is over.
Begin(kind) ==
    /\ running /\ kind \in due /\ job[kind] = Idle
    /\ due' = due \ {kind}
    /\ job' = [job EXCEPT ![kind] = [stage |-> "listing", todo |-> Agenda(kind), listed |-> {}]]
    /\ UNCHANGED <<clock, world, store, keys, running, started, kinds, faults, observed>>

Audience(r, users) == {<<r, u>> : u \in users}

\* Not due any more, or somebody has had the key: on to the next one.
Skip(kind, r) ==
    /\ Taken(r) \/ ~StillDue(r)
    /\ job' = [job EXCEPT ![kind].todo = @ \ {r},
                           ![kind].listed = IF r.kind = "stream" THEN @ ELSE @ \union Audience(r, {r.user})]
    /\ UNCHANGED <<keys, faults, lost>>

\* SetNX takes the key; then the readers are looked up and the sending starts.
Take(kind, r) ==
    /\ StillDue(r) /\ ~Taken(r)
    /\ keys' = [keys EXCEPT ![store] = WithKey(r)]
    /\ job' = [job EXCEPT ![kind] =
            [stage |-> "sending", todo |-> @.todo \ {r}, listed |-> @.listed \union Audience(r, Readers(r)),
             reminder |-> r, to |-> Readers(r)]]
    /\ UNCHANGED <<faults, lost>>

\* SetNX fails, or the key is taken and the look-up of the readers fails.
Miss(kind, r) ==
    /\ StillDue(r) /\ ~Taken(r)
    /\ faults < MaxFaults /\ faults' = faults + 1
    /\ keys' \in {keys, [keys EXCEPT ![store] = WithKey(r)]}
    /\ lost' = lost \union Audience(r, Readers(r))
    /\ job' = [job EXCEPT ![kind].todo = @ \ {r}, ![kind].listed = @ \union Audience(r, Readers(r))]

TakeUp(kind) ==
    /\ running /\ job[kind].stage = "listing"
    /\ \E r \in job[kind].todo : Skip(kind, r) \/ Take(kind, r) \/ Miss(kind, r)
    /\ UNCHANGED <<clock, world, store, running, started, kinds, due, sent, forgets, served>>

SentTo(r, u) == IF <<r, u>> \in DOMAIN sent THEN sent[<<r, u>>] ELSE 0

\* Whether Telegram accepts the message is not looked at.
SendMessage(kind) ==
    /\ running /\ job[kind].stage = "sending"
    /\ \E u \in job[kind].to :
        LET pair == <<job[kind].reminder, u>>
        IN  /\ sent' = [x \in DOMAIN sent \union {pair} |->
                            IF x = pair THEN SentTo(job[kind].reminder, u) + 1 ELSE sent[x]]
            /\ job' = [job EXCEPT ![kind].to = @ \ {u}]
    /\ UNCHANGED <<clock, world, store, keys, running, started, kinds, due, faults, forgets, served, lost>>

NextReminder(kind) ==
    /\ running /\ job[kind].stage = "sending" /\ job[kind].to = {}
    /\ job' = [job EXCEPT ![kind] = [stage |-> "listing", todo |-> @.todo, listed |-> @.listed]]
    /\ UNCHANGED <<clock, world, store, keys, running, started, kinds, due, faults, observed>>

End(kind) ==
    /\ running /\ job[kind].stage = "listing" /\ job[kind].todo = {}
    /\ served' = served \union job[kind].listed
    /\ job' = [job EXCEPT ![kind] = Idle]
    /\ UNCHANGED <<clock, world, store, keys, running, started, kinds, due, faults, sent, forgets, lost>>

-----------------------------------------------------------------------------
(* The process. *)

Sending == {kind \in Kinds : job[kind].stage = "sending"}

Crash ==
    /\ running /\ faults < MaxFaults
    /\ faults' = faults + 1
    /\ running' = FALSE
    /\ lost' = lost \union UNION {Audience(job[kind].reminder, job[kind].to) : kind \in Sending}
    /\ job' = [kind \in Kinds |-> Idle]
    /\ due' = {}
    /\ UNCHANGED <<clock, world, store, keys, started, kinds, sent, forgets, served>>

\* Redis when it answers, else a store in memory; every job runs at once.
Start(found) ==
    /\ ~running
    /\ running' = TRUE
    /\ started' = clock
    /\ store' = found
    /\ keys' = IF found = "memory" THEN [keys EXCEPT !["memory"] = <<>>] ELSE keys
    /\ forgets' = IF found = "memory" \/ store = "memory" THEN forgets + 1 ELSE forgets
    /\ due' = kinds
    /\ UNCHANGED <<clock, world, kinds, job, faults, sent, served, lost>>

-----------------------------------------------------------------------------

Init ==
    /\ PlatformInit
    /\ expires = SeedExpiry
    /\ closed = {}
    /\ streams = [x \in Streams |-> [start |-> SeedStart[x], status |-> "scheduled"]]
    /\ changes = 0
    /\ store \in Stores
    /\ keys = [kv \in {"redis", "memory"} |-> <<>>]
    /\ running = TRUE
    /\ started = 0
    /\ kinds \in Followed
    /\ due = kinds
    /\ job = [kind \in Kinds |-> Idle]
    /\ faults = 0
    /\ sent = <<>>
    /\ forgets = 0
    /\ served = {}
    /\ lost = {}

Next ==
    \/ \E u \in Users : Buys(u) \/ SetUserAccessState(u)
    \/ \E x \in Streams : DeleteStream(x) \/ \E start \in 0..MaxTime : UpsertStream(x, start)
    \/ TimePasses
    \/ \E kind \in Kinds : Begin(kind) \/ TakeUp(kind) \/ SendMessage(kind) \/ NextReminder(kind) \/ End(kind)
    \/ Crash
    \/ \E found \in Stores : Start(found)

RemindersSpec == Init /\ [][Next]_vars

-----------------------------------------------------------------------------
(* Properties. *)

\* The variables keep their shape; a job sends only what it holds the key of.
RemindersTypeOK ==
    /\ PlatformTypeOK
    /\ expires \in [Users -> Nat]
    /\ closed \subseteq Users
    /\ streams \in [Streams -> StreamRow]
    /\ changes \in 0..MaxChanges /\ faults \in 0..MaxFaults
    /\ store \in Stores
    /\ \A kv \in DOMAIN keys : \A k \in DOMAIN keys[kv] : keys[kv][k] \in Nat
    /\ running \in BOOLEAN /\ started \in 0..clock
    /\ kinds \in Followed /\ due \subseteq kinds
    /\ \A kind \in Kinds : job[kind] = Idle \/ \A r \in job[kind].todo : r.kind = kind
    /\ \A kind \in Sending : Key(job[kind].reminder) \in DOMAIN keys[store]

\* No user is sent a reminder a second time unless the process came back with
\* another key-value store or an empty one (SetNX in scheduler.go; buildKV).
RepeatsOnlyAfterForgetting == \A pair \in DOMAIN sent : sent[pair] <= 1 + forgets

\* Both: variables of the right shape, and no needless repetition.
RemindersSafe == RemindersTypeOK /\ RepeatsOnlyAfterForgetting

\* A reminder that a run came to the end with has been sent, by this run or an
\* earlier one, unless a crash or a failed call fell between its key and its
\* message (scheduler.go:121, the key is set before the message is sent).
NothingLostQuietly == \A pair \in served : SentTo(pair[1], pair[2]) > 0 \/ pair \in lost

=============================================================================
