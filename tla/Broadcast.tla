----------------------------- MODULE Broadcast ------------------------------
(***************************************************************************)
(* Messages an admin sends to many users: queued in a table, claimed by a  *)
(* job that runs every five seconds, sent one by one, recorded, finished   *)
(* (internal/handler/scheduler.go, the broadcasts of admin.go).            *)
(*                                                                         *)
(* A process is told to stop (its context is cancelled) before it is gone; *)
(* with a cancelled context every call to Telegram and to the database     *)
(* fails, and the program goes on from there until it is gone.             *)
(***************************************************************************)
EXTENDS Platform, Tables, FiniteSets

CONSTANTS
    BroadcastIds,  \* ids the broadcasts table may use
    AskedTargets,  \* audiences admins ask for
    Processes,     \* processes that have the database open
    MaxExits       \* bound: how often a process is told to stop or crashes

VARIABLES
    broadcasts,    \* the broadcasts table
    messages,      \* the broadcast_messages table
    process,       \* how each process is doing
    job,           \* what each process's broadcast job is doing
    exits,         \* how many processes were told to stop or crashed
    audience,      \* the recipients a job has read for a broadcast
    attempts,      \* how often Telegram was asked to deliver to a user
    cutShort       \* broadcasts whose job did not come to its end

tables == <<broadcasts, messages>>
observed == <<audience, attempts, cutShort>>
vars == <<clock, tables, process, job, exits, observed>>

Targets == {"all", "active", "inactive"}
Finished == {"completed", "failed"}
BroadcastRow == [target : Targets, status : {"queued", "processing"} \union Finished, created : Nat]
MessageRow == [broadcast : BroadcastIds, user : Users, status : {"sent", "failed"}]

Idle == [stage |-> "idle"]
Job ==
    [stage : {"claimed"}, broadcast : BroadcastIds]                                      \* next: ReadRecipients
    \union [stage : {"sending"}, broadcast : BroadcastIds, left : SUBSET Users, failed : BOOLEAN]  \* SendMessage, FinishBroadcast
    \union [stage : {"answered"}, broadcast : BroadcastIds, left : SUBSET Users, failed : BOOLEAN,
            user : Users, sent : BOOLEAN]                                              \* RecordBroadcastMessage

ASSUME BroadcastAssumption ==
    /\ IsFiniteSet(Users) /\ BroadcastIds \subseteq Nat
    /\ MaxExits \in Nat

Works(p) == process[p] = "up"

-----------------------------------------------------------------------------
(* Plausible mistakes, for checking that the properties notice them. *)

QueuedOrStuck(b) == b \in DOMAIN broadcasts /\ broadcasts[b].status \in {"queued", "processing"}
NextOfItsSecond(b) ==
    /\ b \in DOMAIN broadcasts /\ broadcasts[b].status = "queued"
    /\ \A c \in BroadcastIds \ {b} :
        c \in DOMAIN broadcasts /\ broadcasts[c].status = "queued" => broadcasts[b].created < broadcasts[c].created
LastAnswer(j, sent) == ~sent
VerdictRetry(failed) == IF failed THEN "queued" ELSE "completed"

-----------------------------------------------------------------------------
(* Reads. *)

normalizeBroadcastTarget(target) == IF target \in {"active", "inactive"} THEN target ELSE "all"

\* The audience a target stands for, given who has an active subscription.
BroadcastRecipients(target, active) ==
    CASE target = "active" -> active
      [] target = "inactive" -> Users \ active
      [] OTHER -> Users

Queued(b) == b \in DOMAIN broadcasts /\ broadcasts[b].status = "queued"

\* ORDER BY created_at LIMIT 1: of the broadcasts of one second any may come first.
NextInLine(b) ==
    /\ Queued(b)
    /\ \A c \in BroadcastIds : Queued(c) => broadcasts[b].created <= broadcasts[c].created

\* Whether somebody could not be reached so far.
Failed(j, sent) == j.failed \/ ~sent

RowFor(j) ==
    {[broadcast |-> j.broadcast, user |-> j.user, status |-> IF j.sent THEN "sent" ELSE "failed"]}

Verdict(failed) == IF failed THEN "failed" ELSE "completed"

SetStatus(b, status) == broadcasts' = [broadcasts EXCEPT ![b].status = status]

\* The numbers of the admin's list of broadcasts.
Counted(b, status) == Cardinality({m \in messages : m.broadcast = b /\ m.status = status})

-----------------------------------------------------------------------------
(* Admins, and the clock. *)

CreateBroadcast(target) ==
    /\ \E p \in Processes : Works(p)
    /\ \E b \in NextId(BroadcastIds, broadcasts) :
        broadcasts' = Insert(broadcasts, b,
            [target |-> normalizeBroadcastTarget(target), status |-> "queued", created |-> clock])
    /\ UNCHANGED <<clock, messages, process, job, exits, observed>>

TimePasses ==
    /\ PassTime
    /\ UNCHANGED <<tables, process, job, exits, observed>>

-----------------------------------------------------------------------------
(* The job of one process. *)

ClaimQueuedBroadcast(p) ==
    /\ Works(p) /\ job[p] = Idle
    /\ \E b \in BroadcastIds :
        /\ NextInLine(b)
        /\ SetStatus(b, "processing")
        /\ job' = [job EXCEPT ![p] = [stage |-> "claimed", broadcast |-> b]]
    /\ UNCHANGED <<clock, messages, process, exits, observed>>

\* Subscriptions come and go between any two steps, so the query may find any
\* set of users with an active one.
ReadRecipients(p) ==
    /\ Works(p) /\ job[p].stage = "claimed"
    /\ \E active \in SUBSET Users :
        LET b == job[p].broadcast
            to == BroadcastRecipients(broadcasts[b].target, active)
        IN  /\ audience' = [audience EXCEPT ![b] = to]
            /\ job' = [job EXCEPT ![p] = [stage |-> "sending", broadcast |-> b, left |-> to, failed |-> FALSE]]
    /\ UNCHANGED <<clock, tables, process, exits, attempts, cutShort>>

\* The recipients cannot be read. When that is because the process stops, the
\* attempt to say so fails as well.
RecipientsUnread(p) ==
    /\ process[p] # "down" /\ job[p].stage = "claimed"
    /\ LET b == job[p].broadcast
       IN  /\ IF Works(p) THEN SetStatus(b, Verdict(TRUE)) ELSE UNCHANGED broadcasts
           /\ cutShort' = cutShort \union {b}
    /\ job' = [job EXCEPT ![p] = Idle]
    /\ UNCHANGED <<clock, messages, process, exits, audience, attempts>>

\* Telegram accepts the message or refuses it. Told to stop, the job may still
\* take the next tick, but its request does not leave the process any more.
SendMessage(p) ==
    /\ process[p] # "down" /\ job[p].stage = "sending"
    /\ \E u \in job[p].left, sent \in {Works(p), FALSE} :
        LET j == job[p]
        IN  /\ attempts' = IF Works(p) THEN [attempts EXCEPT ![j.broadcast][u] = @ + 1] ELSE attempts
            /\ job' = [job EXCEPT ![p] =
                [stage |-> "answered", broadcast |-> j.broadcast, left |-> j.left \ {u},
                 failed |-> Failed(j, sent), user |-> u, sent |-> sent]]
    /\ UNCHANGED <<clock, tables, process, exits, audience, cutShort>>

\* The error of the INSERT is ignored.
RecordBroadcastMessage(p) ==
    /\ process[p] # "down" /\ job[p].stage = "answered"
    /\ LET j == job[p]
       IN  /\ messages' = IF Works(p) THEN messages \union RowFor(j) ELSE messages
           /\ cutShort' = IF Works(p) THEN cutShort ELSE cutShort \union {j.broadcast}
           /\ job' = [job EXCEPT ![p] =
                [stage |-> "sending", broadcast |-> j.broadcast, left |-> j.left, failed |-> j.failed]]
    /\ UNCHANGED <<clock, broadcasts, process, exits, audience, attempts>>

FinishBroadcast(p) ==
    /\ process[p] # "down" /\ job[p].stage = "sending" /\ job[p].left = {}
    /\ LET j == job[p]
       IN  /\ IF Works(p) THEN SetStatus(j.broadcast, Verdict(j.failed)) ELSE UNCHANGED broadcasts
           /\ cutShort' = IF Works(p) THEN cutShort ELSE cutShort \union {j.broadcast}
    /\ job' = [job EXCEPT ![p] = Idle]
    /\ UNCHANGED <<clock, messages, process, exits, audience, attempts>>

\* Waiting for the next tick the job learns that the process stops; it says so
\* with a context of its own.
GiveUp(p) ==
    /\ process[p] = "stopping" /\ job[p].stage = "sending" /\ job[p].left # {}
    /\ SetStatus(job[p].broadcast, Verdict(TRUE))
    /\ cutShort' = cutShort \union {job[p].broadcast}
    /\ job' = [job EXCEPT ![p] = Idle]
    /\ UNCHANGED <<clock, messages, process, exits, audience, attempts>>

-----------------------------------------------------------------------------
(* Processes. The program does not wait for its jobs when it stops. *)

Stop(p) ==
    /\ Works(p) /\ exits < MaxExits
    /\ exits' = exits + 1
    /\ process' = [process EXCEPT ![p] = "stopping"]
    /\ UNCHANGED <<clock, tables, job, observed>>

Exit(p) ==
    /\ \/ process[p] = "stopping" /\ UNCHANGED exits
       \/ Works(p) /\ exits < MaxExits /\ exits' = exits + 1
    /\ process' = [process EXCEPT ![p] = "down"]
    /\ job' = [job EXCEPT ![p] = Idle]
    /\ cutShort' = IF job[p] = Idle THEN cutShort ELSE cutShort \union {job[p].broadcast}
    /\ UNCHANGED <<clock, tables, audience, attempts>>

Start(p) ==
    /\ process[p] = "down"
    /\ process' = [process EXCEPT ![p] = "up"]
    /\ UNCHANGED <<clock, tables, job, exits, observed>>

-----------------------------------------------------------------------------

Init ==
    /\ PlatformInit
    /\ broadcasts = EmptyTable
    /\ messages = {}
    /\ process = [p \in Processes |-> "up"]
    /\ job = [p \in Processes |-> Idle]
    /\ exits = 0
    /\ audience = [b \in BroadcastIds |-> {}]
    /\ attempts = [b \in BroadcastIds |-> [u \in Users |-> 0]]
    /\ cutShort = {}

JobStep(p) ==
    \/ ClaimQueuedBroadcast(p)
    \/ ReadRecipients(p)
    \/ RecipientsUnread(p)
    \/ SendMessage(p)
    \/ RecordBroadcastMessage(p)
    \/ FinishBroadcast(p)
    \/ GiveUp(p)

Next ==
    \/ \E target \in AskedTargets : CreateBroadcast(target)
    \/ TimePasses
    \/ \E p \in Processes : JobStep(p) \/ Stop(p) \/ Exit(p) \/ Start(p)

Spec == Init /\ [][Next]_vars

\* The job's ticker runs for as long as its process does. Nothing makes an
\* admin write, a process stop, or anybody start one again.
Fairness == \A p \in Processes : WF_vars(JobStep(p))
FairSpec == Spec /\ Fairness

-----------------------------------------------------------------------------
(* Properties. *)

\* Every row has the columns and the values the code knows (schema.go:490).
BroadcastTypeOK ==
    /\ PlatformTypeOK
    /\ IsTable(broadcasts, BroadcastIds, BroadcastRow)
    /\ messages \subseteq MessageRow
    /\ process \in [Processes -> {"up", "stopping", "down"}]
    /\ job \in [Processes -> Job \union {Idle}]
    /\ exits \in 0..MaxExits
    /\ audience \in [BroadcastIds -> SUBSET Users]
    /\ attempts \in [BroadcastIds -> [Users -> Nat]]
    /\ cutShort \subseteq BroadcastIds

\* Nobody gets a broadcast twice, with several processes and whatever is
\* interrupted and started again (ClaimQueuedBroadcast, admin.go:911).
AtMostOnce == \A b \in BroadcastIds, u \in Users : attempts[b][u] <= 1

\* Both: rows of the right shape, and no second delivery.
BroadcastSafe == BroadcastTypeOK /\ AtMostOnce

\* A broadcast shown as completed was sent to its whole audience, and the list
\* of broadcasts says so (runBroadcastJob, ListBroadcasts).
CompletedReachedAll ==
    \A b \in BroadcastIds :
        b \in DOMAIN broadcasts /\ broadcasts[b].status = "completed" =>
            /\ \A u \in audience[b] : attempts[b][u] = 1
            /\ Counted(b, "sent") = Cardinality(audience[b])

\* For a broadcast whose job came to its end the numbers sent and failed add up
\* to its audience (RecordBroadcastMessage for every recipient).
ReportAddsUp ==
    \A b \in BroadcastIds \ cutShort :
        b \in DOMAIN broadcasts /\ broadcasts[b].status \in Finished =>
            Counted(b, "sent") + Counted(b, "failed") = Cardinality(audience[b])

\* What an admin reads in the list of broadcasts is what happened to them.
ReportIsTrue == CompletedReachedAll /\ ReportAddsUp

\* A broadcast that was asked for is finished, unless its job was cut short or
\* no process works (StartSchedulers runs the job every five seconds).
AnnouncementEnds ==
    \A b \in BroadcastIds :
        b \in DOMAIN broadcasts ~>
            \/ b \in DOMAIN broadcasts /\ broadcasts[b].status \in Finished
            \/ b \in cutShort
            \/ \A p \in Processes : ~Works(p)

\* The tables and jobs together behave as Mailing says: a broadcast is opened
\* once, tried once for each user, and nothing is sent once it is finished.
Stage(b) ==
    IF b \notin DOMAIN broadcasts THEN "none"
    ELSE CASE broadcasts[b].status = "queued" -> "waiting"
           [] broadcasts[b].status = "processing" -> "open"
           [] OTHER -> "closed"

M == INSTANCE Mailing WITH
    Broadcasts <- BroadcastIds,
    stage <- [b \in BroadcastIds |-> Stage(b)],
    tried <- [b \in BroadcastIds |-> {u \in Users : attempts[b][u] > 0}]

ImplementsMailing == M!Spec

=============================================================================
