-------------------------- MODULE RemindersProofs ---------------------------
(***************************************************************************)
(* Proofs about Reminders: no reminder is lost without a crash or a failed *)
(* call to account for it, and none is repeated unless keys were left      *)
(* behind or a run took longer than keys live.                             *)
(***************************************************************************)
EXTENDS Reminders, TLAPS

-----------------------------------------------------------------------------
(***************************************************************************)
(* The shape of the variables.                                             *)
(***************************************************************************)

WorldOK ==
    /\ clock \in Nat /\ clock <= MaxTime
    /\ expires \in [Users -> Nat]
    /\ closed \subseteq Users
    /\ streams \in [Streams -> StreamRow]
    /\ changes \in 0..MaxChanges /\ faults \in 0..MaxFaults
    /\ running \in BOOLEAN /\ started \in 0..clock
    /\ kinds \in Followed /\ due \subseteq kinds

\* A job deals with reminders of its kind.
Minds(kind) ==
    job[kind] # Idle =>
        /\ \A r \in job[kind].todo : r.kind = kind
        /\ \A pair \in job[kind].listed : pair[1].kind = kind
        /\ job[kind].stage = "sending" => job[kind].reminder.kind = kind

JobsOK ==
    /\ job \in [Kinds -> Job \union {Idle}]
    /\ \A kind \in Kinds : Minds(kind)
    /\ ~running => \A kind \in Kinds : job[kind] = Idle

KeysOK ==
    /\ store \in Stores /\ DOMAIN keys = {"redis", "memory"}
    /\ \A kv \in DOMAIN keys : \A k \in DOMAIN keys[kv] : keys[kv][k] \in Nat
    /\ \A kind \in Sending : Key(job[kind].reminder) \in DOMAIN keys[store]

CountsOK ==
    /\ forgets \in Nat
    /\ DOMAIN sent \subseteq Reminder \X Users
    /\ \A pair \in DOMAIN sent : sent[pair] \in Nat
    /\ served \subseteq Reminder \X Users

Shapes == WorldOK /\ JobsOK /\ KeysOK /\ CountsOK

Listing(todo, listed) == [stage |-> "listing", todo |-> todo, listed |-> listed]
Sends(todo, listed, r, to) ==
    [stage |-> "sending", todo |-> todo, listed |-> listed, reminder |-> r, to |-> to]

LEMMA JobShape ==
    ASSUME JobsOK, NEW kind \in Kinds
    PROVE  /\ job[kind].stage \in {"listing", "sending"} =>
                /\ job[kind] # Idle
                /\ job[kind].todo \subseteq Reminder
                /\ job[kind].listed \subseteq Reminder \X Users
           /\ job[kind].stage = "listing" => job[kind] = Listing(job[kind].todo, job[kind].listed)
           /\ job[kind].stage = "sending" =>
                /\ job[kind].reminder \in Reminder /\ job[kind].to \subseteq Users
                /\ job[kind] = Sends(job[kind].todo, job[kind].listed, job[kind].reminder, job[kind].to)
           /\ job[kind] # Idle => job[kind].stage \in {"listing", "sending"}
           /\ job[kind] = Idle => job[kind].stage = "idle"
<1>1. job[kind] \in Job \union {Idle}
  BY DEF JobsOK
<1>2. CASE job[kind] = Idle
  BY <1>2 DEF Idle
<1>3. CASE job[kind] \in [stage : {"listing"}, todo : SUBSET Reminder, listed : SUBSET (Reminder \X Users)]
  BY <1>3 DEF Idle, Listing
<1>4. CASE job[kind] \in [stage : {"sending"}, todo : SUBSET Reminder, listed : SUBSET (Reminder \X Users),
                          reminder : Reminder, to : SUBSET Users]
  BY <1>4 DEF Idle, Sends
<1> QED
  BY <1>1, <1>2, <1>3, <1>4 DEF Job

LEMMA JobForms ==
    ASSUME NEW todo \in SUBSET Reminder, NEW listed \in SUBSET (Reminder \X Users)
    PROVE  /\ Listing(todo, listed) \in Job
           /\ \A r \in Reminder, to \in SUBSET Users : Sends(todo, listed, r, to) \in Job
BY DEF Job, Listing, Sends

-----------------------------------------------------------------------------
(***************************************************************************)
(* Reminders and their keys.                                               *)
(***************************************************************************)

LEMMA ReminderShape ==
    ASSUME NEW r \in Reminder
    PROVE  /\ r.kind \in Kinds
           /\ r.kind # "stream" => r.user \in Users /\ r = [kind |-> r.kind, user |-> r.user, day |-> r.day]
           /\ r.kind = "stream" => r.window \in Nat /\ r.start \in Nat
BY RemindersAssumption DEF Reminder, Kinds

\* A key names one reminder, except that a stream's does not name its start.
LEMMA KeyNames ==
    ASSUME NEW r \in Reminder, NEW q \in Reminder, Key(r) = Key(q)
    PROVE  /\ r.kind = q.kind
           /\ r.kind # "stream" => r = q
           /\ r.kind = "stream" => r.window = q.window
<1>1. CASE r.kind = "stream" /\ q.kind = "stream"
  BY <1>1 DEF Key
<1>2. CASE r.kind # "stream" /\ q.kind # "stream"
  <2>1. r.kind = q.kind /\ r.user = q.user /\ r.day = q.day
    BY <1>2 DEF Key
  <2> QED
    BY <1>2, <2>1, ReminderShape
<1>3. CASE ~(r.kind = "stream" <=> q.kind = "stream")
  BY <1>3 DEF Key
<1> QED
  BY <1>1, <1>2, <1>3

LEMMA TTLPositive ==
    ASSUME NEW r \in Reminder
    PROVE  TTL(r) \in Nat /\ TTL(r) > 0
BY RemindersAssumption DEF TTL

LEMMA ReadersAreUsers ==
    ASSUME NEW r \in Reminder
    PROVE  /\ Readers(r) \subseteq Users
           /\ r.kind # "stream" => Readers(r) = {r.user}
           /\ Audience(r, Readers(r)) \subseteq Reminder \X Users
           /\ \A pair \in Audience(r, Readers(r)) : pair[1] = r /\ pair[2] \in Readers(r)
<1>1. Readers(r) \subseteq Users /\ (r.kind # "stream" => Readers(r) = {r.user})
  BY ReminderShape DEF Readers, NotifiedUsers
<1> QED
  BY <1>1 DEF Audience

LEMMA DayIsNat ==
    ASSUME NEW t \in Nat
    PROVE  DateOf(t) \in Nat
BY RemindersAssumption DEF DateOf

\* What a job finds to do are reminders of its kind.
LEMMA AgendaKind ==
    ASSUME WorldOK, NEW kind \in Kinds
    PROVE  Agenda(kind) \subseteq Reminder /\ \A r \in Agenda(kind) : r.kind = kind
<1>1. CASE kind = "zoom"
  <2>1. \A u \in Users : [kind |-> "zoom", user |-> u, day |-> DateOf(clock)] \in Reminder
    BY DayIsNat DEF WorldOK, Reminder
  <2> QED
    BY <1>1, <2>1 DEF Agenda, NotifiedUsers
<1>2. CASE kind = "ending"
  <2>1. \A u \in Users : [kind |-> "ending", user |-> u, day |-> DateOf(expires[u])] \in Reminder
    BY DayIsNat DEF WorldOK, Reminder
  <2> QED
    BY <1>2, <2>1 DEF Agenda, EndingUsers
<1>3. CASE kind = "stream"
  <2>1. \A x \in Streams, w \in Windows :
            [kind |-> "stream", stream |-> x, window |-> w, start |-> streams[x].start] \in Reminder
    BY DEF WorldOK, StreamRow, Reminder
  <2> QED
    BY <1>3, <2>1 DEF Agenda
<1> QED
  BY <1>1, <1>2, <1>3 DEF Kinds

\* The store once r's key is taken.
TakesKey(r) == keys' = [keys EXCEPT ![store] = WithKey(r)]

LEMMA KeysAfter ==
    ASSUME WorldOK, KeysOK, NEW r \in Reminder, TakesKey(r)
    PROVE  /\ DOMAIN keys' = DOMAIN keys /\ store \in DOMAIN keys
           /\ \A kv \in DOMAIN keys :
                DOMAIN keys'[kv] = IF kv = store THEN DOMAIN keys[kv] \union {Key(r)} ELSE DOMAIN keys[kv]
           /\ \A kv \in DOMAIN keys : \A k \in DOMAIN keys[kv] :
                k # Key(r) => keys'[kv][k] = keys[kv][k]
           /\ \A kv \in DOMAIN keys \ {store} : keys'[kv] = keys[kv]
           /\ Key(r) \in DOMAIN keys'[store] /\ keys'[store][Key(r)] = clock + TTL(r)
           /\ \A kv \in DOMAIN keys' : \A k \in DOMAIN keys'[kv] : keys'[kv][k] \in Nat
<1>1. store \in DOMAIN keys
  BY RemindersAssumption DEF KeysOK
<1>2. keys'[store] = WithKey(r) /\ \A kv \in DOMAIN keys \ {store} : keys'[kv] = keys[kv]
  BY <1>1 DEF TakesKey
<1>3. /\ DOMAIN WithKey(r) = DOMAIN keys[store] \union {Key(r)}
      /\ WithKey(r)[Key(r)] = clock + TTL(r)
      /\ \A k \in DOMAIN keys[store] : k # Key(r) => WithKey(r)[k] = keys[store][k]
  BY DEF WithKey
<1>4. clock + TTL(r) \in Nat
  BY TTLPositive DEF WorldOK
<1>5. DOMAIN keys' = DOMAIN keys
  BY DEF TakesKey
<1>6. \A k \in DOMAIN WithKey(r) : WithKey(r)[k] \in Nat
  BY <1>1, <1>3, <1>4 DEF KeysOK
<1> QED
  BY <1>1, <1>2, <1>3, <1>5, <1>6 DEF KeysOK

-----------------------------------------------------------------------------
(***************************************************************************)
(* The steps of a job, by what they make of it.                            *)
(***************************************************************************)

Turns(kind, j) == job' = [job EXCEPT ![kind] = j]

Fits(kind, j) ==
    j # Idle =>
        /\ \A r \in j.todo : r.kind = kind
        /\ \A pair \in j.listed : pair[1].kind = kind
        /\ j.stage = "sending" => j.reminder.kind = kind

LEMMA JobsAfter ==
    ASSUME JobsOK, NEW kind \in Kinds, NEW j \in Job \union {Idle}, Fits(kind, j),
           Turns(kind, j), running'
    PROVE  /\ JobsOK' /\ job'[kind] = j
           /\ \A other \in Kinds \ {kind} : job'[other] = job[other]
<1>1. /\ job' \in [Kinds -> Job \union {Idle}] /\ job'[kind] = j
      /\ \A other \in Kinds \ {kind} : job'[other] = job[other]
  BY DEF JobsOK, Turns
<1>2. \A other \in Kinds : Minds(other)'
  BY <1>1 DEF JobsOK, Minds, Fits
<1> QED
  BY <1>1, <1>2 DEF JobsOK

Skips(kind, r) ==
    /\ Taken(r) \/ ~StillDue(r)
    /\ Turns(kind, Listing(job[kind].todo \ {r},
                           IF r.kind = "stream" THEN job[kind].listed
                           ELSE job[kind].listed \union Audience(r, {r.user})))
    /\ UNCHANGED <<keys, lost>>

ListedNext(kind, r) == job[kind].listed \union Audience(r, Readers(r))

Takes(kind, r) ==
    /\ StillDue(r) /\ ~Taken(r)
    /\ TakesKey(r)
    /\ Turns(kind, Sends(job[kind].todo \ {r}, ListedNext(kind, r), r, Readers(r)))
    /\ UNCHANGED lost

Misses(kind, r) ==
    /\ StillDue(r) /\ ~Taken(r)
    /\ UNCHANGED keys \/ TakesKey(r)
    /\ Turns(kind, Listing(job[kind].todo \ {r}, ListedNext(kind, r)))
    /\ lost' = lost \union Audience(r, Readers(r))

LEMMA ListingTurns ==
    ASSUME NEW kind \in DOMAIN job, NEW todo, NEW listed, NEW left, NEW seen,
           job[kind] = Listing(todo, listed),
           job' = [job EXCEPT ![kind].todo = left, ![kind].listed = seen]
    PROVE  Turns(kind, Listing(left, seen))
<1>1. PICK j : j = [Listing(todo, listed) EXCEPT !.todo = left]
  OBVIOUS
<1>2. j = Listing(left, listed)
  BY <1>1 DEF Listing
<1>3. PICK k : k = [j EXCEPT !.listed = seen]
  OBVIOUS
<1>4. k = Listing(left, seen)
  BY <1>2, <1>3 DEF Listing
<1>5. job' = [job EXCEPT ![kind] = k]
  BY <1>1, <1>3 DEF Listing
<1> QED
  BY <1>4, <1>5 DEF Turns

LEMMA TakeUpForms ==
    ASSUME JobsOK, NEW kind \in Kinds, TakeUp(kind)
    PROVE  /\ \E r \in job[kind].todo :
                /\ r \in Reminder /\ r.kind = kind
                /\ Skips(kind, r) \/ Takes(kind, r) \/ Misses(kind, r)
           /\ job[kind].stage = "listing" /\ running'
           /\ UNCHANGED <<clock, store, sent, forgets, served>>
<1>1. PICK r \in job[kind].todo : Skip(kind, r) \/ Take(kind, r) \/ Miss(kind, r)
  BY DEF TakeUp
<1>2. job[kind].stage = "listing" /\ job[kind] = Listing(job[kind].todo, job[kind].listed)
  BY JobShape DEF TakeUp
<1>3. r \in Reminder /\ r.kind = kind
  BY <1>1, <1>2, JobShape DEF JobsOK, Minds
<1>4. kind \in DOMAIN job
  BY DEF JobsOK
<1>5. ASSUME Skip(kind, r) PROVE Skips(kind, r)
  <2>1. PICK seen : seen = IF r.kind = "stream" THEN job[kind].listed
                            ELSE job[kind].listed \union Audience(r, {r.user})
    OBVIOUS
  <2>2. PICK left : left = job[kind].todo \ {r}
    OBVIOUS
  <2>3. job' = [job EXCEPT ![kind].todo = left, ![kind].listed = seen]
    BY <1>2, <1>4, <1>5, <2>1, <2>2 DEF Skip, Listing
  <2>4. Turns(kind, Listing(left, seen))
    BY <1>2, <1>4, <2>3, ListingTurns
  <2> QED
    BY <1>5, <2>1, <2>2, <2>4 DEF Skip, Skips
<1>6. ASSUME Take(kind, r) PROVE Takes(kind, r)
  BY <1>4, <1>6 DEF Take, Takes, Turns, Sends, ListedNext, TakesKey
<1>7. ASSUME Miss(kind, r) PROVE Misses(kind, r)
  <2>1. Turns(kind, Listing(job[kind].todo \ {r}, ListedNext(kind, r)))
    <3>1. PICK seen : seen = ListedNext(kind, r)
      OBVIOUS
    <3>2. PICK left : left = job[kind].todo \ {r}
      OBVIOUS
    <3>3. job' = [job EXCEPT ![kind].todo = left, ![kind].listed = seen]
      BY <1>2, <1>4, <1>7, <3>1, <3>2 DEF Miss, Listing, ListedNext
    <3> QED
      BY <1>2, <1>4, <3>1, <3>2, <3>3, ListingTurns
  <2> QED
    BY <1>7, <2>1 DEF Miss, Misses, TakesKey
<1> QED
  BY <1>1, <1>2, <1>3, <1>5, <1>6, <1>7 DEF TakeUp, world

\* The other steps of a job.
LEMMA JobStepForms ==
    ASSUME JobsOK, WorldOK, NEW kind \in Kinds
    PROVE  /\ Begin(kind) =>
                /\ job[kind] = Idle /\ Turns(kind, Listing(Agenda(kind), {})) /\ running'
                /\ UNCHANGED <<clock, keys, store, sent, forgets, served, lost>>
           /\ SendMessage(kind) =>
                /\ job[kind].stage = "sending" /\ running'
                /\ \E u \in job[kind].to :
                    /\ sent' = [x \in DOMAIN sent \union {<<job[kind].reminder, u>>} |->
                                    IF x = <<job[kind].reminder, u>>
                                    THEN SentTo(job[kind].reminder, u) + 1 ELSE sent[x]]
                    /\ Turns(kind, Sends(job[kind].todo, job[kind].listed, job[kind].reminder, job[kind].to \ {u}))
                /\ UNCHANGED <<clock, keys, store, forgets, served, lost>>
           /\ NextReminder(kind) =>
                /\ job[kind].stage = "sending" /\ job[kind].to = {} /\ running'
                /\ Turns(kind, Listing(job[kind].todo, job[kind].listed))
                /\ UNCHANGED <<clock, keys, store, sent, forgets, served, lost>>
           /\ End(kind) =>
                /\ job[kind].stage = "listing" /\ Turns(kind, Idle) /\ running'
                /\ served' = served \union job[kind].listed
                /\ UNCHANGED <<clock, keys, store, sent, forgets, lost>>
<1> USE DEF observed, world
<1>1. kind \in DOMAIN job
  BY DEF JobsOK
<1>2. ASSUME Begin(kind)
      PROVE  /\ job[kind] = Idle /\ Turns(kind, Listing(Agenda(kind), {})) /\ running'
             /\ UNCHANGED <<clock, keys, store, sent, forgets, served, lost>>
  BY <1>2 DEF Begin, Turns, Listing
<1>3. ASSUME SendMessage(kind)
      PROVE  \E u \in job[kind].to :
                /\ sent' = [x \in DOMAIN sent \union {<<job[kind].reminder, u>>} |->
                                IF x = <<job[kind].reminder, u>>
                                THEN SentTo(job[kind].reminder, u) + 1 ELSE sent[x]]
                /\ Turns(kind, Sends(job[kind].todo, job[kind].listed, job[kind].reminder, job[kind].to \ {u}))
  <2>1. job[kind] = Sends(job[kind].todo, job[kind].listed, job[kind].reminder, job[kind].to)
    BY <1>3, JobShape DEF SendMessage
  <2>2. PICK u \in job[kind].to :
            /\ sent' = [x \in DOMAIN sent \union {<<job[kind].reminder, u>>} |->
                            IF x = <<job[kind].reminder, u>>
                            THEN SentTo(job[kind].reminder, u) + 1 ELSE sent[x]]
            /\ job' = [job EXCEPT ![kind].to = @ \ {u}]
    BY <1>3 DEF SendMessage
  <2>3. job' = [job EXCEPT ![kind] = [job[kind] EXCEPT !.to = @ \ {u}]]
    BY <2>2
  <2>4. [job[kind] EXCEPT !.to = @ \ {u}] =
            Sends(job[kind].todo, job[kind].listed, job[kind].reminder, job[kind].to \ {u})
    BY <2>1 DEF Sends
  <2> QED
    BY <2>2, <2>3, <2>4 DEF Turns
<1>4. ASSUME NextReminder(kind) PROVE Turns(kind, Listing(job[kind].todo, job[kind].listed))
  BY <1>1, <1>4 DEF NextReminder, Turns, Listing
<1>5. SendMessage(kind) \/ NextReminder(kind) \/ End(kind) => running' /\ UNCHANGED <<clock, keys, store, forgets, lost>>
  BY DEF SendMessage, NextReminder, End
<1>6. /\ SendMessage(kind) => job[kind].stage = "sending" /\ UNCHANGED served
      /\ NextReminder(kind) => job[kind].stage = "sending" /\ job[kind].to = {} /\ UNCHANGED <<sent, served>>
      /\ End(kind) => /\ job[kind].stage = "listing" /\ Turns(kind, Idle) /\ UNCHANGED sent
                      /\ served' = served \union job[kind].listed
  BY DEF SendMessage, NextReminder, End, Turns
<1> QED
  BY <1>2, <1>3, <1>4, <1>5, <1>6

-----------------------------------------------------------------------------
(***************************************************************************)
(* The variables keep their shape.                                         *)
(***************************************************************************)

\* Users, admins and the clock leave the jobs and the keys alone.
OutsideStep ==
    \/ \E u \in Users : Buys(u) \/ SetUserAccessState(u)
    \/ \E x \in Streams : DeleteStream(x) \/ \E start \in 0..MaxTime : UpsertStream(x, start)
    \/ TimePasses
    \/ UNCHANGED vars

JobStep(kind) ==
    Begin(kind) \/ TakeUp(kind) \/ SendMessage(kind) \/ NextReminder(kind) \/ End(kind)

LEMMA NextForms ==
    [Next]_vars <=>
        \/ OutsideStep
        \/ \E kind \in Kinds : JobStep(kind)
        \/ Crash
        \/ \E found \in Stores : Start(found)
BY DEF Next, OutsideStep, JobStep

LEMMA InitShapes == Init => Shapes
<1> SUFFICES ASSUME Init PROVE Shapes
  OBVIOUS
<1>1. WorldOK
  BY RemindersAssumption, PlatformAssumption DEF Init, WorldOK, PlatformInit, StreamRow
<1>2. job = [kind \in Kinds |-> Idle] /\ Sending = {}
  BY DEF Init, Sending, Idle
<1>3. JobsOK
  BY <1>2 DEF JobsOK, Minds
<1>4. KeysOK
  BY <1>2 DEF Init, KeysOK
<1>5. CountsOK
  BY DEF Init, CountsOK
<1> QED
  BY <1>1, <1>3, <1>4, <1>5 DEF Shapes

LEMMA OutsideLeaves ==
    ASSUME WorldOK, OutsideStep
    PROVE  /\ UNCHANGED <<store, keys, running, job, sent, forgets, served, lost>>
           /\ clock' = clock \/ (clock' = clock + 1 /\ clock < MaxTime)
           /\ WorldOK'
<1> USE DEF world, rounds, observed
<1>1. ASSUME NEW u \in Users, Buys(u) \/ SetUserAccessState(u)
      PROVE  /\ UNCHANGED <<clock, store, keys, running, job, sent, forgets, served, lost>>
             /\ WorldOK'
  <2>1. expires' \in [Users -> Nat]
    BY <1>1, RemindersAssumption DEF Buys, SetUserAccessState, WorldOK
  <2>2. changes' \in 0..MaxChanges
    BY <1>1, RemindersAssumption DEF Buys, SetUserAccessState, Change, WorldOK
  <2> QED
    BY <1>1, <2>1, <2>2 DEF Buys, SetUserAccessState, Change, WorldOK
<1>2. ASSUME NEW x \in Streams, NEW start \in 0..MaxTime, DeleteStream(x) \/ UpsertStream(x, start)
      PROVE  /\ UNCHANGED <<clock, store, keys, running, job, sent, forgets, served, lost>>
             /\ WorldOK'
  <2>1. streams' \in [Streams -> StreamRow]
    BY <1>2 DEF DeleteStream, UpsertStream, WorldOK, StreamRow
  <2>2. changes' \in 0..MaxChanges
    BY <1>2, RemindersAssumption DEF DeleteStream, UpsertStream, Change, WorldOK
  <2> QED
    BY <1>2, <2>1, <2>2 DEF DeleteStream, UpsertStream, Change, WorldOK
<1>3. ASSUME NEW x \in Streams, DeleteStream(x)
      PROVE  /\ UNCHANGED <<clock, store, keys, running, job, sent, forgets, served, lost>>
             /\ WorldOK'
  BY <1>2, <1>3, PlatformAssumption
<1>4. CASE TimePasses
  <2>1. clock' = clock + 1 /\ clock < MaxTime
    BY <1>4 DEF TimePasses, PassTime
  <2>2. due' \subseteq kinds
    BY <1>4 DEF TimePasses, WorldOK
  <2>3. started' \in 0..clock'
    BY <1>4, <2>1 DEF TimePasses, WorldOK
  <2> QED
    BY <1>4, <2>1, <2>2, <2>3, PlatformAssumption DEF TimePasses, WorldOK
<1>5. CASE UNCHANGED vars
  BY <1>5 DEF vars, WorldOK
<1> QED
  BY <1>1, <1>2, <1>3, <1>4, <1>5 DEF OutsideStep

LEMMA JobWorld ==
    ASSUME WorldOK, NEW kind \in Kinds, JobStep(kind)
    PROVE  WorldOK'
<1> USE DEF world, WorldOK
<1>1. CASE Begin(kind)
  BY <1>1 DEF Begin
<1>2. CASE TakeUp(kind)
  <2>1. faults' \in 0..MaxFaults
    BY <1>2, RemindersAssumption DEF TakeUp, Skip, Take, Miss
  <2> QED
    BY <1>2, <2>1 DEF TakeUp
<1>3. CASE SendMessage(kind) \/ NextReminder(kind) \/ End(kind)
  BY <1>3 DEF SendMessage, NextReminder, End
<1> QED
  BY <1>1, <1>2, <1>3 DEF JobStep

\* A step of a job that leaves the keys alone and sends nothing it did not send before.
LEMMA KeysStay ==
    ASSUME KeysOK, NEW kind \in Kinds, UNCHANGED <<store, keys>>,
           \A other \in Kinds \ {kind} : job'[other] = job[other],
           job'[kind].stage = "sending" =>
               job[kind].stage = "sending" /\ job'[kind].reminder = job[kind].reminder
    PROVE  KeysOK'
<1>1. \A other \in Sending' : other \in Sending /\ job'[other].reminder = job[other].reminder
  BY DEF Sending
<1>2. \A other \in Sending' : Key(job'[other].reminder) = Key(job[other].reminder)
  BY <1>1 DEF Key
<1>3. \A other \in Sending' : Key(job[other].reminder)' = Key(job'[other].reminder)
  BY DEF Key
<1> QED
  BY <1>1, <1>2, <1>3 DEF KeysOK

LEMMA TakeShapes ==
    ASSUME Shapes, NEW kind \in Kinds, TakeUp(kind)
    PROVE  JobsOK' /\ KeysOK' /\ CountsOK'
<1> USE DEF Shapes
<1>1. PICK r \in job[kind].todo :
          /\ r \in Reminder /\ r.kind = kind
          /\ Skips(kind, r) \/ Takes(kind, r) \/ Misses(kind, r)
  BY TakeUpForms
<1>2. /\ job[kind].stage = "listing" /\ running'
      /\ UNCHANGED <<clock, store, sent, forgets, served>>
  BY TakeUpForms
<1>3. /\ job[kind].todo \ {r} \in SUBSET Reminder
      /\ \A q \in job[kind].todo \ {r} : q.kind = kind
      /\ job[kind].listed \in SUBSET (Reminder \X Users)
      /\ \A pair \in job[kind].listed : pair[1].kind = kind
  BY <1>2, JobShape DEF JobsOK, Minds
<1>4. /\ ListedNext(kind, r) \in SUBSET (Reminder \X Users)
      /\ \A pair \in ListedNext(kind, r) : pair[1].kind = kind
  BY <1>1, <1>3, ReadersAreUsers DEF ListedNext
<1>5. CountsOK'
  BY <1>2 DEF CountsOK
<1>6. CASE Skips(kind, r)
  <2>1. PICK seen : seen = IF r.kind = "stream" THEN job[kind].listed
                           ELSE job[kind].listed \union Audience(r, {r.user})
    OBVIOUS
  <2>2. seen \in SUBSET (Reminder \X Users) /\ \A pair \in seen : pair[1].kind = kind
    BY <1>1, <1>3, <2>1, ReminderShape DEF Audience
  <2>3. Turns(kind, Listing(job[kind].todo \ {r}, seen)) /\ UNCHANGED keys
    BY <1>6, <2>1 DEF Skips
  <2>4. /\ Listing(job[kind].todo \ {r}, seen) \in Job
        /\ Fits(kind, Listing(job[kind].todo \ {r}, seen))
        /\ Listing(job[kind].todo \ {r}, seen).stage = "listing"
    BY <1>3, <2>2, JobForms DEF Fits, Listing
  <2>5. JobsOK' /\ job'[kind].stage = "listing" /\ \A other \in Kinds \ {kind} : job'[other] = job[other]
    BY <1>2, <2>3, <2>4, JobsAfter
  <2> QED
    BY <1>2, <1>5, <2>3, <2>5, KeysStay
<1>7. CASE Takes(kind, r)
  <2>1. /\ Turns(kind, Sends(job[kind].todo \ {r}, ListedNext(kind, r), r, Readers(r)))
        /\ TakesKey(r)
    BY <1>7 DEF Takes
  <2>2. PICK j : j = Sends(job[kind].todo \ {r}, ListedNext(kind, r), r, Readers(r))
    OBVIOUS
  <2>3. j \in Job /\ Fits(kind, j) /\ j.reminder = r
    BY <1>1, <1>3, <1>4, <2>2, JobForms, ReadersAreUsers DEF Fits, Sends
  <2>4. JobsOK' /\ job'[kind].reminder = r /\ \A other \in Kinds \ {kind} : job'[other] = job[other]
    BY <1>2, <2>1, <2>2, <2>3, JobsAfter
  <2>5. \A other \in Sending' : Key(job'[other].reminder) \in DOMAIN keys'[store]
    <3> SUFFICES ASSUME NEW other \in Sending' PROVE Key(job'[other].reminder) \in DOMAIN keys'[store]
      OBVIOUS
    <3>1. CASE other = kind
      BY <1>1, <2>1, <2>4, <3>1, KeysAfter
    <3>2. CASE other # kind
      <4>1. other \in Sending /\ job'[other] = job[other]
        BY <2>4, <3>2 DEF Sending
      <4>2. Key(job[other].reminder) \in DOMAIN keys[store]
        BY <4>1 DEF KeysOK
      <4> QED
        BY <1>1, <2>1, <4>1, <4>2, KeysAfter
    <3> QED
      BY <3>1, <3>2
  <2>6. \A other \in Sending' : Key(job[other].reminder)' = Key(job'[other].reminder)
    BY DEF Key
  <2>7. KeysOK'
    BY <1>1, <1>2, <2>1, <2>5, <2>6, KeysAfter DEF KeysOK
  <2> QED
    BY <1>5, <2>4, <2>7
<1>8. CASE Misses(kind, r)
  <2>1. Turns(kind, Listing(job[kind].todo \ {r}, ListedNext(kind, r)))
    BY <1>8 DEF Misses
  <2>2. PICK j : j = Listing(job[kind].todo \ {r}, ListedNext(kind, r))
    OBVIOUS
  <2>3. j \in Job /\ Fits(kind, j) /\ j.stage = "listing"
    BY <1>3, <1>4, <2>2, JobForms DEF Fits, Listing
  <2>4. JobsOK' /\ job'[kind].stage = "listing" /\ \A other \in Kinds \ {kind} : job'[other] = job[other]
    BY <1>2, <2>1, <2>2, <2>3, JobsAfter
  <2>5. CASE UNCHANGED keys
    BY <1>2, <1>5, <2>4, <2>5, KeysStay
  <2>6. CASE TakesKey(r)
    <3>1. \A other \in Sending' : other \in Sending /\ job'[other] = job[other]
      BY <2>4 DEF Sending
    <3>2. \A other \in Sending' : Key(job[other].reminder)' = Key(job[other].reminder)
      BY <3>1 DEF Key
    <3>3. \A other \in Sending' : Key(job[other].reminder) \in DOMAIN keys'[store]
      BY <1>1, <2>6, <3>1, KeysAfter DEF KeysOK
    <3>4. KeysOK'
      BY <1>1, <1>2, <2>6, <3>2, <3>3, KeysAfter DEF KeysOK
    <3> QED
      BY <1>5, <2>4, <3>4
  <2> QED
    BY <1>8, <2>5, <2>6 DEF Misses
<1> QED
  BY <1>1, <1>6, <1>7, <1>8

LEMMA OtherShapes ==
    ASSUME Shapes, NEW kind \in Kinds,
           Begin(kind) \/ SendMessage(kind) \/ NextReminder(kind) \/ End(kind)
    PROVE  JobsOK' /\ KeysOK' /\ CountsOK'
<1> USE DEF Shapes
<1>1. CASE Begin(kind)
  <2>1. /\ Turns(kind, Listing(Agenda(kind), {})) /\ running'
        /\ UNCHANGED <<keys, store, sent, forgets, served>>
    BY <1>1, JobStepForms
  <2>2. PICK j : j = Listing(Agenda(kind), {})
    OBVIOUS
  <2>3. j \in Job /\ Fits(kind, j) /\ j.stage = "listing"
    BY <2>2, AgendaKind, JobForms DEF Fits, Listing
  <2>4. JobsOK' /\ job'[kind].stage = "listing" /\ \A other \in Kinds \ {kind} : job'[other] = job[other]
    BY <2>1, <2>2, <2>3, JobsAfter
  <2> QED
    BY <2>1, <2>4, KeysStay DEF CountsOK
<1>2. CASE SendMessage(kind)
  <2>1. job[kind].stage = "sending" /\ running' /\ UNCHANGED <<keys, store, forgets, served>>
    BY <1>2, JobStepForms
  <2>2. PICK u \in job[kind].to :
            /\ sent' = [x \in DOMAIN sent \union {<<job[kind].reminder, u>>} |->
                            IF x = <<job[kind].reminder, u>>
                            THEN SentTo(job[kind].reminder, u) + 1 ELSE sent[x]]
            /\ Turns(kind, Sends(job[kind].todo, job[kind].listed, job[kind].reminder, job[kind].to \ {u}))
    BY <1>2, JobStepForms
  <2>3. /\ job[kind].todo \in SUBSET Reminder /\ job[kind].listed \in SUBSET (Reminder \X Users)
        /\ job[kind].reminder \in Reminder /\ job[kind].to \in SUBSET Users
        /\ Minds(kind) /\ job[kind] # Idle
    BY <2>1, JobShape DEF JobsOK
  <2>4. PICK j : j = Sends(job[kind].todo, job[kind].listed, job[kind].reminder, job[kind].to \ {u})
    OBVIOUS
  <2>5. j \in Job /\ Fits(kind, j) /\ j.reminder = job[kind].reminder
    BY <2>1, <2>3, <2>4, JobForms DEF Fits, Sends, Minds
  <2>6. /\ JobsOK' /\ job'[kind].reminder = job[kind].reminder
        /\ \A other \in Kinds \ {kind} : job'[other] = job[other]
    BY <2>1, <2>2, <2>4, <2>5, JobsAfter
  <2>7. SentTo(job[kind].reminder, u) \in Nat
    BY DEF SentTo, CountsOK
  <2>8. CountsOK'
    BY <2>1, <2>2, <2>3, <2>7 DEF CountsOK
  <2> QED
    BY <2>1, <2>6, <2>8, KeysStay
<1>3. CASE NextReminder(kind)
  <2>1. /\ Turns(kind, Listing(job[kind].todo, job[kind].listed)) /\ running' /\ job[kind].stage = "sending"
        /\ UNCHANGED <<keys, store, sent, forgets, served>>
    BY <1>3, JobStepForms
  <2>2. PICK j : j = Listing(job[kind].todo, job[kind].listed)
    OBVIOUS
  <2>3. /\ job[kind].todo \in SUBSET Reminder /\ job[kind].listed \in SUBSET (Reminder \X Users)
        /\ Minds(kind) /\ job[kind] # Idle
    BY <2>1, JobShape DEF JobsOK
  <2>4. j \in Job /\ Fits(kind, j) /\ j.stage = "listing"
    BY <2>2, <2>3, JobForms DEF Fits, Listing, Minds
  <2>5. JobsOK' /\ job'[kind].stage = "listing" /\ \A other \in Kinds \ {kind} : job'[other] = job[other]
    BY <2>1, <2>2, <2>4, JobsAfter
  <2> QED
    BY <2>1, <2>5, KeysStay DEF CountsOK
<1>4. CASE End(kind)
  <2>1. /\ Turns(kind, Idle) /\ running' /\ job[kind].stage = "listing"
        /\ served' = served \union job[kind].listed
        /\ UNCHANGED <<keys, store, sent, forgets>>
    BY <1>4, JobStepForms
  <2>2. Idle.stage = "idle" /\ Fits(kind, Idle)
    BY DEF Idle, Fits
  <2>3. JobsOK' /\ job'[kind].stage = "idle" /\ \A other \in Kinds \ {kind} : job'[other] = job[other]
    BY <2>1, <2>2, JobsAfter
  <2>4. CountsOK'
    BY <2>1, JobShape DEF CountsOK
  <2> QED
    BY <2>1, <2>3, <2>4, KeysStay
<1> QED
  BY <1>1, <1>2, <1>3, <1>4

LEMMA CrashShapes ==
    ASSUME Shapes, Crash
    PROVE  Shapes'
<1>1. WorldOK'
  <2>1. faults' \in 0..MaxFaults
    BY RemindersAssumption DEF Shapes, WorldOK, Crash
  <2> QED
    BY <2>1 DEF Shapes, WorldOK, Crash, world
<1>2. job' = [kind \in Kinds |-> Idle] /\ Sending' = {}
  BY DEF Crash, Sending, Idle
<1>3. JobsOK'
  BY <1>2 DEF JobsOK, Minds
<1>4. KeysOK'
  BY <1>2 DEF Shapes, KeysOK, Crash
<1>5. CountsOK'
  BY DEF Shapes, CountsOK, Crash
<1> QED
  BY <1>1, <1>3, <1>4, <1>5 DEF Shapes

LEMMA StartShapes ==
    ASSUME Shapes, NEW found \in Stores, Start(found)
    PROVE  Shapes' /\ Sending = {}
<1>1. WorldOK'
  BY DEF Shapes, WorldOK, Start, world
<1>2. \A kind \in Kinds : job[kind] = Idle
  BY DEF Shapes, JobsOK, Start
<1>3. Sending = {} /\ Sending' = {} /\ UNCHANGED job
  BY <1>2 DEF Sending, Start, Idle
<1>4. JobsOK'
  BY <1>2, <1>3 DEF Shapes, JobsOK, Minds
<1>5. KeysOK'
  <2>1. DOMAIN keys' = {"redis", "memory"}
    BY DEF Shapes, KeysOK, Start
  <2>2. \A kv \in DOMAIN keys' : \A k \in DOMAIN keys'[kv] : kv \in DOMAIN keys /\ k \in DOMAIN keys[kv] /\ keys'[kv][k] = keys[kv][k]
    <3> SUFFICES ASSUME found = "memory"
                 PROVE  \A kv \in DOMAIN keys' : \A k \in DOMAIN keys'[kv] :
                            kv \in DOMAIN keys /\ k \in DOMAIN keys[kv] /\ keys'[kv][k] = keys[kv][k]
      BY DEF Start
    <3>1. /\ DOMAIN keys' = DOMAIN keys
          /\ \A kv \in DOMAIN keys : kv # "memory" => keys'[kv] = keys[kv]
          /\ keys'["memory"] = <<>>
      BY <2>1 DEF Shapes, KeysOK, Start
    <3> QED
      BY <3>1
  <2> QED
    BY <1>3, <2>1, <2>2 DEF Shapes, KeysOK, Start
<1>6. CountsOK'
  BY DEF Shapes, CountsOK, Start
<1> QED
  BY <1>1, <1>3, <1>4, <1>5, <1>6 DEF Shapes

LEMMA NextShapes == Shapes /\ [Next]_vars => Shapes'
<1> SUFFICES ASSUME Shapes, [Next]_vars PROVE Shapes'
  OBVIOUS
<1>1. CASE OutsideStep
  <2>1. WorldOK' /\ UNCHANGED <<store, keys, running, job, sent, forgets, served, lost>>
    BY <1>1, OutsideLeaves DEF Shapes
  <2>2. JobsOK'
    BY <2>1 DEF Shapes, JobsOK, Minds
  <2>3. KeysOK'
    <3>1. Sending' = Sending
      BY <2>1 DEF Sending
    <3>2. \A kind \in Kinds : Key(job[kind].reminder)' = Key(job[kind].reminder)
      BY <2>1 DEF Key
    <3> QED
      BY <2>1, <3>1, <3>2 DEF Shapes, KeysOK, Sending
  <2>4. CountsOK'
    BY <2>1 DEF Shapes, CountsOK
  <2> QED
    BY <2>1, <2>2, <2>3, <2>4 DEF Shapes
<1>2. ASSUME NEW kind \in Kinds, JobStep(kind) PROVE Shapes'
  <2>1. WorldOK'
    BY <1>2, JobWorld DEF Shapes
  <2>2. JobsOK' /\ KeysOK' /\ CountsOK'
    BY <1>2, TakeShapes, OtherShapes DEF JobStep
  <2> QED
    BY <2>1, <2>2 DEF Shapes
<1> QED
  BY <1>1, <1>2, CrashShapes, StartShapes, NextForms

LEMMA ShapesAlways == RemindersSpec => []Shapes
BY InitShapes, NextShapes, PTL DEF RemindersSpec

LEMMA ShapesTyped == Shapes => RemindersTypeOK
<1> SUFFICES ASSUME Shapes PROVE RemindersTypeOK
  OBVIOUS
<1>1. \A kind \in Kinds : job[kind] = Idle \/ \A r \in job[kind].todo : r.kind = kind
  BY DEF Shapes, JobsOK, Minds
<1> QED
  BY <1>1 DEF Shapes, WorldOK, KeysOK, RemindersTypeOK, PlatformTypeOK

-----------------------------------------------------------------------------
(***************************************************************************)
(* Whoever has been listed is accounted for: the reminder was sent, a      *)
(* fault took it, or the job is sending it now.  A taken key accounts for  *)
(* its reminder, which is why a run may skip it.                           *)
(***************************************************************************)

InFlight(r, u) ==
    /\ job[r.kind].stage = "sending" /\ job[r.kind].reminder = r
    /\ u \in job[r.kind].to

Settled(r, u) == SentTo(r, u) > 0 \/ <<r, u>> \in lost

Accounted(r, u) == Settled(r, u) \/ InFlight(r, u)

KeysAccount ==
    \A r \in Reminder, kv \in {"redis", "memory"} :
        r.kind # "stream" /\ Key(r) \in DOMAIN keys[kv] => Accounted(r, r.user)

ListsAccount ==
    \A kind \in Kinds : job[kind] # Idle =>
        \A pair \in job[kind].listed : Accounted(pair[1], pair[2])

ServedSettled == \A pair \in served : Settled(pair[1], pair[2])

NobodyForgotten == KeysAccount /\ ListsAccount /\ ServedSettled

\* What becomes of a reminder to a user in a step.
LEMMA StillInFlight ==
    ASSUME Shapes, NEW kind \in Kinds, NEW j \in Job \union {Idle}, Turns(kind, j),
           NEW r \in Reminder, NEW u
    PROVE  /\ r.kind # kind => (InFlight(r, u)' <=> InFlight(r, u))
           /\ r.kind = kind => (InFlight(r, u)' <=> j.stage = "sending" /\ j.reminder = r /\ u \in j.to)
<1>1. r.kind \in Kinds
  BY ReminderShape
<1>2. job'[kind] = j /\ \A other \in Kinds \ {kind} : job'[other] = job[other]
  BY DEF Shapes, JobsOK, Turns
<1> QED
  BY <1>1, <1>2 DEF InFlight

LEMMA SettledStays ==
    ASSUME Shapes, [Next]_vars, NEW r \in Reminder, NEW u \in Users, Settled(r, u)
    PROVE  Settled(r, u)'
<1>1. CASE UNCHANGED <<sent, lost>>
  BY <1>1 DEF Settled, SentTo
<1>2. ASSUME sent' = sent, lost \subseteq lost' PROVE Settled(r, u)'
  BY <1>2 DEF Settled, SentTo
<1>3. CASE OutsideStep
  BY <1>1, <1>3, OutsideLeaves DEF Shapes
<1>4. ASSUME NEW kind \in Kinds, JobStep(kind) PROVE Settled(r, u)'
  <2>1. CASE TakeUp(kind)
    BY <1>2, <2>1, TakeUpForms DEF Shapes, Skips, Takes, Misses
  <2>2. CASE Begin(kind) \/ NextReminder(kind) \/ End(kind)
    BY <1>1, <2>2, JobStepForms DEF Shapes
  <2>3. CASE SendMessage(kind)
    <3>1. PICK v \in job[kind].to :
              sent' = [x \in DOMAIN sent \union {<<job[kind].reminder, v>>} |->
                            IF x = <<job[kind].reminder, v>>
                            THEN SentTo(job[kind].reminder, v) + 1 ELSE sent[x]]
      BY <2>3, JobStepForms DEF Shapes
    <3>2. UNCHANGED lost
      BY <2>3, JobStepForms DEF Shapes
    <3>3. SentTo(job[kind].reminder, v) \in Nat
      BY DEF SentTo, Shapes, CountsOK
    <3>4. SentTo(r, u)' >= SentTo(r, u) /\ SentTo(r, u) \in Nat
      BY <3>1, <3>3 DEF SentTo, Shapes, CountsOK
    <3>5. SentTo(r, u)' \in Nat
      BY <3>1, <3>3 DEF SentTo, Shapes, CountsOK
    <3> QED
      BY <3>2, <3>4, <3>5 DEF Settled
  <2> QED
    BY <1>4, <2>1, <2>2, <2>3 DEF JobStep
<1>5. CASE Crash
  BY <1>2, <1>5 DEF Crash
<1>6. ASSUME NEW found \in Stores, Start(found) PROVE Settled(r, u)'
  BY <1>1, <1>6 DEF Start
<1> QED
  BY <1>3, <1>4, <1>5, <1>6, NextForms

\* A message on its way stays there, is sent, or a crash takes it.
LEMMA FlightsLand ==
    ASSUME Shapes, [Next]_vars, NEW r \in Reminder, NEW u \in Users, InFlight(r, u)
    PROVE  Accounted(r, u)'
<1>1. r.kind \in Kinds
  BY ReminderShape
<1>2. CASE OutsideStep
  BY <1>2, OutsideLeaves DEF Shapes, InFlight, Accounted
<1>3. ASSUME NEW kind \in Kinds, JobStep(kind) PROVE Accounted(r, u)'
  <2>1. CASE TakeUp(kind)
    <3>1. PICK q \in job[kind].todo : Skips(kind, q) \/ Takes(kind, q) \/ Misses(kind, q)
      BY <2>1, TakeUpForms DEF Shapes
    <3>2. job[kind].stage = "listing"
      BY <2>1, TakeUpForms DEF Shapes
    <3>3. r.kind # kind
      BY <3>2 DEF InFlight
    <3>4. job'[r.kind] = job[r.kind]
      BY <1>1, <3>1, <3>3 DEF Skips, Takes, Misses, Turns, Shapes, JobsOK
    <3> QED
      BY <3>4 DEF InFlight, Accounted
  <2>2. CASE Begin(kind) \/ NextReminder(kind) \/ End(kind)
    <3>1. r.kind # kind
      BY <2>2, JobStepForms, JobShape DEF InFlight, Shapes
    <3>2. \E j : Turns(kind, j)
      BY <2>2, JobStepForms DEF Shapes
    <3>3. job'[r.kind] = job[r.kind]
      BY <1>1, <3>1, <3>2 DEF Turns, Shapes, JobsOK
    <3> QED
      BY <3>3 DEF InFlight, Accounted
  <2>3. CASE SendMessage(kind)
    <3>1. PICK v \in job[kind].to :
              /\ sent' = [x \in DOMAIN sent \union {<<job[kind].reminder, v>>} |->
                              IF x = <<job[kind].reminder, v>>
                              THEN SentTo(job[kind].reminder, v) + 1 ELSE sent[x]]
              /\ Turns(kind, Sends(job[kind].todo, job[kind].listed, job[kind].reminder, job[kind].to \ {v}))
      BY <2>3, JobStepForms DEF Shapes
    <3>2. CASE r.kind # kind
      <4>1. job'[r.kind] = job[r.kind]
        BY <1>1, <3>1, <3>2 DEF Turns, Shapes, JobsOK
      <4> QED
        BY <4>1 DEF InFlight, Accounted
    <3>3. CASE r.kind = kind /\ u # v
      <4>1. job'[kind] = Sends(job[kind].todo, job[kind].listed, job[kind].reminder, job[kind].to \ {v})
        BY <3>1 DEF Turns, Shapes, JobsOK
      <4>2. /\ job'[r.kind].stage = "sending" /\ job'[r.kind].reminder = r
            /\ u \in job'[r.kind].to
        BY <3>3, <4>1 DEF InFlight, Sends
      <4> QED
        BY <4>2 DEF InFlight, Accounted
    <3>4. CASE r.kind = kind /\ u = v
      <4>1. job[kind].reminder = r
        BY <3>4 DEF InFlight
      <4>2. SentTo(r, u) \in Nat
        BY DEF SentTo, Shapes, CountsOK
      <4>3. <<r, u>> \in DOMAIN sent' /\ sent'[<<r, u>>] = SentTo(r, u) + 1
        BY <3>1, <3>4, <4>1
      <4> QED
        BY <4>2, <4>3 DEF SentTo, Accounted, Settled
    <3> QED
      BY <3>2, <3>3, <3>4
  <2> QED
    BY <1>3, <2>1, <2>2, <2>3 DEF JobStep
<1>4. CASE Crash
  <2>1. r.kind \in Sending /\ <<r, u>> \in Audience(job[r.kind].reminder, job[r.kind].to)
    BY <1>1 DEF InFlight, Sending, Audience
  <2>2. <<r, u>> \in lost'
    BY <1>4, <2>1 DEF Crash
  <2> QED
    BY <2>2 DEF Accounted, Settled
<1>5. ASSUME NEW found \in Stores, Start(found) PROVE Accounted(r, u)'
  BY <1>1, <1>5, StartShapes DEF InFlight, Sending
<1> QED
  BY <1>2, <1>3, <1>4, <1>5, NextForms

LEMMA AccountedStays ==
    ASSUME Shapes, [Next]_vars, NEW r \in Reminder, NEW u \in Users, Accounted(r, u)
    PROVE  Accounted(r, u)'
BY SettledStays, FlightsLand DEF Accounted

\* Once r's key is taken its readers are on the way or lost.
LEMMA TakenUp ==
    ASSUME Shapes, NEW kind \in Kinds, NEW r \in Reminder, r.kind = kind,
           Takes(kind, r) \/ Misses(kind, r)
    PROVE  \A u \in Readers(r) : Accounted(r, u)'
<1>1. CASE Takes(kind, r)
  <2>1. job'[kind] = Sends(job[kind].todo \ {r}, ListedNext(kind, r), r, Readers(r))
    BY <1>1 DEF Takes, Turns, Shapes, JobsOK
  <2>2. job'[kind].stage = "sending" /\ job'[kind].reminder = r /\ job'[kind].to = Readers(r)
    BY <2>1 DEF Sends
  <2> QED
    BY <2>2 DEF Accounted, InFlight
<1>2. CASE Misses(kind, r)
  BY <1>2 DEF Misses, Audience, Accounted, Settled
<1> QED
  BY <1>1, <1>2

LEMMA KeysAccountStays ==
    ASSUME Shapes, NobodyForgotten, [Next]_vars
    PROVE  KeysAccount'
<1> SUFFICES ASSUME NEW q \in Reminder, NEW kv \in {"redis", "memory"},
                    q.kind # "stream", Key(q) \in DOMAIN keys'[kv]
             PROVE  Accounted(q, q.user)'
  <2>1. \A q \in Reminder : Key(q)' = Key(q)
    BY DEF Key
  <2> QED
    BY <2>1 DEF KeysAccount
<1>1. q.user \in Users
  BY ReminderShape
<1>2. ASSUME Key(q) \in DOMAIN keys[kv] PROVE Accounted(q, q.user)'
  BY <1>1, <1>2, AccountedStays DEF NobodyForgotten, KeysAccount
<1>3. CASE UNCHANGED keys
  BY <1>2, <1>3
<1>4. ASSUME NEW kind \in Kinds, TakeUp(kind) PROVE Accounted(q, q.user)'
  <2>1. PICK r \in job[kind].todo :
            /\ r \in Reminder /\ r.kind = kind
            /\ Skips(kind, r) \/ Takes(kind, r) \/ Misses(kind, r)
    BY <1>4, TakeUpForms DEF Shapes
  <2>2. CASE TakesKey(r) /\ (Takes(kind, r) \/ Misses(kind, r))
    <3>1. CASE Key(q) = Key(r)
      <4>1. q = r
        BY <2>1, <3>1, KeyNames
      <4> QED
        BY <2>1, <2>2, <4>1, TakenUp, ReadersAreUsers
    <3>2. CASE Key(q) # Key(r)
      <4>1. Key(q) \in DOMAIN keys[kv]
        <5>1. DOMAIN keys'[kv] = IF kv = store THEN DOMAIN keys[kv] \union {Key(r)} ELSE DOMAIN keys[kv]
          BY <2>1, <2>2, KeysAfter DEF Shapes, KeysOK
        <5> QED
          BY <3>2, <5>1
      <4> QED
        BY <1>2, <4>1
    <3> QED
      BY <3>1, <3>2
  <2> QED
    BY <1>3, <2>1, <2>2 DEF Skips, Takes, Misses
<1>5. ASSUME NEW found \in Stores, Start(found) PROVE Accounted(q, q.user)'
  <2>1. Key(q) \in DOMAIN keys[kv]
    BY <1>5 DEF Start, Shapes, KeysOK
  <2> QED
    BY <1>2, <2>1
<1>6. ASSUME NEW kind \in Kinds, JobStep(kind) PROVE Accounted(q, q.user)'
  BY <1>3, <1>4, <1>6, JobStepForms DEF JobStep, Shapes
<1> QED
  BY <1>3, <1>5, <1>6, OutsideLeaves, NextForms DEF Crash, Shapes

LEMMA ListsAccountStays ==
    ASSUME Shapes, NobodyForgotten, [Next]_vars
    PROVE  ListsAccount'
<1> SUFFICES ASSUME NEW other \in Kinds, job'[other] # Idle, NEW pair \in job'[other].listed
             PROVE  Accounted(pair[1], pair[2])'
  BY DEF ListsAccount
<1>1. pair \in Reminder \X Users
  <2>1. job'[other] \in Job
    BY NextShapes DEF Shapes, JobsOK
  <2> QED
    BY <2>1 DEF Job
<1>2. pair[1] \in Reminder /\ pair[2] \in Users
  BY <1>1
<1>3. ASSUME job[other] # Idle, pair \in job[other].listed PROVE Accounted(pair[1], pair[2])'
  BY <1>2, <1>3, AccountedStays DEF NobodyForgotten, ListsAccount
<1>4. CASE job'[other] = job[other]
  BY <1>3, <1>4
<1>5. ASSUME NEW kind \in Kinds, JobStep(kind) PROVE Accounted(pair[1], pair[2])'
  <2>1. CASE kind # other
    <3>1. \E j : Turns(kind, j)
      BY <1>5, TakeUpForms, JobStepForms DEF JobStep, Shapes, Skips, Takes, Misses
    <3>2. job'[other] = job[other]
      BY <2>1, <3>1 DEF Turns, Shapes, JobsOK
    <3> QED
      BY <1>4, <3>2
  <2>2. CASE kind = other /\ TakeUp(kind)
    <3>1. PICK r \in job[kind].todo :
              /\ r \in Reminder /\ r.kind = kind
              /\ Skips(kind, r) \/ Takes(kind, r) \/ Misses(kind, r)
      BY <2>2, TakeUpForms DEF Shapes
    <3>2. job[kind] # Idle
      BY <2>2, TakeUpForms, JobShape DEF Shapes
    <3>3. CASE Skips(kind, r)
      <4>1. job'[kind].listed = IF r.kind = "stream" THEN job[kind].listed
                                ELSE job[kind].listed \union Audience(r, {r.user})
        BY <3>3 DEF Skips, Turns, Listing, Shapes, JobsOK
      <4>2. CASE pair \in job[kind].listed
        BY <1>3, <2>2, <3>2, <4>2
      <4>3. CASE pair \notin job[kind].listed
        <5>1. pair = <<r, r.user>> /\ r.kind # "stream" /\ Taken(r)
          BY <2>2, <3>3, <4>1, <4>3 DEF Audience, Skips, StillDue
        <5>2. Accounted(r, r.user)
          BY <3>1, <5>1, RemindersAssumption DEF Taken, Shapes, KeysOK, NobodyForgotten, KeysAccount
        <5> QED
          BY <1>2, <5>1, <5>2, AccountedStays
      <4> QED
        BY <4>2, <4>3
    <3>4. CASE Takes(kind, r) \/ Misses(kind, r)
      <4>1. job'[kind].listed = ListedNext(kind, r)
        BY <3>4 DEF Takes, Misses, Turns, Listing, Sends, Shapes, JobsOK
      <4>2. CASE pair \in job[kind].listed
        BY <1>3, <2>2, <3>2, <4>2
      <4>3. CASE pair \notin job[kind].listed
        <5>1. pair[1] = r /\ pair[2] \in Readers(r)
          BY <2>2, <3>1, <4>1, <4>3, ReadersAreUsers DEF ListedNext
        <5> QED
          BY <3>1, <3>4, <5>1, TakenUp
      <4> QED
        BY <4>2, <4>3
    <3> QED
      BY <3>1, <3>3, <3>4
  <2>3. CASE kind = other /\ (SendMessage(kind) \/ NextReminder(kind))
    <3>1. job[kind].stage = "sending" /\ job[kind] # Idle
      BY <2>3, JobStepForms, JobShape DEF Shapes
    <3>2. \/ \E to : Turns(kind, Sends(job[kind].todo, job[kind].listed, job[kind].reminder, to))
          \/ Turns(kind, Listing(job[kind].todo, job[kind].listed))
      BY <2>3, JobStepForms DEF Shapes
    <3>3. job'[kind].listed = job[kind].listed
      BY <3>2 DEF Turns, Listing, Sends, Shapes, JobsOK
    <3> QED
      BY <1>3, <2>3, <3>1, <3>3
  <2>4. CASE kind = other /\ (Begin(kind) \/ End(kind))
    <3>1. job'[kind] = Listing(Agenda(kind), {}) \/ job'[kind] = Idle
      BY <2>4, JobStepForms DEF Turns, Shapes, JobsOK
    <3> QED
      BY <2>4, <3>1 DEF Listing
  <2> QED
    BY <1>5, <2>1, <2>2, <2>3, <2>4 DEF JobStep
<1>6. CASE OutsideStep
  BY <1>4, <1>6, OutsideLeaves DEF Shapes
<1>7. CASE Crash
  BY <1>7 DEF Crash
<1>8. ASSUME NEW found \in Stores, Start(found) PROVE Accounted(pair[1], pair[2])'
  BY <1>4, <1>8 DEF Start
<1> QED
  BY <1>5, <1>6, <1>7, <1>8, NextForms

LEMMA ServedStays ==
    ASSUME Shapes, NobodyForgotten, [Next]_vars
    PROVE  ServedSettled'
<1> SUFFICES ASSUME NEW pair \in served' PROVE Settled(pair[1], pair[2])'
  BY DEF ServedSettled
<1>1. pair[1] \in Reminder /\ pair[2] \in Users
  BY NextShapes DEF Shapes, CountsOK
<1>2. ASSUME Settled(pair[1], pair[2]) PROVE Settled(pair[1], pair[2])'
  BY <1>1, <1>2, SettledStays
<1>3. CASE pair \in served
  BY <1>2, <1>3 DEF NobodyForgotten, ServedSettled
<1>4. ASSUME NEW kind \in Kinds, End(kind), pair \notin served PROVE Settled(pair[1], pair[2])'
  <2>1. job[kind].stage = "listing" /\ pair \in job[kind].listed
    BY <1>4, JobStepForms DEF Shapes
  <2>2. job[kind] # Idle
    BY <2>1, JobShape DEF Shapes
  <2>3. Accounted(pair[1], pair[2]) /\ pair[1].kind = kind
    BY <2>1, <2>2 DEF NobodyForgotten, ListsAccount, Shapes, JobsOK, Minds
  <2>4. Settled(pair[1], pair[2])
    BY <2>1, <2>3 DEF Accounted, InFlight
  <2> QED
    BY <1>2, <2>4
<1>5. \/ UNCHANGED served
      \/ \E kind \in Kinds : End(kind)
  BY NextForms, OutsideLeaves, TakeUpForms, JobStepForms DEF JobStep, Crash, Start, Shapes
<1> QED
  BY <1>3, <1>4, <1>5

LEMMA InitForgotten == Init => NobodyForgotten
<1> SUFFICES ASSUME Init PROVE NobodyForgotten
  OBVIOUS
<1>1. KeysAccount
  BY DEF Init, KeysAccount
<1>2. ListsAccount
  BY DEF Init, ListsAccount
<1>3. ServedSettled
  BY DEF Init, ServedSettled
<1> QED
  BY <1>1, <1>2, <1>3 DEF NobodyForgotten

\* A reminder that a run came to the end with was sent, or a crash or a failed
\* call took it: with any users, streams and faults, with Redis or without, and
\* however slow the jobs are.  It is the key that makes a run skip a reminder,
\* and a key is taken by a run that sends it or a fault that loses it.
THEOREM NoneLostQuietly == RemindersSpec => []NothingLostQuietly
<1>1. Shapes /\ NobodyForgotten /\ [Next]_vars => NobodyForgotten'
  BY KeysAccountStays, ListsAccountStays, ServedStays DEF NobodyForgotten
<1>2. Shapes /\ NobodyForgotten => NothingLostQuietly
  <2>1. Shapes => \A pair \in served : pair = <<pair[1], pair[2]>>
    BY DEF Shapes, CountsOK
  <2> QED
    BY <2>1 DEF NobodyForgotten, ServedSettled, Settled, NothingLostQuietly
<1> QED
  BY <1>1, <1>2, InitForgotten, ShapesAlways, PTL DEF RemindersSpec

-----------------------------------------------------------------------------
(***************************************************************************)
(* Repetitions.  A reminder is repeated only when its key is not there:    *)
(* because a start left it behind, or because it has run out.  A stream's  *)
(* is due in one minute only, which is over before its key has run out.    *)
(* The others can be found by runs as far apart as Spread says, and a run  *)
(* holds on to what it has found: they are safe while a run takes at most  *)
(* Delay, and the keys are kept for Spread and Delay together.             *)
(***************************************************************************)

CONSTANT Delay      \* how long a run may take to come to a reminder it has found

\* A run that begins at c can find r.
Listable(r, c) ==
    IF r.kind = "zoom" THEN DateOf(c) = r.day
    ELSE \E e \in Nat : DateOf(e) = r.day /\ e \in (c + Lead - Slack)..(c + Lead + Slack)

\* The time between the first and the last run that can find the same reminder.
Spread(kind) == IF kind = "zoom" THEN DayLength ELSE DayLength + 2 * Slack

Lived(kind) == Spread(kind) + Delay <= (IF kind = "zoom" THEN ZoomTTL ELSE SubscriptionTTL)

\* Runs of these kinds come to a reminder within Delay of a time it can be found.
Prompt(B) ==
    \A kind \in B : job[kind] # Idle =>
        \A r \in job[kind].todo : \E c \in Nat : Listable(r, c) /\ clock <= c + Delay

\* The kinds, besides streams, of which something is to be shown.
Brief(B) == B \subseteq {"zoom", "ending"} /\ \A kind \in B : Delay \in Nat /\ Lived(kind)

Lasts(r, B) == r.kind = "stream" \/ r.kind \in B

\* No prompt run comes to r any more.
Over(r) == \A c \in Nat : Listable(r, c) => c + Delay < clock

\* r cannot be taken up any more, or not until a start forgets its key.
Guarded(r) ==
    IF r.kind = "stream"
    THEN clock + r.window > r.start \/ (InWindow(r.start, r.window) /\ Taken(r))
    ELSE Over(r) \/ Taken(r)

\* What a run holds on to could be found by now.
NotEarly ==
    \A kind \in Kinds : job[kind] # Idle =>
        \A r \in job[kind].todo : r.kind # "stream" => \E c \in Nat : c <= clock /\ Listable(r, c)

LongKeys(B) ==
    \A r \in Reminder, kv \in {"redis", "memory"} :
        r.kind \in B /\ Key(r) \in DOMAIN keys[kv] =>
            \A c \in Nat : Listable(r, c) => c + Delay < keys[kv][Key(r)]

Owed(r, u) == SentTo(r, u) + (IF InFlight(r, u) THEN 1 ELSE 0)

Budget(B) ==
    \A r \in Reminder, u \in Users :
        Lasts(r, B) => Owed(r, u) <= forgets + (IF Guarded(r) THEN 1 ELSE 0)

NoRepeats(B) == NotEarly /\ LongKeys(B) /\ Budget(B)

LEMMA SameDay ==
    ASSUME NEW a \in Nat, NEW b \in Nat, DateOf(a) = DateOf(b)
    PROVE  b < a + DayLength
<1>1. DayLength \in Nat \ {0} /\ a \div DayLength = b \div DayLength
  BY RemindersAssumption DEF DateOf
<1> QED
  BY <1>1, Z3

LEMMA SpreadBounds ==
    ASSUME NEW r \in Reminder, r.kind # "stream", NEW b \in Nat, NEW c \in Nat,
           Listable(r, b), Listable(r, c)
    PROVE  c < b + Spread(r.kind)
<1>0. /\ DayLength \in Nat /\ Lead \in Nat /\ Slack \in Nat
      /\ r.kind \in Kinds
  BY RemindersAssumption, ReminderShape
<1>1. CASE r.kind = "zoom"
  BY <1>1, SameDay DEF Listable, Spread
<1>2. CASE r.kind = "ending"
  <2>1. PICK d \in Nat : DateOf(d) = r.day /\ d \in (b + Lead - Slack)..(b + Lead + Slack)
    BY <1>2 DEF Listable
  <2>2. PICK e \in Nat : DateOf(e) = r.day /\ e \in (c + Lead - Slack)..(c + Lead + Slack)
    BY <1>2 DEF Listable
  <2>3. e < d + DayLength
    BY <2>1, <2>2, SameDay
  <2>4. c + Lead - Slack <= e /\ d <= b + Lead + Slack
    BY <1>0, <2>1, <2>2
  <2>5. c < b + DayLength + 2 * Slack
    BY <1>0, <2>3, <2>4
  <2> QED
    BY <1>0, <1>2, <2>5 DEF Spread
<1> QED
  BY <1>0, <1>1, <1>2 DEF Kinds

LEMMA OwedIsNat ==
    ASSUME Shapes, NEW r \in Reminder, NEW u \in Users
    PROVE  SentTo(r, u) \in Nat /\ Owed(r, u) \in Nat /\ SentTo(r, u) <= Owed(r, u)
BY DEF Shapes, CountsOK, SentTo, Owed

LEMMA AgendaListable ==
    ASSUME Shapes, NEW kind \in Kinds, NEW r \in Agenda(kind), r.kind # "stream"
    PROVE  Listable(r, clock)
<1>0. r.kind = kind
  BY AgendaKind DEF Shapes
<1>1. CASE kind = "zoom"
  BY <1>0, <1>1 DEF Agenda, Listable
<1>2. CASE kind = "ending"
  <2>1. PICK u \in EndingUsers : r = [kind |-> "ending", user |-> u, day |-> DateOf(expires[u])]
    BY <1>2 DEF Agenda
  <2>2. expires[u] \in Nat /\ expires[u] \in (clock + Lead - Slack)..(clock + Lead + Slack)
    BY <2>1 DEF EndingUsers, Shapes, WorldOK
  <2> QED
    BY <2>1, <2>2 DEF Listable
<1> QED
  BY <1>0, <1>1, <1>2 DEF Kinds

\* A run's list only shrinks once it is made.
LEMMA ListsShrink ==
    ASSUME Shapes, Shapes', [Next]_vars, NEW kind \in Kinds, job'[kind] # Idle,
           NEW r \in job'[kind].todo
    PROVE  \/ job[kind] # Idle /\ r \in job[kind].todo
           \/ r \in Agenda(kind) /\ clock' = clock
<1>1. CASE OutsideStep \/ Crash \/ \E found \in Stores : Start(found)
  BY <1>1, OutsideLeaves DEF Crash, Start, Shapes, JobsOK
<1>2. ASSUME NEW other \in Kinds, JobStep(other)
      PROVE  \/ job[kind] # Idle /\ r \in job[kind].todo
             \/ r \in Agenda(kind) /\ clock' = clock
  <2>0. /\ \A todo, listed : Listing(todo, listed).todo = todo
        /\ \A todo, listed, q, to : Sends(todo, listed, q, to).todo = todo
    BY DEF Listing, Sends
  <2>1. PICK j : Turns(other, j) /\
            (\/ j = Idle
             \/ j.todo \subseteq job[other].todo /\ job[other] # Idle
             \/ j.todo = Agenda(other) /\ clock' = clock)
    <3>1. CASE TakeUp(other)
      <4>1. job[other] # Idle
        BY <3>1, TakeUpForms, JobShape DEF Shapes, Idle
      <4>2. PICK q : Skips(other, q) \/ Takes(other, q) \/ Misses(other, q)
        BY <3>1, TakeUpForms DEF Shapes
      <4>3. CASE Skips(other, q)
        BY <2>0, <4>1, <4>3 DEF Skips
      <4>4. CASE Takes(other, q)
        BY <2>0, <4>1, <4>4 DEF Takes
      <4>5. CASE Misses(other, q)
        BY <2>0, <4>1, <4>5 DEF Misses
      <4> QED
        BY <4>2, <4>3, <4>4, <4>5
    <3>2. CASE Begin(other)
      BY <2>0, <3>2, JobStepForms DEF Shapes
    <3>3. CASE SendMessage(other)
      <4>1. job[other] # Idle
        BY <3>3, JobStepForms, JobShape DEF Shapes, Idle
      <4>2. \E listed, q, to : Turns(other, Sends(job[other].todo, listed, q, to))
        BY <3>3, JobStepForms DEF Shapes
      <4> QED
        BY <2>0, <4>1, <4>2
    <3>4. CASE NextReminder(other)
      <4>1. job[other] # Idle
        BY <3>4, JobStepForms, JobShape DEF Shapes, Idle
      <4> QED
        BY <2>0, <3>4, <4>1, JobStepForms DEF Shapes
    <3>5. CASE End(other)
      BY <3>5, JobStepForms DEF Shapes
    <3> QED
      BY <1>2, <3>1, <3>2, <3>3, <3>4, <3>5 DEF JobStep
  <2>2. CASE kind = other
    <3>1. job'[kind] = j
      BY <2>1, <2>2 DEF Turns, Shapes, JobsOK
    <3> QED
      BY <2>1, <2>2, <3>1
  <2>3. CASE kind # other
    <3>1. job'[kind] = job[kind]
      BY <2>1, <2>3 DEF Turns, Shapes, JobsOK
    <3> QED
      BY <3>1
  <2> QED
    BY <2>2, <2>3
<1> QED
  BY <1>1, <1>2, NextForms

LEMMA NotEarlyStays ==
    ASSUME Shapes, Shapes', NotEarly, [Next]_vars
    PROVE  NotEarly'
<1>1. clock \in Nat /\ clock' \in Nat /\ clock <= clock'
  BY NextForms, OutsideLeaves, TakeUpForms, JobStepForms DEF Shapes, WorldOK, JobStep, Crash, Start
<1> SUFFICES ASSUME NEW kind \in Kinds, job'[kind] # Idle, NEW r \in job'[kind].todo,
                    r.kind # "stream"
             PROVE  \E c \in Nat : c <= clock' /\ Listable(r, c)
  BY DEF NotEarly, Listable
<1>2. CASE job[kind] # Idle /\ r \in job[kind].todo
  <2>1. PICK c \in Nat : c <= clock /\ Listable(r, c)
    BY <1>2 DEF NotEarly
  <2> QED
    BY <1>1, <2>1
<1>3. CASE r \in Agenda(kind) /\ clock' = clock
  BY <1>1, <1>3, AgendaListable
<1> QED
  BY <1>2, <1>3, ListsShrink

\* A step that takes a key takes that of a reminder on a list.
LEMMA KeyTaken ==
    ASSUME Shapes, NEW kind \in Kinds, NEW r \in Reminder, r.kind = kind, r \in job[kind].todo,
           TakeUp(kind), NotEarly, NEW B, Brief(B), r.kind \in B, NEW c \in Nat, Listable(r, c)
    PROVE  c + Delay < clock + TTL(r)
<1>1. job[kind] # Idle /\ r.kind # "stream"
  BY TakeUpForms, JobShape DEF Shapes, Idle, Brief
<1>2. PICK b \in Nat : b <= clock /\ Listable(r, b)
  BY <1>1 DEF NotEarly
<1>3. c < b + Spread(r.kind)
  BY <1>1, <1>2, SpreadBounds
<1>4. Spread(r.kind) + Delay <= TTL(r)
  BY <1>1 DEF Brief, Lived, TTL
<1>5. Delay \in Nat
  BY <1>1 DEF Brief
<1>6. Spread(r.kind) \in Nat /\ TTL(r) \in Nat /\ clock \in Nat
  BY RemindersAssumption, TTLPositive DEF Spread, Shapes, WorldOK
<1> QED
  BY <1>2, <1>3, <1>4, <1>5, <1>6

LEMMA LongKeysStay ==
    ASSUME Shapes, NotEarly, NEW B, Brief(B), LongKeys(B), [Next]_vars
    PROVE  LongKeys(B)'
<1> SUFFICES ASSUME NEW q \in Reminder, NEW kv \in {"redis", "memory"},
                    q.kind \in B, Key(q) \in DOMAIN keys'[kv],
                    NEW c \in Nat, Listable(q, c)
             PROVE  c + Delay < keys'[kv][Key(q)]
  <2>1. \A q \in Reminder : Key(q)' = Key(q)
    BY DEF Key
  <2> QED
    BY <2>1 DEF LongKeys, Listable
<1>1. ASSUME Key(q) \in DOMAIN keys[kv], keys'[kv][Key(q)] = keys[kv][Key(q)]
      PROVE  c + Delay < keys'[kv][Key(q)]
  BY <1>1 DEF LongKeys
<1>2. CASE UNCHANGED keys
  BY <1>1, <1>2
<1>3. ASSUME NEW kind \in Kinds, NEW r \in job[kind].todo, r \in Reminder, r.kind = kind,
             TakeUp(kind), TakesKey(r)
      PROVE  c + Delay < keys'[kv][Key(q)]
  <2>1. CASE kv = store /\ Key(q) = Key(r)
    <3>1. q = r /\ keys'[kv][Key(q)] = clock + TTL(r)
      BY <1>3, <2>1, KeyNames, KeysAfter DEF Shapes, Brief
    <3> QED
      BY <1>3, <3>1, KeyTaken
  <2>2. CASE ~(kv = store /\ Key(q) = Key(r))
    <3>1. DOMAIN keys'[kv] = IF kv = store THEN DOMAIN keys[kv] \union {Key(r)} ELSE DOMAIN keys[kv]
      BY <1>3, KeysAfter DEF Shapes, KeysOK
    <3>2. Key(q) \in DOMAIN keys[kv]
      BY <2>2, <3>1
    <3>3. keys'[kv][Key(q)] = keys[kv][Key(q)]
      <4>1. kv \in DOMAIN keys
        BY DEF Shapes, KeysOK
      <4>2. CASE kv # store
        <5>1. keys'[kv] = keys[kv]
          BY <1>3, <4>1, <4>2, KeysAfter DEF Shapes
        <5> QED
          BY <5>1
      <4>3. CASE Key(q) # Key(r)
        BY <1>3, <3>2, <4>1, <4>3, KeysAfter DEF Shapes
      <4> QED
        BY <2>2, <4>2, <4>3
    <3> QED
      BY <1>1, <3>2, <3>3
  <2> QED
    BY <2>1, <2>2
<1>4. ASSUME NEW kind \in Kinds, JobStep(kind) PROVE c + Delay < keys'[kv][Key(q)]
  <2>1. CASE TakeUp(kind)
    BY <1>2, <1>3, <2>1, TakeUpForms DEF Shapes, Skips, Takes, Misses
  <2> QED
    BY <1>2, <1>4, <2>1, JobStepForms DEF JobStep, Shapes
<1>5. ASSUME NEW found \in Stores, Start(found) PROVE c + Delay < keys'[kv][Key(q)]
  <2>1. Key(q) \in DOMAIN keys[kv] /\ keys'[kv][Key(q)] = keys[kv][Key(q)]
    BY <1>5 DEF Start, Shapes, KeysOK
  <2> QED
    BY <1>1, <2>1
<1> QED
  BY <1>2, <1>4, <1>5, OutsideLeaves, NextForms DEF Crash, Shapes

\* Where the keys stay as they are or one is taken, what was guarded stays so.
LEMMA GuardStays ==
    ASSUME Shapes, NEW B, Brief(B), LongKeys(B), NEW r \in Reminder, Lasts(r, B), Guarded(r),
           UNCHANGED store,
           \/ UNCHANGED keys /\ (clock' = clock \/ (clock' = clock + 1 /\ clock < MaxTime))
           \/ clock' = clock /\ \E q \in Reminder : StillDue(q) /\ TakesKey(q)
    PROVE  Guarded(r)'
<1>1. clock \in Nat /\ clock <= MaxTime /\ MaxTime \in Nat /\ store \in {"redis", "memory"}
  BY PlatformAssumption, RemindersAssumption DEF Shapes, WorldOK, KeysOK
<1>2. Key(r)' = Key(r)
  BY DEF Key
<1>3. CASE r.kind # "stream" /\ UNCHANGED keys
  <2>0. clock' \in Nat /\ clock <= clock'
    BY <1>1
  <2>3. Delay \in Nat
    BY <1>3 DEF Brief, Lasts
  <2>1. CASE Over(r)
    <3>1. Over(r)'
      BY <1>1, <2>0, <2>1, <2>3 DEF Over, Listable
    <3> QED
      BY <1>3, <3>1 DEF Guarded
  <2>2. CASE Taken(r)
    <3>1. keys[store][Key(r)] \in Nat /\ Key(r) \in DOMAIN keys[store] /\ r.kind \in B
      BY <1>1, <1>3, <2>2 DEF Taken, Lasts, Shapes, KeysOK
    <3>2. CASE clock' < keys[store][Key(r)]
      BY <1>2, <1>3, <3>1, <3>2 DEF Taken, Guarded
    <3>3. CASE ~(clock' < keys[store][Key(r)])
      <4>1. \A c \in Nat : Listable(r, c) => c + Delay < keys[store][Key(r)]
        BY <1>1, <3>1 DEF LongKeys
      <4>2. \A c \in Nat : Listable(r, c) => c + Delay < clock'
        BY <2>0, <2>3, <3>1, <3>3, <4>1
      <4>3. Over(r)'
        BY <4>2 DEF Over, Listable
      <4> QED
        BY <1>3, <4>3 DEF Guarded
    <3> QED
      BY <3>2, <3>3
  <2> QED
    BY <1>3, <2>1, <2>2 DEF Guarded
<1>4. CASE r.kind = "stream" /\ UNCHANGED keys
  <2>1. r.window \in Nat /\ r.start \in Nat
    BY <1>4, ReminderShape
  <2>2. CASE clock + r.window > r.start
    BY <1>1, <1>4, <2>1, <2>2 DEF Guarded
  <2>3. CASE clock + r.window = r.start /\ Taken(r) /\ clock' = clock
    BY <1>2, <1>4, <2>3 DEF Guarded, Taken, InWindow
  <2>4. CASE clock + r.window = r.start /\ clock' = clock + 1
    BY <1>1, <1>4, <2>1, <2>4 DEF Guarded
  <2> QED
    BY <1>4, <2>2, <2>3, <2>4 DEF Guarded, InWindow
<1>5. ASSUME NEW q \in Reminder, StillDue(q), TakesKey(q), clock' = clock PROVE Guarded(r)'
  <2>1. ASSUME Taken(r) PROVE Taken(r)'
    <3>1. Key(r) \in DOMAIN keys'[store] /\ store' = store
      BY <1>5, <2>1, KeysAfter DEF Taken, Shapes
    <3>2. CASE Key(r) = Key(q)
      BY <1>1, <1>2, <1>5, <3>1, <3>2, KeysAfter, TTLPositive DEF Taken, Shapes
    <3>3. CASE Key(r) # Key(q)
      <4>1. keys'[store][Key(r)] = keys[store][Key(r)]
        BY <1>5, <2>1, <3>3, KeysAfter DEF Taken, Shapes
      <4> QED
        BY <1>2, <1>5, <2>1, <3>1, <4>1 DEF Taken
    <3> QED
      BY <3>2, <3>3
  <2>2. Over(r) => Over(r)'
    BY <1>5 DEF Over, Listable
  <2> QED
    BY <1>5, <2>1, <2>2 DEF Guarded, InWindow
<1> QED
  BY <1>3, <1>4, <1>5

\* A step that owes nobody more and leaves the guards keeps the budget.
LEMMA BudgetStays ==
    ASSUME Shapes, Shapes', NEW B, Budget(B), forgets' = forgets,
           \A r \in Reminder, u \in Users : Owed(r, u)' <= Owed(r, u),
           \A r \in Reminder : Lasts(r, B) /\ Guarded(r) => Guarded(r)'
    PROVE  Budget(B)'
<1> SUFFICES ASSUME NEW r \in Reminder, NEW u \in Users, Lasts(r, B)
             PROVE  Owed(r, u)' <= forgets' + (IF Guarded(r)' THEN 1 ELSE 0)
  <2>1. \A r \in Reminder : Lasts(r, B)' <=> Lasts(r, B)
    BY DEF Lasts
  <2> QED
    BY <2>1 DEF Budget
<1>1. Owed(r, u) <= forgets + (IF Guarded(r) THEN 1 ELSE 0)
  BY DEF Budget
<1>2. Owed(r, u) \in Nat /\ forgets \in Nat
  BY OwedIsNat DEF Shapes, CountsOK
<1>3. SentTo(r, u)' \in Nat
  BY DEF SentTo, Shapes, CountsOK
<1>4. Owed(r, u)' \in Nat
  BY <1>3 DEF Owed
<1> QED
  BY <1>1, <1>2, <1>4

\* To take up a reminder is to find it unguarded.
LEMMA TakeBudget ==
    ASSUME Shapes, Shapes', NEW B, Brief(B), Prompt(B), LongKeys(B), Budget(B),
           NEW kind \in Kinds, NEW r \in Reminder, r \in job[kind].todo, job[kind] # Idle,
           r.kind = kind, Takes(kind, r), UNCHANGED <<clock, store, sent, forgets>>
    PROVE  Budget(B)'
<1> SUFFICES ASSUME NEW q \in Reminder, NEW u \in Users, Lasts(q, B)
             PROVE  Owed(q, u)' <= forgets' + (IF Guarded(q)' THEN 1 ELSE 0)
  <2>1. \A q \in Reminder : Lasts(q, B)' <=> Lasts(q, B)
    BY DEF Lasts
  <2> QED
    BY <2>1 DEF Budget
<1>1. /\ StillDue(r) /\ ~Taken(r) /\ TakesKey(r)
      /\ Turns(kind, Sends(job[kind].todo \ {r}, ListedNext(kind, r), r, Readers(r)))
  BY DEF Takes
<1>2. clock \in Nat /\ forgets \in Nat /\ SentTo(q, u) \in Nat /\ SentTo(q, u)' = SentTo(q, u)
  BY OwedIsNat DEF Shapes, WorldOK, CountsOK, SentTo
<1>3. Owed(q, u) <= forgets + (IF Guarded(q) THEN 1 ELSE 0)
  BY DEF Budget
<1>4. PICK j : j = Sends(job[kind].todo \ {r}, ListedNext(kind, r), r, Readers(r))
  OBVIOUS
<1>5. job'[kind] = j /\ j.reminder = r
  BY <1>1, <1>4 DEF Turns, Sends, Shapes, JobsOK
<1>6. CASE q = r
  <2>1. ~Guarded(r)
    <3>1. CASE r.kind = "stream"
      BY <1>1, <1>2, <3>1, ReminderShape DEF Guarded, StillDue, InWindow
    <3>2. CASE r.kind # "stream"
      <4>1. PICK c \in Nat : Listable(r, c) /\ clock <= c + Delay
        BY <1>6, <3>2 DEF Prompt, Lasts
      <4>2. Delay \in Nat
        BY <1>6, <3>2 DEF Brief, Lasts
      <4>3. ~Over(r)
        BY <1>2, <4>1, <4>2 DEF Over
      <4> QED
        BY <1>1, <3>2, <4>3 DEF Guarded
    <3> QED
      BY <3>1, <3>2
  <2>2. SentTo(q, u) <= forgets
    BY <1>2, <1>3, <1>6, <2>1 DEF Owed
  <2>3. Taken(r)'
    <3>1. Key(r)' = Key(r)
      BY DEF Key
    <3> QED
      BY <1>1, <1>2, <3>1, KeysAfter, TTLPositive DEF Taken, Shapes
  <2>4. Guarded(r)'
    BY <1>1, <2>3 DEF Guarded, StillDue, InWindow
  <2> QED
    BY <1>2, <1>6, <2>2, <2>4 DEF Owed
<1>7. CASE q # r
  <2>1. InFlight(q, u)' => InFlight(q, u)
    <3>1. CASE q.kind = kind
      BY <1>5, <1>7, <3>1 DEF InFlight
    <3>2. CASE q.kind # kind
      <4>1. job'[q.kind] = job[q.kind]
        BY <1>1, <3>2, ReminderShape DEF Turns, Shapes, JobsOK
      <4> QED
        BY <4>1 DEF InFlight
    <3> QED
      BY <3>1, <3>2
  <2>2. Guarded(q) => Guarded(q)'
    BY <1>1, GuardStays
  <2>3. Owed(q, u)' <= Owed(q, u)
    BY <1>2, <2>1 DEF Owed
  <2> QED
    BY <1>2, <1>3, <2>2, <2>1 DEF Owed
<1> QED
  BY <1>6, <1>7

LEMMA JobBudget ==
    ASSUME Shapes, Shapes', NEW B, Brief(B), Prompt(B), LongKeys(B), Budget(B),
           NEW kind \in Kinds, JobStep(kind)
    PROVE  Budget(B)'
<1>1. UNCHANGED <<clock, store, forgets>>
  BY TakeUpForms, JobStepForms DEF JobStep, Shapes
<1>2. CASE TakeUp(kind)
  <2>1. PICK r \in job[kind].todo :
            /\ r \in Reminder /\ r.kind = kind
            /\ Skips(kind, r) \/ Takes(kind, r) \/ Misses(kind, r)
    BY <1>2, TakeUpForms DEF Shapes
  <2>2. UNCHANGED sent
    BY <1>2, TakeUpForms DEF Shapes
  <2>3. CASE Takes(kind, r)
    <3>1. job[kind] # Idle
      BY <1>2, TakeUpForms, JobShape DEF Shapes, Idle
    <3> QED
      BY <1>1, <2>1, <2>2, <2>3, <3>1, TakeBudget
  <2>4. CASE Skips(kind, r) \/ Misses(kind, r)
    <3>1. PICK j : Turns(kind, j) /\ j.stage = "listing"
      BY <2>4 DEF Skips, Misses, Listing
    <3>2. \A q \in Reminder, u \in Users : InFlight(q, u)' => InFlight(q, u)
      <4> SUFFICES ASSUME NEW q \in Reminder, NEW u \in Users, InFlight(q, u)' PROVE InFlight(q, u)
        OBVIOUS
      <4>1. q.kind # kind
        BY <3>1 DEF InFlight, Turns, Shapes, JobsOK
      <4>2. job'[q.kind] = job[q.kind]
        BY <3>1, <4>1, ReminderShape DEF Turns, Shapes, JobsOK
      <4> QED
        BY <4>2 DEF InFlight
    <3>3. \A q \in Reminder, u \in Users : SentTo(q, u)' = SentTo(q, u) /\ SentTo(q, u) \in Nat
      BY <2>2, OwedIsNat DEF SentTo
    <3>4. \A q \in Reminder, u \in Users : Owed(q, u)' <= Owed(q, u)
      BY <3>2, <3>3 DEF Owed
    <3>5. \A q \in Reminder : Lasts(q, B) /\ Guarded(q) => Guarded(q)'
      BY <1>1, <2>1, <2>4, GuardStays DEF Skips, Misses
    <3> QED
      BY <1>1, <3>4, <3>5, BudgetStays
  <2> QED
    BY <2>1, <2>3, <2>4
<1>3. CASE Begin(kind) \/ NextReminder(kind) \/ End(kind)
  <2>1. UNCHANGED <<keys, sent>>
    BY <1>3, JobStepForms DEF Shapes
  <2>2. PICK j : Turns(kind, j) /\ j.stage # "sending"
    <3>1. \/ \E todo, listed : Turns(kind, Listing(todo, listed))
          \/ Turns(kind, Idle)
      BY <1>3, JobStepForms DEF Shapes
    <3>2. Idle.stage # "sending" /\ \A todo, listed : Listing(todo, listed).stage # "sending"
      BY DEF Idle, Listing
    <3> QED
      BY <3>1, <3>2
  <2>3. \A q \in Reminder, u \in Users : InFlight(q, u)' => InFlight(q, u)
    <3> SUFFICES ASSUME NEW q \in Reminder, NEW u \in Users, InFlight(q, u)' PROVE InFlight(q, u)
      OBVIOUS
    <3>1. q.kind # kind
      BY <2>2 DEF InFlight, Turns, Shapes, JobsOK
    <3>2. job'[q.kind] = job[q.kind]
      BY <2>2, <3>1, ReminderShape DEF Turns, Shapes, JobsOK
    <3> QED
      BY <3>2 DEF InFlight
  <2>4. \A q \in Reminder, u \in Users : SentTo(q, u)' = SentTo(q, u) /\ SentTo(q, u) \in Nat
    BY <2>1, OwedIsNat DEF SentTo
  <2>5. \A q \in Reminder, u \in Users : Owed(q, u)' <= Owed(q, u)
    BY <2>3, <2>4 DEF Owed
  <2>6. \A q \in Reminder : Lasts(q, B) /\ Guarded(q) => Guarded(q)'
    BY <1>1, <2>1, GuardStays
  <2> QED
    BY <1>1, <2>5, <2>6, BudgetStays
<1>4. CASE SendMessage(kind)
  <2>1. job[kind].stage = "sending" /\ UNCHANGED keys
    BY <1>4, JobStepForms DEF Shapes
  <2>2. PICK v \in job[kind].to :
            /\ sent' = [x \in DOMAIN sent \union {<<job[kind].reminder, v>>} |->
                            IF x = <<job[kind].reminder, v>>
                            THEN SentTo(job[kind].reminder, v) + 1 ELSE sent[x]]
            /\ Turns(kind, Sends(job[kind].todo, job[kind].listed, job[kind].reminder, job[kind].to \ {v}))
    BY <1>4, JobStepForms DEF Shapes
  <2>3. PICK r : r = job[kind].reminder
    OBVIOUS
  <2>4. r \in Reminder /\ r.kind = kind /\ v \in Users
    BY <2>1, <2>3, JobShape DEF Shapes, JobsOK, Minds
  <2>5. PICK j : j = Sends(job[kind].todo, job[kind].listed, r, job[kind].to \ {v})
    OBVIOUS
  <2>6. job'[kind] = j /\ j.stage = "sending" /\ j.reminder = r /\ j.to = job[kind].to \ {v}
    BY <2>2, <2>3, <2>5 DEF Turns, Sends, Shapes, JobsOK
  <2>7. ASSUME NEW q \in Reminder, NEW u \in Users PROVE Owed(q, u)' <= Owed(q, u)
    <3>1. SentTo(q, u) \in Nat
      BY OwedIsNat
    <3>2. CASE q = r /\ u = v
      <4>1. InFlight(q, u) /\ ~InFlight(q, u)'
        BY <2>1, <2>3, <2>4, <2>6, <3>2 DEF InFlight
      <4>2. SentTo(q, u)' = SentTo(q, u) + 1
        BY <2>2, <2>3, <3>2 DEF SentTo
      <4> QED
        BY <3>1, <4>1, <4>2 DEF Owed
    <3>3. CASE q # r \/ u # v
      <4>1. InFlight(q, u)' => InFlight(q, u)
        <5>1. CASE q.kind = kind
          BY <2>1, <2>3, <2>6, <5>1 DEF InFlight
        <5>2. CASE q.kind # kind
          <6>1. job'[q.kind] = job[q.kind]
            BY <2>2, <5>2, ReminderShape DEF Turns, Shapes, JobsOK
          <6> QED
            BY <6>1 DEF InFlight
        <5> QED
          BY <5>1, <5>2
      <4>2. SentTo(q, u)' = SentTo(q, u)
        BY <2>2, <2>3, <3>3 DEF SentTo
      <4> QED
        BY <3>1, <4>1, <4>2 DEF Owed
    <3> QED
      BY <3>2, <3>3
  <2>8. \A q \in Reminder : Lasts(q, B) /\ Guarded(q) => Guarded(q)'
    BY <1>1, <2>1, GuardStays
  <2> QED
    BY <1>1, <2>7, <2>8, BudgetStays
<1> QED
  BY <1>2, <1>3, <1>4 DEF JobStep

\* A start that leaves the keys behind may cost one repetition.
LEMMA StartBudget ==
    ASSUME Shapes, Shapes', NEW B, Budget(B), NEW found \in Stores, Start(found)
    PROVE  Budget(B)'
<1>1. \A r \in Reminder, u \in Users : ~InFlight(r, u) /\ ~InFlight(r, u)'
  BY StartShapes, ReminderShape DEF InFlight, Sending, Start
<1>2. \A r \in Reminder, u \in Users : SentTo(r, u)' = SentTo(r, u) /\ SentTo(r, u) \in Nat
  BY OwedIsNat DEF SentTo, Start
<1>3. \A r \in Reminder, u \in Users : Owed(r, u)' = Owed(r, u)
  BY <1>1, <1>2 DEF Owed
<1>4. forgets \in Nat /\ \A r \in Reminder : Lasts(r, B)' <=> Lasts(r, B)
  BY DEF Lasts, Shapes, CountsOK
<1>5. CASE forgets' = forgets + 1
  <2>1. \A r \in Reminder, u \in Users : Lasts(r, B) => Owed(r, u) <= forgets + 1
    BY <1>4, OwedIsNat DEF Budget
  <2>2. \A r \in Reminder, u \in Users : Lasts(r, B) => Owed(r, u)' <= forgets'
    BY <1>3, <1>5, <2>1
  <2>3. \A r \in Reminder, u \in Users : Owed(r, u) \in Nat
    BY OwedIsNat
  <2> QED
    BY <1>3, <1>4, <1>5, <2>2, <2>3 DEF Budget
<1>6. CASE forgets' # forgets + 1
  <2>1. UNCHANGED <<clock, keys, forgets>> /\ store # "memory" /\ found # "memory" /\ store' = found
    BY <1>6 DEF Start
  <2>2. store' = store
    BY <2>1, RemindersAssumption DEF Shapes, KeysOK
  <2>3. \A r \in Reminder : Guarded(r)' <=> Guarded(r)
    BY <2>1, <2>2 DEF Guarded, InWindow, Taken, Key, Over, Listable
  <2> QED
    BY <1>3, <1>4, <2>1, <2>3 DEF Budget
<1> QED
  BY <1>5, <1>6

LEMMA NextBudget ==
    ASSUME Shapes, Shapes', NEW B, Brief(B), Prompt(B), NoRepeats(B), [Next]_vars
    PROVE  NoRepeats(B)'
<1> SUFFICES Budget(B)'
  BY LongKeysStay, NotEarlyStays DEF NoRepeats
<1> USE DEF NoRepeats
<1>1. CASE OutsideStep
  <2>1. /\ UNCHANGED <<store, keys, job, sent, forgets>>
        /\ clock' = clock \/ (clock' = clock + 1 /\ clock < MaxTime)
    BY <1>1, OutsideLeaves DEF Shapes
  <2>2. \A r \in Reminder, u \in Users : Owed(r, u)' = Owed(r, u) /\ Owed(r, u) \in Nat
    BY <2>1, OwedIsNat DEF Owed, SentTo, InFlight
  <2>3. \A r \in Reminder : Lasts(r, B) /\ Guarded(r) => Guarded(r)'
    BY <2>1, GuardStays
  <2> QED
    BY <2>1, <2>2, <2>3, BudgetStays
<1>2. CASE Crash
  <2>1. UNCHANGED <<clock, store, keys, sent, forgets>>
    BY <1>2 DEF Crash
  <2>2. \A r \in Reminder, u \in Users : ~InFlight(r, u)'
    BY <1>2, ReminderShape DEF Crash, InFlight, Idle
  <2>3. \A r \in Reminder, u \in Users : SentTo(r, u)' = SentTo(r, u) /\ SentTo(r, u) \in Nat
    BY <2>1, OwedIsNat DEF SentTo
  <2>4. \A r \in Reminder, u \in Users : Owed(r, u)' <= Owed(r, u)
    BY <2>2, <2>3 DEF Owed
  <2>5. \A r \in Reminder : Lasts(r, B) /\ Guarded(r) => Guarded(r)'
    BY <2>1, GuardStays
  <2> QED
    BY <2>1, <2>4, <2>5, BudgetStays
<1> QED
  BY <1>1, <1>2, JobBudget, StartBudget, NextForms

LEMMA InitBudget ==
    ASSUME Init, NEW B
    PROVE  NoRepeats(B)
<1>1. LongKeys(B) /\ NotEarly
  BY DEF Init, LongKeys, NotEarly
<1>2. \A r \in Reminder, u \in Users : Owed(r, u) = 0
  BY ReminderShape DEF Init, Owed, SentTo, InFlight, Idle
<1>3. Budget(B)
  BY <1>2 DEF Init, Budget
<1> QED
  BY <1>1, <1>3 DEF NoRepeats

LEMMA NextTogether ==
    ASSUME NEW B, Brief(B)
    PROVE  Prompt(B) /\ Shapes /\ NoRepeats(B) /\ [Next]_vars => Shapes' /\ NoRepeats(B)'
BY NextBudget, NextShapes

LEMMA BudgetKept ==
    ASSUME Shapes, NEW B, Budget(B), NEW pair \in DOMAIN sent, Lasts(pair[1], B)
    PROVE  sent[pair] <= 1 + forgets
<1>1. pair[1] \in Reminder /\ pair[2] \in Users /\ pair = <<pair[1], pair[2]>>
  BY DEF Shapes, CountsOK
<1>2. SentTo(pair[1], pair[2]) = sent[pair]
  BY <1>1 DEF SentTo
<1>3. Owed(pair[1], pair[2]) <= forgets + (IF Guarded(pair[1]) THEN 1 ELSE 0)
  BY <1>1 DEF Budget
<1> QED
  BY <1>1, <1>2, <1>3, OwedIsNat DEF Shapes, CountsOK

StreamsToldOnce == \A pair \in DOMAIN sent : pair[1].kind = "stream" => sent[pair] <= 1 + forgets

\* Nobody is reminded twice of one start of a stream in one window, unless a
\* start left the keys behind: however short-lived the key, however slow the
\* job, and however often the stream is moved away and back.
THEOREM StreamRemindersOnce == RemindersSpec => []StreamsToldOnce
<1>1. Brief({}) /\ Prompt({})
  BY DEF Brief, Prompt
<1>2. Init => Shapes /\ NoRepeats({})
  BY InitBudget, InitShapes
<1>3. Shapes /\ NoRepeats({}) /\ [Next]_vars => Shapes' /\ NoRepeats({})'
  BY <1>1, NextTogether
<1>4. Shapes /\ NoRepeats({}) => StreamsToldOnce
  BY BudgetKept DEF NoRepeats, Lasts, StreamsToldOnce
<1> QED
  BY <1>2, <1>3, <1>4, PTL DEF RemindersSpec

\* The jobs keep their shape and repeat no reminder unless a start left keys
\* behind, for as long as the process is used: if no run takes so long over its
\* list that keys run out under it (SetNX in scheduler.go; the keys live 7 days).
THEOREM RemindedOnce ==
    ASSUME Delay \in Nat,
           DayLength + Delay <= ZoomTTL,
           DayLength + 2 * Slack + Delay <= SubscriptionTTL
    PROVE  RemindersSpec /\ []Prompt({"zoom", "ending"}) => []RemindersSafe
<1> DEFINE B == {"zoom", "ending"}
<1>1. Brief(B)
  BY DEF Brief, Lived, Spread
<1>2. Init => Shapes /\ NoRepeats(B)
  BY InitBudget, InitShapes
<1>3. Prompt(B) /\ Shapes /\ NoRepeats(B) /\ [Next]_vars => Shapes' /\ NoRepeats(B)'
  BY <1>1, NextTogether
<1>4. Shapes /\ NoRepeats(B) => RemindersSafe
  <2> SUFFICES ASSUME Shapes, NoRepeats(B) PROVE RemindersSafe
    OBVIOUS
  <2>1. \A r \in Reminder : Lasts(r, B)
    BY DEF Lasts, Reminder
  <2>2. ASSUME NEW pair \in DOMAIN sent PROVE sent[pair] <= 1 + forgets
    BY <2>1, BudgetKept DEF NoRepeats, Shapes, CountsOK
  <2> QED
    BY <2>2, ShapesTyped DEF RemindersSafe, RepeatsOnlyAfterForgetting
<1> QED
  BY <1>2, <1>3, <1>4, PTL DEF RemindersSpec

=============================================================================
