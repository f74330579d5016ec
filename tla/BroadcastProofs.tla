-------------------------- MODULE BroadcastProofs ---------------------------
(***************************************************************************)
(* Proofs about Broadcast: nobody gets a broadcast twice, broadcasting     *)
(* implements Mailing, and what the admin reads of it is true, for any     *)
(* number of processes, users, broadcasts, stops and crashes.              *)
(***************************************************************************)
EXTENDS Broadcast, FiniteSetTheorems, FunctionTheorems, TLAPS

-----------------------------------------------------------------------------
(***************************************************************************)
(* The inductive invariant.  A broadcast under way belongs to one job, and *)
(* that job has not yet asked Telegram to deliver to those it has left.    *)
(***************************************************************************)

Owns(p, b) == job[p] # Idle /\ job[p].broadcast = b

Processing(b) == b \in DOMAIN broadcasts /\ broadcasts[b].status = "processing"

JobsOwn ==
    /\ \A p \in Processes, b \in BroadcastIds : Owns(p, b) => Processing(b)
    /\ \A p, q \in Processes, b \in BroadcastIds : Owns(p, b) /\ Owns(q, b) => p = q

\* Whom a job may still send to.
Pending(j) == IF j.stage = "claimed" THEN Users ELSE j.left

Unsent ==
    /\ \A b \in BroadcastIds, u \in Users :
        b \notin DOMAIN broadcasts \/ Queued(b) => attempts[b][u] = 0
    /\ \A p \in Processes, b \in BroadcastIds :
        Owns(p, b) => \A u \in Pending(job[p]) : attempts[b][u] = 0

Inv == BroadcastTypeOK /\ JobsOwn /\ Unsent /\ AtMostOnce

-----------------------------------------------------------------------------
(***************************************************************************)
(* Jobs.                                                                   *)
(***************************************************************************)

\* What a job's stage tells about its fields.
LEMMA JobShape ==
    ASSUME BroadcastTypeOK, NEW p \in Processes
    PROVE  /\ job[p] # Idle => job[p].broadcast \in BroadcastIds
           /\ job[p].stage = "claimed" =>
                /\ job[p] # Idle /\ job[p].broadcast \in BroadcastIds
           /\ job[p].stage = "sending" =>
                /\ job[p] # Idle /\ job[p].broadcast \in BroadcastIds
                /\ job[p].left \subseteq Users /\ job[p].failed \in BOOLEAN
           /\ job[p].stage = "answered" =>
                /\ job[p] # Idle /\ job[p].broadcast \in BroadcastIds
                /\ job[p].left \subseteq Users /\ job[p].failed \in BOOLEAN
                /\ job[p].user \in Users /\ job[p].sent \in BOOLEAN
           /\ job[p] # Idle => Pending(job[p]) \subseteq Users
<1>1. job[p] \in Job \union {Idle}
  BY DEF BroadcastTypeOK
<1>2. CASE job[p] \in [stage : {"claimed"}, broadcast : BroadcastIds]
  BY <1>2 DEF Idle, Pending
<1>3. CASE job[p] \in [stage : {"sending"}, broadcast : BroadcastIds,
                       left : SUBSET Users, failed : BOOLEAN]
  BY <1>3 DEF Idle, Pending
<1>4. CASE job[p] \in [stage : {"answered"}, broadcast : BroadcastIds,
                       left : SUBSET Users, failed : BOOLEAN, user : Users, sent : BOOLEAN]
  BY <1>4 DEF Idle, Pending
<1>5. CASE job[p] = Idle
  BY <1>5 DEF Idle
<1> QED
  BY <1>1, <1>2, <1>3, <1>4, <1>5 DEF Job

\* The jobs a job's step can lead to.
LEMMA JobForms ==
    ASSUME NEW b \in BroadcastIds, NEW left \in SUBSET Users, NEW failed \in BOOLEAN
    PROVE  /\ [stage |-> "claimed", broadcast |-> b] \in Job
           /\ [stage |-> "sending", broadcast |-> b, left |-> left, failed |-> failed] \in Job
           /\ \A u \in Users, sent \in BOOLEAN :
                [stage |-> "answered", broadcast |-> b, left |-> left, failed |-> failed,
                 user |-> u, sent |-> sent] \in Job
BY DEF Job

\* A change of a broadcast's status keeps the table well-typed.
LEMMA SetStatusType ==
    ASSUME IsTable(broadcasts, BroadcastIds, BroadcastRow), NEW b \in DOMAIN broadcasts,
           NEW status \in {"queued", "processing", "completed", "failed"}, SetStatus(b, status)
    PROVE  /\ IsTable(broadcasts, BroadcastIds, BroadcastRow)'
           /\ DOMAIN broadcasts' = DOMAIN broadcasts
           /\ \A c \in DOMAIN broadcasts :
                broadcasts'[c].status = IF c = b THEN status ELSE broadcasts[c].status
<1>1. broadcasts[b] \in BroadcastRow
  BY DEF IsTable
<1>2. [broadcasts[b] EXCEPT !.status = status] \in BroadcastRow
  BY <1>1 DEF BroadcastRow, Finished
<1> QED
  BY <1>1, <1>2 DEF IsTable, SetStatus, BroadcastRow

-----------------------------------------------------------------------------
(***************************************************************************)
(* Types.                                                                  *)
(***************************************************************************)

LEMMA InitType == Init => BroadcastTypeOK
BY BroadcastAssumption
   DEF Init, BroadcastTypeOK, PlatformInit, PlatformTypeOK, IsTable, EmptyTable

\* Queuing and claiming.
LEMMA QueueType ==
    ASSUME BroadcastTypeOK,
           (\E target \in AskedTargets : CreateBroadcast(target)) \/ (\E p \in Processes : ClaimQueuedBroadcast(p))
    PROVE  BroadcastTypeOK'
<1> USE DEF observed
<1>1. ASSUME NEW target \in AskedTargets, CreateBroadcast(target) PROVE BroadcastTypeOK'
  <2>1. PICK b \in NextId(BroadcastIds, broadcasts) :
            broadcasts' = Insert(broadcasts, b,
                [target |-> normalizeBroadcastTarget(target), status |-> "queued", created |-> clock])
    BY <1>1 DEF CreateBroadcast
  <2>2. [target |-> normalizeBroadcastTarget(target), status |-> "queued", created |-> clock] \in BroadcastRow
    BY DEF BroadcastRow, Targets, normalizeBroadcastTarget, BroadcastTypeOK, PlatformTypeOK
  <2>3. IsTable(broadcasts, BroadcastIds, BroadcastRow)'
    BY <2>1, <2>2 DEF BroadcastTypeOK, IsTable, Insert, NextId
  <2> QED
    BY <1>1, <2>3 DEF CreateBroadcast, BroadcastTypeOK, PlatformTypeOK
<1>2. ASSUME NEW p \in Processes, ClaimQueuedBroadcast(p) PROVE BroadcastTypeOK'
  <2>1. PICK b \in BroadcastIds :
            /\ NextInLine(b) /\ SetStatus(b, "processing")
            /\ job' = [job EXCEPT ![p] = [stage |-> "claimed", broadcast |-> b]]
    BY <1>2 DEF ClaimQueuedBroadcast
  <2>2. b \in DOMAIN broadcasts
    BY <2>1 DEF NextInLine, Queued
  <2>3. IsTable(broadcasts, BroadcastIds, BroadcastRow)'
    BY <2>1, <2>2, SetStatusType DEF BroadcastTypeOK
  <2>4. job' \in [Processes -> Job \union {Idle}]
    BY <2>1, JobForms DEF BroadcastTypeOK
  <2> QED
    BY <1>2, <2>3, <2>4 DEF ClaimQueuedBroadcast, BroadcastTypeOK, PlatformTypeOK
<1> QED
  BY <1>1, <1>2

\* Reading, sending and recording.
LEMMA SendType ==
    ASSUME BroadcastTypeOK, NEW p \in Processes,
           ReadRecipients(p) \/ SendMessage(p) \/ RecordBroadcastMessage(p)
    PROVE  BroadcastTypeOK'
<1> USE DEF tables
<1>1. CASE ReadRecipients(p)
  <2>1. job[p].broadcast \in BroadcastIds
    BY <1>1, JobShape DEF ReadRecipients
  <2>2. PICK active \in SUBSET Users :
            LET b == job[p].broadcast
                to == BroadcastRecipients(broadcasts[b].target, active)
            IN  /\ audience' = [audience EXCEPT ![b] = to]
                /\ job' = [job EXCEPT ![p] = [stage |-> "sending", broadcast |-> b, left |-> to, failed |-> FALSE]]
    BY <1>1 DEF ReadRecipients
  <2>3. BroadcastRecipients(broadcasts[job[p].broadcast].target, active) \in SUBSET Users
    BY DEF BroadcastRecipients
  <2>4. job' \in [Processes -> Job \union {Idle}]
    BY <2>1, <2>2, <2>3, JobForms DEF BroadcastTypeOK
  <2>5. audience' \in [BroadcastIds -> SUBSET Users]
    BY <2>1, <2>2, <2>3 DEF BroadcastTypeOK
  <2> QED
    BY <1>1, <2>4, <2>5 DEF ReadRecipients, BroadcastTypeOK, PlatformTypeOK
<1>2. CASE SendMessage(p)
  <2>1. PICK u \in job[p].left, sent \in {Works(p), FALSE} :
            LET j == job[p]
            IN  /\ attempts' = IF Works(p) THEN [attempts EXCEPT ![j.broadcast][u] = @ + 1] ELSE attempts
                /\ job' = [job EXCEPT ![p] =
                    [stage |-> "answered", broadcast |-> j.broadcast, left |-> j.left \ {u},
                     failed |-> Failed(j, sent), user |-> u, sent |-> sent]]
    BY <1>2 DEF SendMessage
  <2>2. job[p].broadcast \in BroadcastIds /\ job[p].left \subseteq Users /\ job[p].failed \in BOOLEAN
    BY <1>2, JobShape DEF SendMessage
  <2>3. job[p].left \ {u} \in SUBSET Users /\ u \in Users
    BY <2>2
  <2>4. sent \in BOOLEAN /\ Failed(job[p], sent) \in BOOLEAN
    BY <2>2 DEF Failed, Works
  <2>5. job' \in [Processes -> Job \union {Idle}]
    BY <2>1, <2>2, <2>3, <2>4, JobForms DEF BroadcastTypeOK
  <2>6. attempts' \in [BroadcastIds -> [Users -> Nat]]
    <3>1. attempts[job[p].broadcast] \in [Users -> Nat]
      BY <2>2 DEF BroadcastTypeOK
    <3>2. [attempts[job[p].broadcast] EXCEPT ![u] = @ + 1] \in [Users -> Nat]
      BY <2>3, <3>1
    <3> QED
      BY <2>1, <2>2, <3>2 DEF BroadcastTypeOK
  <2> QED
    BY <1>2, <2>5, <2>6 DEF SendMessage, BroadcastTypeOK, PlatformTypeOK
<1>3. CASE RecordBroadcastMessage(p)
  <2>1. /\ job[p].broadcast \in BroadcastIds /\ job[p].left \in SUBSET Users
        /\ job[p].failed \in BOOLEAN /\ job[p].user \in Users /\ job[p].sent \in BOOLEAN
    BY <1>3, JobShape DEF RecordBroadcastMessage
  <2>2. RowFor(job[p]) \subseteq MessageRow
    BY <2>1 DEF RowFor, MessageRow
  <2>3. job' \in [Processes -> Job \union {Idle}]
    BY <1>3, <2>1, JobForms DEF RecordBroadcastMessage, BroadcastTypeOK
  <2>4. messages' \subseteq MessageRow /\ cutShort' \subseteq BroadcastIds
    BY <1>3, <2>1, <2>2 DEF RecordBroadcastMessage, BroadcastTypeOK
  <2> QED
    BY <1>3, <2>3, <2>4 DEF RecordBroadcastMessage, BroadcastTypeOK, PlatformTypeOK
<1> QED
  BY <1>1, <1>2, <1>3

\* A job ends by finishing its broadcast or leaving it as it is.
Ends(p) ==
    /\ job[p] # Idle /\ job' = [job EXCEPT ![p] = Idle]
    /\ \/ UNCHANGED broadcasts
       \/ \E status \in Finished : SetStatus(job[p].broadcast, status)
    /\ cutShort' \in {cutShort, cutShort \union {job[p].broadcast}}
    /\ UNCHANGED <<messages, audience, attempts>>

LEMMA EndingsEnd ==
    ASSUME BroadcastTypeOK, NEW p \in Processes
    PROVE  /\ RecipientsUnread(p) \/ FinishBroadcast(p) \/ GiveUp(p) =>
                Ends(p) /\ UNCHANGED <<clock, process, exits>>
           /\ Exit(p) /\ job[p] # Idle => Ends(p) /\ UNCHANGED broadcasts
<1>1. Verdict(TRUE) \in Finished
  BY DEF Verdict, Finished
<1>2. ASSUME RecipientsUnread(p) PROVE Ends(p) /\ UNCHANGED <<clock, process, exits>>
  <2>1. \/ UNCHANGED broadcasts
        \/ \E status \in Finished : SetStatus(job[p].broadcast, status)
    BY <1>1, <1>2 DEF RecipientsUnread
  <2> QED
    BY <1>2, <2>1, JobShape DEF RecipientsUnread, Ends
<1>3. ASSUME FinishBroadcast(p) PROVE Ends(p) /\ UNCHANGED <<clock, process, exits>>
  <2>1. Verdict(job[p].failed) \in Finished
    BY DEF Verdict, Finished
  <2>2. \/ UNCHANGED broadcasts
        \/ \E status \in Finished : SetStatus(job[p].broadcast, status)
    BY <1>3, <2>1 DEF FinishBroadcast
  <2> QED
    BY <1>3, <2>2, JobShape DEF FinishBroadcast, Ends
<1>4. ASSUME GiveUp(p) PROVE Ends(p) /\ UNCHANGED <<clock, process, exits>>
  <2>1. \E status \in Finished : SetStatus(job[p].broadcast, status)
    BY <1>1, <1>4 DEF GiveUp
  <2> QED
    BY <1>4, <2>1, JobShape DEF GiveUp, Ends
<1>5. ASSUME Exit(p), job[p] # Idle PROVE Ends(p) /\ UNCHANGED broadcasts
  BY <1>5 DEF Exit, Ends, tables
<1> QED
  BY <1>2, <1>3, <1>4, <1>5

LEMMA EndType ==
    ASSUME BroadcastTypeOK, NEW p \in Processes, Ends(p), Processing(job[p].broadcast)
    PROVE  /\ IsTable(broadcasts, BroadcastIds, BroadcastRow)'
           /\ DOMAIN broadcasts' = DOMAIN broadcasts
           /\ \A c \in DOMAIN broadcasts : c # job[p].broadcast => broadcasts'[c].status = broadcasts[c].status
           /\ \A c \in DOMAIN broadcasts :
                broadcasts'[c].status = broadcasts[c].status \/ broadcasts'[c].status \in Finished
           /\ messages' \subseteq MessageRow
           /\ job' \in [Processes -> Job \union {Idle}]
           /\ audience' \in [BroadcastIds -> SUBSET Users]
           /\ attempts' \in [BroadcastIds -> [Users -> Nat]]
           /\ cutShort' \subseteq BroadcastIds
<1>1. job[p].broadcast \in BroadcastIds
  BY JobShape DEF Ends
<1>2. CASE UNCHANGED broadcasts
  BY <1>1, <1>2 DEF Ends, BroadcastTypeOK, IsTable
<1>3. ASSUME NEW status \in Finished, SetStatus(job[p].broadcast, status)
      PROVE  /\ IsTable(broadcasts, BroadcastIds, BroadcastRow)'
             /\ DOMAIN broadcasts' = DOMAIN broadcasts
             /\ \A c \in DOMAIN broadcasts :
                  broadcasts'[c].status = IF c = job[p].broadcast THEN status ELSE broadcasts[c].status
  BY <1>3, SetStatusType DEF BroadcastTypeOK, Processing, Finished
<1> QED
  BY <1>1, <1>2, <1>3 DEF Ends, BroadcastTypeOK

\* Stops, starts and the clock.
LEMMA ProcessType ==
    ASSUME BroadcastTypeOK,
           TimePasses \/ \E p \in Processes : Stop(p) \/ Start(p)
    PROVE  BroadcastTypeOK'
<1> USE DEF tables, observed
<1>1. ASSUME TimePasses PROVE BroadcastTypeOK'
  <2>1. PlatformTypeOK'
    BY <1>1, PlatformAssumption DEF TimePasses, PassTime, BroadcastTypeOK, PlatformTypeOK
  <2>2. IsTable(broadcasts, BroadcastIds, BroadcastRow)'
    BY <1>1 DEF TimePasses, BroadcastTypeOK, IsTable
  <2> QED
    BY <1>1, <2>1, <2>2 DEF TimePasses, BroadcastTypeOK
<1>2. ASSUME NEW p \in Processes, Stop(p) \/ Start(p) PROVE BroadcastTypeOK'
  <2>1. process' \in [Processes -> {"up", "stopping", "down"}]
    BY <1>2 DEF Stop, Start, BroadcastTypeOK
  <2>2. exits' \in 0..MaxExits
    BY <1>2, BroadcastAssumption DEF Stop, Start, BroadcastTypeOK
  <2>3. IsTable(broadcasts, BroadcastIds, BroadcastRow)'
    BY <1>2 DEF Stop, Start, BroadcastTypeOK, IsTable
  <2> QED
    BY <1>2, <2>1, <2>2, <2>3 DEF Stop, Start, BroadcastTypeOK, PlatformTypeOK
<1> QED
  BY <1>1, <1>2

LEMMA EndingType ==
    ASSUME BroadcastTypeOK, JobsOwn, NEW p \in Processes,
           RecipientsUnread(p) \/ FinishBroadcast(p) \/ GiveUp(p) \/ Exit(p)
    PROVE  BroadcastTypeOK'
<1>1. ASSUME job[p] # Idle PROVE Processing(job[p].broadcast)
  BY <1>1, JobShape DEF JobsOwn, Owns
<1>2. CASE RecipientsUnread(p) \/ FinishBroadcast(p) \/ GiveUp(p)
  <2>1. Ends(p) /\ UNCHANGED <<clock, process, exits>>
    BY <1>2, EndingsEnd
  <2>2. Processing(job[p].broadcast)
    BY <1>1, <2>1 DEF Ends
  <2> QED
    BY <2>1, <2>2, EndType DEF BroadcastTypeOK, PlatformTypeOK
<1>3. CASE Exit(p)
  <2>1. /\ process' \in [Processes -> {"up", "stopping", "down"}]
        /\ exits' \in 0..MaxExits /\ UNCHANGED clock
    BY <1>3, BroadcastAssumption DEF Exit, BroadcastTypeOK
  <2>2. CASE job[p] = Idle
    BY <1>3, <2>1, <2>2 DEF Exit, tables, BroadcastTypeOK, PlatformTypeOK
  <2>3. CASE job[p] # Idle
    <3>1. Ends(p) /\ Processing(job[p].broadcast)
      BY <1>1, <1>3, <2>3, EndingsEnd
    <3> QED
      BY <2>1, <3>1, EndType DEF BroadcastTypeOK, PlatformTypeOK
  <2> QED
    BY <2>2, <2>3
<1> QED
  BY <1>2, <1>3

LEMMA NextType == Inv /\ [Next]_vars => BroadcastTypeOK'
<1> SUFFICES ASSUME Inv, [Next]_vars PROVE BroadcastTypeOK'
  OBVIOUS
<1> USE DEF Inv
<1>1. CASE \E target \in AskedTargets : CreateBroadcast(target)
  BY <1>1, QueueType
<1>2. CASE TimePasses
  BY <1>2, ProcessType
<1>3. ASSUME NEW p \in Processes, JobStep(p) \/ Stop(p) \/ Exit(p) \/ Start(p)
      PROVE  BroadcastTypeOK'
  BY <1>3, QueueType, SendType, EndingType, ProcessType DEF JobStep
<1>4. CASE UNCHANGED vars
  BY <1>4 DEF vars, tables, observed, BroadcastTypeOK, PlatformTypeOK, IsTable
<1> QED
  BY <1>1, <1>2, <1>3, <1>4 DEF Next

-----------------------------------------------------------------------------
(***************************************************************************)
(* Who owns a broadcast, and whom it was sent to.                          *)
(***************************************************************************)

Kept == JobsOwn /\ Unsent /\ AtMostOnce

\* A new broadcast has an id nobody used: it was never sent to anybody.
LEMMA CreateKeeps ==
    ASSUME Inv, NEW target \in AskedTargets, CreateBroadcast(target)
    PROVE  Kept'
<1>1. PICK b \in NextId(BroadcastIds, broadcasts) :
          broadcasts' = Insert(broadcasts, b,
              [target |-> normalizeBroadcastTarget(target), status |-> "queued", created |-> clock])
  BY DEF CreateBroadcast
<1>2. b \in BroadcastIds /\ b \notin DOMAIN broadcasts
  BY DEF NextId
<1>3. UNCHANGED <<job, attempts>>
  BY DEF CreateBroadcast, observed
<1>4. /\ DOMAIN broadcasts' = DOMAIN broadcasts \union {b}
      /\ \A c \in DOMAIN broadcasts : broadcasts'[c] = broadcasts[c]
  BY <1>1, <1>2 DEF Insert
<1>5. JobsOwn'
  BY <1>3, <1>4 DEF Inv, JobsOwn, Owns, Processing
<1>6. Unsent'
  BY <1>2, <1>3, <1>4 DEF Inv, Unsent, Owns, Queued, Pending
<1>7. AtMostOnce'
  BY <1>3 DEF Inv, AtMostOnce
<1> QED
  BY <1>5, <1>6, <1>7 DEF Kept

\* A claimed broadcast was queued: it had no owner and was sent to nobody.
LEMMA ClaimKeeps ==
    ASSUME Inv, NEW p \in Processes, ClaimQueuedBroadcast(p)
    PROVE  Kept'
<1>1. PICK b \in BroadcastIds :
          /\ NextInLine(b) /\ SetStatus(b, "processing")
          /\ job' = [job EXCEPT ![p] = [stage |-> "claimed", broadcast |-> b]]
  BY DEF ClaimQueuedBroadcast
<1>2. Queued(b) /\ b \in DOMAIN broadcasts
  BY <1>1 DEF NextInLine, Queued
<1>3. \A q \in Processes : ~Owns(q, b)
  BY <1>2 DEF Inv, JobsOwn, Processing, Queued
<1>4. attempts' = attempts
  BY DEF ClaimQueuedBroadcast, observed
<1>5. /\ DOMAIN broadcasts' = DOMAIN broadcasts
      /\ \A c \in DOMAIN broadcasts :
            broadcasts'[c].status = IF c = b THEN "processing" ELSE broadcasts[c].status
  BY <1>1, <1>2, SetStatusType DEF Inv, BroadcastTypeOK
<1>6. job' \in [Processes -> Job \union {Idle}]
  BY NextType DEF Inv, Next, JobStep, BroadcastTypeOK
<1>7. /\ job'[p] = [stage |-> "claimed", broadcast |-> b] /\ job'[p] # Idle
      /\ \A q \in Processes \ {p} : job'[q] = job[q]
  BY <1>1 DEF Inv, BroadcastTypeOK, Idle
<1>8. \A q \in Processes, c \in BroadcastIds :
          Owns(q, c)' <=> IF q = p THEN c = b ELSE Owns(q, c)
  BY <1>7 DEF Owns
<1>9. JobsOwn'
  BY <1>2, <1>3, <1>5, <1>8 DEF Inv, JobsOwn, Processing
<1>10. Unsent'
  <2>1. ASSUME NEW c \in BroadcastIds, NEW u \in Users, (c \notin DOMAIN broadcasts \/ Queued(c))'
        PROVE  attempts'[c][u] = 0
    BY <1>2, <1>4, <1>5, <2>1 DEF Inv, Unsent, Queued
  <2>2. ASSUME NEW q \in Processes, NEW c \in BroadcastIds, Owns(q, c)', NEW u \in Pending(job[q])'
        PROVE  attempts'[c][u] = 0
    <3>1. CASE q = p
      <4>1. c = b /\ u \in Users
        BY <1>7, <1>8, <2>2, <3>1 DEF Pending
      <4> QED
        BY <1>2, <1>4, <4>1 DEF Inv, Unsent
    <3>2. CASE q # p
      <4>1. Owns(q, c) /\ u \in Pending(job[q])
        BY <1>7, <1>8, <2>2, <3>2 DEF Pending
      <4> QED
        BY <1>4, <4>1 DEF Inv, Unsent
    <3> QED
      BY <3>1, <3>2
  <2> QED
    BY <2>1, <2>2 DEF Unsent
<1>11. AtMostOnce'
  BY <1>4 DEF Inv, AtMostOnce
<1> QED
  BY <1>9, <1>10, <1>11 DEF Kept

\* A job that goes on keeps its broadcast, and may send to nobody new.
GoesOn(p) ==
    /\ job[p] # Idle /\ job'[p] # Idle
    /\ job'[p].broadcast = job[p].broadcast
    /\ Pending(job[p])' \subseteq Pending(job[p])
    /\ \A q \in Processes \ {p} : job'[q] = job[q]
    /\ UNCHANGED broadcasts

LEMMA WorkGoesOn ==
    ASSUME Inv, NEW p \in Processes, ReadRecipients(p) \/ SendMessage(p) \/ RecordBroadcastMessage(p)
    PROVE  GoesOn(p)
<1> USE DEF Inv, BroadcastTypeOK, tables, Idle, Pending
<1>1. CASE ReadRecipients(p)
  <2>1. \A active \in SUBSET Users :
            BroadcastRecipients(broadcasts[job[p].broadcast].target, active) \subseteq Users
    BY DEF BroadcastRecipients
  <2> QED
    BY <1>1, <2>1 DEF ReadRecipients, GoesOn
<1>2. CASE SendMessage(p)
  BY <1>2 DEF SendMessage, GoesOn
<1>3. CASE RecordBroadcastMessage(p)
  BY <1>3 DEF RecordBroadcastMessage, GoesOn
<1> QED
  BY <1>1, <1>2, <1>3

LEMMA GoingOnOwns ==
    ASSUME Inv, NEW p \in Processes, GoesOn(p)
    PROVE  /\ \A q \in Processes, b \in BroadcastIds : Owns(q, b)' <=> Owns(q, b)
           /\ \A q \in Processes : Pending(job[q])' \subseteq Pending(job[q])
           /\ JobsOwn'
<1>1. \A q \in Processes, b \in BroadcastIds : Owns(q, b)' <=> Owns(q, b)
  BY DEF GoesOn, Owns
<1>2. \A q \in Processes : Pending(job[q])' \subseteq Pending(job[q])
  BY DEF GoesOn, Pending
<1> QED
  BY <1>1, <1>2 DEF GoesOn, Inv, JobsOwn, Processing

LEMMA ReadKeeps ==
    ASSUME Inv, NEW p \in Processes, ReadRecipients(p) \/ RecordBroadcastMessage(p)
    PROVE  Kept'
<1>1. GoesOn(p)
  BY WorkGoesOn
<1>2. attempts' = attempts
  BY DEF ReadRecipients, RecordBroadcastMessage
<1>3. Unsent'
  BY <1>1, <1>2, GoingOnOwns DEF GoesOn, Inv, Unsent, Queued
<1>4. AtMostOnce'
  BY <1>2 DEF Inv, AtMostOnce
<1> QED
  BY <1>1, <1>3, <1>4, GoingOnOwns DEF Kept

\* The one step that asks Telegram to deliver: to somebody the job had left.
LEMMA SendKeeps ==
    ASSUME Inv, NEW p \in Processes, SendMessage(p)
    PROVE  /\ Kept'
           /\ ~UNCHANGED attempts =>
                \E b \in BroadcastIds, u \in Users :
                    /\ Owns(p, b) /\ attempts[b][u] = 0
                    /\ attempts' = [attempts EXCEPT ![b][u] = 1]
<1>1. GoesOn(p)
  BY WorkGoesOn
<1>2. PICK u \in job[p].left :
          /\ attempts' = IF Works(p) THEN [attempts EXCEPT ![job[p].broadcast][u] = @ + 1] ELSE attempts
          /\ job'[p].left = job[p].left \ {u} /\ job'[p].stage = "answered"
  <2>1. PICK u \in job[p].left, sent \in {Works(p), FALSE} :
            /\ attempts' = IF Works(p) THEN [attempts EXCEPT ![job[p].broadcast][u] = @ + 1] ELSE attempts
            /\ job' = [job EXCEPT ![p] =
                [stage |-> "answered", broadcast |-> job[p].broadcast, left |-> job[p].left \ {u},
                 failed |-> Failed(job[p], sent), user |-> u, sent |-> sent]]
    BY DEF SendMessage
  <2>2. job'[p].left = job[p].left \ {u} /\ job'[p].stage = "answered"
    BY <2>1 DEF Inv, BroadcastTypeOK
  <2> QED
    BY <2>1, <2>2
<1> DEFINE b == job[p].broadcast
<1>3. b \in BroadcastIds /\ u \in Users /\ Owns(p, b) /\ u \in Pending(job[p])
  BY JobShape DEF SendMessage, Inv, Owns, Pending
<1>4. attempts[b][u] = 0
  BY <1>3 DEF Inv, Unsent
<1>5. u \notin Pending(job[p])'
  BY <1>2 DEF Pending
<1>6. attempts \in [BroadcastIds -> [Users -> Nat]]
  BY DEF Inv, BroadcastTypeOK
<1>7. attempts' = attempts \/ attempts' = [attempts EXCEPT ![b][u] = 1]
  BY <1>2, <1>3, <1>4, <1>6
<1>8. \A c \in BroadcastIds, v \in Users :
          (c # b \/ v # u => attempts'[c][v] = attempts[c][v]) /\ attempts'[b][u] \in {0, 1}
  BY <1>3, <1>4, <1>6, <1>7
<1>9. \A q \in Processes : Owns(q, b) => q = p
  BY <1>3 DEF Inv, JobsOwn
<1>10. Processing(b)
  BY <1>3 DEF Inv, JobsOwn
<1>11. Unsent'
  <2>1. ASSUME NEW c \in BroadcastIds, NEW v \in Users, (c \notin DOMAIN broadcasts \/ Queued(c))'
        PROVE  attempts'[c][v] = 0
    <3>1. (c \notin DOMAIN broadcasts \/ Queued(c)) /\ c # b
      BY <1>1, <1>10, <2>1 DEF GoesOn, Queued, Processing
    <3> QED
      BY <1>8, <3>1 DEF Inv, Unsent
  <2>2. ASSUME NEW q \in Processes, NEW c \in BroadcastIds, Owns(q, c)', NEW v \in Pending(job[q])'
        PROVE  attempts'[c][v] = 0
    <3>1. Owns(q, c) /\ v \in Pending(job[q])
      BY <1>1, <2>2, GoingOnOwns
    <3>2. v \in Users
      BY <3>1, JobShape DEF Inv, Owns
    <3>3. c # b \/ v # u
      BY <1>5, <1>9, <2>2, <3>1
    <3> QED
      BY <1>8, <3>1, <3>2, <3>3 DEF Inv, Unsent
  <2> QED
    BY <2>1, <2>2 DEF Unsent
<1>12. AtMostOnce'
  BY <1>8, <1>6 DEF Inv, AtMostOnce
<1> QED
  BY <1>1, <1>3, <1>4, <1>7, <1>11, <1>12, GoingOnOwns DEF Kept

\* A job that ends gives up its broadcast and nobody else's.
LEMMA EndKeeps ==
    ASSUME Inv, NEW p \in Processes, Ends(p)
    PROVE  Kept'
<1>1. Processing(job[p].broadcast)
  BY JobShape DEF Ends, Inv, JobsOwn, Owns
<1>2. /\ DOMAIN broadcasts' = DOMAIN broadcasts
      /\ \A c \in DOMAIN broadcasts : c # job[p].broadcast => broadcasts'[c].status = broadcasts[c].status
      /\ \A c \in DOMAIN broadcasts :
            broadcasts'[c].status = broadcasts[c].status \/ broadcasts'[c].status \in Finished
  BY <1>1, EndType DEF Inv
<1>3. attempts' = attempts
  BY DEF Ends
<1>4. job'[p] = Idle /\ \A q \in Processes \ {p} : job'[q] = job[q]
  BY DEF Ends, Inv, BroadcastTypeOK
<1>5. \A q \in Processes, b \in BroadcastIds :
          Owns(q, b)' => q # p /\ Owns(q, b) /\ b # job[p].broadcast
  <2> SUFFICES ASSUME NEW q \in Processes, NEW b \in BroadcastIds, Owns(q, b)'
               PROVE  q # p /\ Owns(q, b) /\ b # job[p].broadcast
    OBVIOUS
  <2>1. q # p /\ Owns(q, b)
    BY <1>4 DEF Owns
  <2> QED
    BY <2>1 DEF Ends, Inv, JobsOwn, Owns
<1>6. JobsOwn'
  BY <1>2, <1>5 DEF Inv, JobsOwn, Processing
<1>7. Unsent'
  <2>1. ASSUME NEW c \in BroadcastIds, NEW u \in Users, (c \notin DOMAIN broadcasts \/ Queued(c))'
        PROVE  attempts'[c][u] = 0
    BY <1>2, <1>3, <2>1 DEF Inv, Unsent, Queued, Finished
  <2>2. ASSUME NEW q \in Processes, NEW c \in BroadcastIds, Owns(q, c)', NEW u \in Pending(job[q])'
        PROVE  attempts'[c][u] = 0
    <3>1. Owns(q, c) /\ u \in Pending(job[q])
      BY <1>4, <1>5, <2>2 DEF Pending
    <3> QED
      BY <1>3, <3>1 DEF Inv, Unsent
  <2> QED
    BY <2>1, <2>2 DEF Unsent
<1>8. AtMostOnce'
  BY <1>3 DEF Inv, AtMostOnce
<1> QED
  BY <1>6, <1>7, <1>8 DEF Kept

LEMMA StillKeeps ==
    ASSUME Inv, UNCHANGED <<broadcasts, job, attempts>>
    PROVE  Kept'
BY DEF Inv, Kept, JobsOwn, Unsent, AtMostOnce, Owns, Processing, Queued, Pending

LEMMA NextKeeps == Inv /\ [Next]_vars => Kept'
<1> SUFFICES ASSUME Inv, [Next]_vars PROVE Kept'
  OBVIOUS
<1>1. CASE \E target \in AskedTargets : CreateBroadcast(target)
  BY <1>1, CreateKeeps
<1>2. CASE TimePasses \/ UNCHANGED vars
  BY <1>2, StillKeeps DEF TimePasses, vars, tables, observed
<1>3. ASSUME NEW p \in Processes, JobStep(p) PROVE Kept'
  <2>1. CASE ClaimQueuedBroadcast(p)
    BY <2>1, ClaimKeeps
  <2>2. CASE ReadRecipients(p) \/ RecordBroadcastMessage(p)
    BY <2>2, ReadKeeps
  <2>3. CASE SendMessage(p)
    BY <2>3, SendKeeps
  <2>4. CASE RecipientsUnread(p) \/ FinishBroadcast(p) \/ GiveUp(p)
    BY <2>4, EndingsEnd, EndKeeps DEF Inv
  <2> QED
    BY <1>3, <2>1, <2>2, <2>3, <2>4 DEF JobStep
<1>4. ASSUME NEW p \in Processes, Stop(p) \/ Start(p) PROVE Kept'
  BY <1>4, StillKeeps DEF Stop, Start, tables, observed
<1>5. ASSUME NEW p \in Processes, Exit(p) PROVE Kept'
  <2>1. CASE job[p] = Idle
    <3>1. UNCHANGED <<broadcasts, job, attempts>>
      BY <1>5, <2>1 DEF Exit, tables, Inv, BroadcastTypeOK
    <3> QED
      BY <3>1, StillKeeps
  <2>2. CASE job[p] # Idle
    BY <1>5, <2>2, EndingsEnd, EndKeeps DEF Inv
  <2> QED
    BY <2>1, <2>2
<1> QED
  BY <1>1, <1>2, <1>3, <1>4, <1>5 DEF Next

LEMMA InitInv == Init => Inv
<1> SUFFICES ASSUME Init PROVE Inv
  OBVIOUS
<1>1. JobsOwn /\ Unsent /\ AtMostOnce
  BY DEF Init, JobsOwn, Unsent, AtMostOnce, Owns, Idle
<1> QED
  BY <1>1, InitType DEF Inv

LEMMA InvAlways == Spec => []Inv
<1>1. Inv /\ [Next]_vars => Inv'
  BY NextType, NextKeeps DEF Inv, Kept
<1> QED
  BY <1>1, InitInv, PTL DEF Spec

\* The tables and jobs keep their shape, and nobody gets a broadcast twice,
\* with any number of processes, stops, crashes and restarts: a broadcast is
\* claimed by the one UPDATE that finds it queued (ClaimQueuedBroadcast).
THEOREM NobodyTwice == Spec => []BroadcastSafe
<1>1. Inv => BroadcastSafe
  BY DEF Inv, BroadcastSafe
<1> QED
  BY <1>1, InvAlways, PTL

-----------------------------------------------------------------------------
(***************************************************************************)
(* Broadcasting implements Mailing.  Each step moves one broadcast, sends  *)
(* to one user, or is no step of Mailing at all.                           *)
(***************************************************************************)

Stages == [b \in BroadcastIds |-> Stage(b)]
Tried == [b \in BroadcastIds |-> {u \in Users : attempts[b][u] > 0}]

\* One broadcast moves and the others stay.
Moves(b, from, to) ==
    /\ Stage(b) = from /\ Stage(b)' = to
    /\ \A c \in BroadcastIds \ {b} : Stage(c)' = Stage(c)
    /\ UNCHANGED attempts

LEMMA MovesAreMailing ==
    ASSUME NEW b \in BroadcastIds,
           Moves(b, "none", "waiting") \/ Moves(b, "waiting", "open") \/ Moves(b, "open", "closed")
    PROVE  M!Next
<1>1. UNCHANGED Tried
  BY DEF Moves, Tried
<1>2. \A from, to : Moves(b, from, to) => Stages[b] = from /\ Stages' = [Stages EXCEPT ![b] = to]
  BY DEF Moves, Stages
<1>3. M!Ask(b) \/ M!Open(b) \/ M!Close(b)
  BY <1>1, <1>2 DEF M!Ask, M!Open, M!Close, M!Move, Stages, Tried
<1> QED
  BY <1>3 DEF M!Next

LEMMA StillMailing ==
    ASSUME UNCHANGED <<broadcasts, attempts>>
    PROVE  UNCHANGED <<Stages, Tried>>
BY DEF Stages, Tried, Stage

LEMMA CreateMoves ==
    ASSUME Inv, NEW target \in AskedTargets, CreateBroadcast(target)
    PROVE  \E b \in BroadcastIds : Moves(b, "none", "waiting")
<1>1. PICK b \in NextId(BroadcastIds, broadcasts) :
          broadcasts' = Insert(broadcasts, b,
              [target |-> normalizeBroadcastTarget(target), status |-> "queued", created |-> clock])
  BY DEF CreateBroadcast
<1>2. b \in BroadcastIds /\ b \notin DOMAIN broadcasts
  BY DEF NextId
<1>3. /\ DOMAIN broadcasts' = DOMAIN broadcasts \union {b} /\ broadcasts'[b].status = "queued"
      /\ \A c \in DOMAIN broadcasts : broadcasts'[c] = broadcasts[c]
  BY <1>1, <1>2 DEF Insert
<1>4. UNCHANGED attempts
  BY DEF CreateBroadcast, observed
<1> QED
  BY <1>2, <1>3, <1>4 DEF Moves, Stage

LEMMA ClaimMoves ==
    ASSUME Inv, NEW p \in Processes, ClaimQueuedBroadcast(p)
    PROVE  \E b \in BroadcastIds : Moves(b, "waiting", "open")
<1>1. PICK b \in BroadcastIds : NextInLine(b) /\ SetStatus(b, "processing")
  BY DEF ClaimQueuedBroadcast
<1>2. b \in DOMAIN broadcasts /\ broadcasts[b].status = "queued"
  BY <1>1 DEF NextInLine, Queued
<1>3. /\ DOMAIN broadcasts' = DOMAIN broadcasts
      /\ \A c \in DOMAIN broadcasts :
            broadcasts'[c].status = IF c = b THEN "processing" ELSE broadcasts[c].status
  BY <1>1, <1>2, SetStatusType DEF Inv, BroadcastTypeOK
<1>4. UNCHANGED attempts
  BY DEF ClaimQueuedBroadcast, observed
<1> QED
  BY <1>2, <1>3, <1>4 DEF Moves, Stage

LEMMA EndMoves ==
    ASSUME Inv, NEW p \in Processes, Ends(p)
    PROVE  \/ UNCHANGED <<Stages, Tried>>
           \/ \E b \in BroadcastIds : Moves(b, "open", "closed")
<1>1. CASE UNCHANGED broadcasts
  BY <1>1, StillMailing DEF Ends
<1>2. ASSUME NEW status \in Finished, SetStatus(job[p].broadcast, status)
      PROVE  \E b \in BroadcastIds : Moves(b, "open", "closed")
  <2>1. PICK b \in BroadcastIds : /\ b = job[p].broadcast
                                 /\ b \in DOMAIN broadcasts /\ broadcasts[b].status = "processing"
    BY JobShape DEF Ends, Inv, JobsOwn, Owns, Processing
  <2>2. /\ DOMAIN broadcasts' = DOMAIN broadcasts
        /\ \A c \in DOMAIN broadcasts :
              broadcasts'[c].status = IF c = b THEN status ELSE broadcasts[c].status
    BY <1>2, <2>1, SetStatusType DEF Inv, BroadcastTypeOK, Finished
  <2>3. UNCHANGED attempts
    BY DEF Ends
  <2>4. Stage(b) = "open" /\ Stage(b)' = "closed"
    BY <2>1, <2>2 DEF Stage, Finished
  <2>5. \A c \in BroadcastIds \ {b} : Stage(c)' = Stage(c)
    BY <2>2 DEF Stage
  <2> QED
    BY <2>1, <2>3, <2>4, <2>5 DEF Moves
<1> QED
  BY <1>1, <1>2 DEF Ends

LEMMA SendTries ==
    ASSUME Inv, NEW p \in Processes, SendMessage(p)
    PROVE  M!Next \/ UNCHANGED <<Stages, Tried>>
<1>1. UNCHANGED broadcasts
  BY DEF SendMessage, tables
<1>2. CASE UNCHANGED attempts
  BY <1>1, <1>2, StillMailing
<1>3. CASE ~UNCHANGED attempts
  <2>1. PICK b \in BroadcastIds, u \in Users :
            /\ Owns(p, b) /\ attempts[b][u] = 0
            /\ attempts' = [attempts EXCEPT ![b][u] = 1]
    BY <1>3, SendKeeps
  <2>2. Stages[b] = "open"
    BY <2>1 DEF Inv, JobsOwn, Processing, Stages, Stage
  <2>3. UNCHANGED Stages
    BY <1>1 DEF Stages, Stage
  <2>4. u \notin Tried[b]
    BY <2>1 DEF Tried
  <2>5. attempts \in [BroadcastIds -> [Users -> Nat]]
    BY DEF Inv, BroadcastTypeOK
  <2>6. \A c \in BroadcastIds, v \in Users :
            attempts'[c][v] = IF c = b /\ v = u THEN 1 ELSE attempts[c][v]
    BY <2>1, <2>5
  <2>7. \A c \in BroadcastIds : Tried'[c] = IF c = b THEN Tried[b] \union {u} ELSE Tried[c]
    BY <2>6 DEF Tried
  <2>8. Tried' = [Tried EXCEPT ![b] = @ \union {u}]
    BY <2>7 DEF Tried
  <2>9. M!Try(b, u)
    BY <2>2, <2>3, <2>4, <2>8 DEF M!Try, Stages, Tried
  <2> QED
    BY <2>9 DEF M!Next
<1> QED
  BY <1>2, <1>3

\* Every step of the jobs, the processes and the admins is a step of Mailing or
\* none.
LEMMA NextMails == Inv /\ [Next]_vars => M!Next \/ UNCHANGED <<Stages, Tried>>
<1> SUFFICES ASSUME Inv, [Next]_vars PROVE M!Next \/ UNCHANGED <<Stages, Tried>>
  OBVIOUS
<1>1. CASE \E target \in AskedTargets : CreateBroadcast(target)
  BY <1>1, CreateMoves, MovesAreMailing
<1>2. CASE TimePasses \/ UNCHANGED vars
  BY <1>2, StillMailing DEF TimePasses, vars, tables, observed
<1>3. ASSUME NEW p \in Processes, JobStep(p) PROVE M!Next \/ UNCHANGED <<Stages, Tried>>
  <2>1. CASE ClaimQueuedBroadcast(p)
    BY <2>1, ClaimMoves, MovesAreMailing
  <2>2. CASE ReadRecipients(p) \/ RecordBroadcastMessage(p)
    BY <2>2, StillMailing DEF ReadRecipients, RecordBroadcastMessage, tables
  <2>3. CASE SendMessage(p)
    BY <2>3, SendTries
  <2>4. CASE RecipientsUnread(p) \/ FinishBroadcast(p) \/ GiveUp(p)
    BY <2>4, EndingsEnd, EndMoves, MovesAreMailing DEF Inv
  <2> QED
    BY <1>3, <2>1, <2>2, <2>3, <2>4 DEF JobStep
<1>4. ASSUME NEW p \in Processes, Stop(p) \/ Start(p) \/ Exit(p)
      PROVE  UNCHANGED <<Stages, Tried>>
  BY <1>4, StillMailing DEF Stop, Start, Exit, tables, observed
<1> QED
  BY <1>1, <1>2, <1>3, <1>4 DEF Next

\* Whatever interrupts the jobs, the users see what Mailing promises: a
\* broadcast is opened once, tries a user at most once and only while it is
\* open, and is closed for good.
THEOREM MailingImplemented == Spec => ImplementsMailing
<1>1. Init => M!Init
  BY DEF Init, M!Init, Stage, EmptyTable
<1>2. Inv /\ [Next]_vars => [M!Next]_<<Stages, Tried>>
  BY NextMails
<1> QED
  BY <1>1, <1>2, InvAlways, PTL DEF Spec, ImplementsMailing, M!Spec, Stages, Tried

-----------------------------------------------------------------------------
(***************************************************************************)
(* The books.  The rows a job writes are the answers it got: one for each  *)
(* user it has handled, unless it was cut short.  A broadcast is completed *)
(* only when every answer was a delivery and every row was written.        *)
(***************************************************************************)

Rows(b) == {m \in messages : m.broadcast = b}
Recorded(b) == {m.user : m \in Rows(b)}
AllSent(b) == \A m \in Rows(b) : m.status = "sent"
ReachedAll(b, users) == \A u \in users : attempts[b][u] = 1

\* Whose answers a job has recorded, when nothing came in between.
Handled(p, b) ==
    CASE job[p].stage = "claimed" -> {}
      [] job[p].stage = "sending" -> audience[b] \ job[p].left
      [] OTHER -> audience[b] \ (job[p].left \union {job[p].user})

JobBooks(p, b) ==
    /\ Works(p) => b \notin cutShort
    /\ Recorded(b) \subseteq Handled(p, b)
    /\ b \notin cutShort => Recorded(b) = Handled(p, b)
    /\ job[p].stage # "claimed" =>
        /\ job[p].left \subseteq audience[b]
        /\ ~job[p].failed => AllSent(b) /\ ReachedAll(b, audience[b] \ job[p].left)
    /\ job[p].stage = "answered" =>
        /\ job[p].user \in audience[b] \ job[p].left
        /\ ~job[p].failed => job[p].sent

Book(b) ==
    /\ \A m, n \in Rows(b) : m.user = n.user => m = n
    /\ b \notin DOMAIN broadcasts \/ Queued(b) => Rows(b) = {} /\ b \notin cutShort
    /\ \A p \in Processes : Owns(p, b) => JobBooks(p, b)
    /\ b \in DOMAIN broadcasts /\ broadcasts[b].status = "completed" =>
        AllSent(b) /\ ReachedAll(b, audience[b]) /\ Recorded(b) = audience[b]
    /\ b \in DOMAIN broadcasts /\ broadcasts[b].status \in Finished /\ b \notin cutShort =>
        Recorded(b) = audience[b]

Books ==
    /\ \A p \in Processes : process[p] = "down" => job[p] = Idle
    /\ \A b \in BroadcastIds : Book(b)

LEMMA InitBooks == Init => Books
BY DEF Init, Books, Book, Rows, Recorded, Owns, Idle, EmptyTable

\* A step that has nothing to do with a broadcast leaves its books as they are.
Apart(b) ==
    /\ Rows(b)' = Rows(b)
    /\ audience'[b] = audience[b] /\ attempts'[b] = attempts[b]
    /\ b \in cutShort' <=> b \in cutShort
    /\ b \in DOMAIN broadcasts' <=> b \in DOMAIN broadcasts
    /\ b \in DOMAIN broadcasts => broadcasts'[b].status = broadcasts[b].status
    /\ \A p \in Processes : Owns(p, b)' => Owns(p, b) /\ job'[p] = job[p] /\ (Works(p)' => Works(p))

LEMMA BookStays ==
    ASSUME NEW b \in BroadcastIds, Book(b), Apart(b)
    PROVE  Book(b)'
<1>1. /\ Recorded(b)' = Recorded(b)
      /\ AllSent(b)' <=> AllSent(b)
      /\ ReachedAll(b, audience[b])' <=> ReachedAll(b, audience[b])
  BY DEF Apart, Recorded, AllSent, ReachedAll
<1>2. ASSUME NEW p \in Processes, Owns(p, b)' PROVE JobBooks(p, b)'
  <2>1. JobBooks(p, b) /\ job'[p] = job[p] /\ (Works(p)' => Works(p))
    BY <1>2 DEF Apart, Book
  <2>2. Handled(p, b)' = Handled(p, b)
    BY <2>1 DEF Apart, Handled
  <2>3. ReachedAll(b, audience[b] \ job[p].left)' <=> ReachedAll(b, audience[b] \ job[p].left)
    BY <2>1 DEF Apart, ReachedAll
  <2> QED
    BY <1>1, <2>1, <2>2, <2>3 DEF Apart, JobBooks
<1>3. \A m, n \in Rows(b)' : m.user = n.user => m = n
  BY DEF Apart, Book
<1>4. b \notin DOMAIN broadcasts' \/ Queued(b)' => Rows(b)' = {} /\ b \notin cutShort'
  BY DEF Apart, Book, Queued
<1>5. b \in DOMAIN broadcasts' /\ broadcasts'[b].status = "completed" =>
        AllSent(b)' /\ ReachedAll(b, audience[b])' /\ Recorded(b)' = audience'[b]
  BY <1>1 DEF Apart, Book
<1>6. b \in DOMAIN broadcasts' /\ broadcasts'[b].status \in Finished /\ b \notin cutShort' =>
        Recorded(b)' = audience'[b]
  BY <1>1 DEF Apart, Book
<1> QED
  BY <1>2, <1>3, <1>4, <1>5, <1>6 DEF Book

LEMMA CreateBooks ==
    ASSUME Inv, Books, NEW target \in AskedTargets, CreateBroadcast(target)
    PROVE  Books'
<1>1. PICK b \in NextId(BroadcastIds, broadcasts) :
          broadcasts' = Insert(broadcasts, b,
              [target |-> normalizeBroadcastTarget(target), status |-> "queued", created |-> clock])
  BY DEF CreateBroadcast
<1>2. b \in BroadcastIds /\ b \notin DOMAIN broadcasts
  BY DEF NextId
<1>3. UNCHANGED <<messages, process, job, audience, attempts, cutShort>>
  BY DEF CreateBroadcast, observed
<1>4. /\ DOMAIN broadcasts' = DOMAIN broadcasts \union {b} /\ broadcasts'[b].status = "queued"
      /\ \A c \in DOMAIN broadcasts : broadcasts'[c] = broadcasts[c]
  BY <1>1, <1>2 DEF Insert
<1>5. ASSUME NEW c \in BroadcastIds, c # b PROVE Book(c)'
  BY <1>3, <1>4, <1>5, BookStays DEF Apart, Books, Rows, Owns, Works
<1>6. Book(b)'
  <2>1. Rows(b)' = {} /\ b \notin cutShort'
    BY <1>2, <1>3 DEF Books, Book, Rows
  <2>2. \A p \in Processes : ~Owns(p, b)'
    BY <1>2, <1>3 DEF Inv, JobsOwn, Owns, Processing
  <2> QED
    BY <1>4, <2>1, <2>2 DEF Book, Finished
<1> QED
  BY <1>3, <1>5, <1>6 DEF Books

LEMMA ClaimBooks ==
    ASSUME Inv, Books, NEW p \in Processes, ClaimQueuedBroadcast(p)
    PROVE  Books'
<1>1. PICK b \in BroadcastIds :
          /\ NextInLine(b) /\ SetStatus(b, "processing")
          /\ job' = [job EXCEPT ![p] = [stage |-> "claimed", broadcast |-> b]]
  BY DEF ClaimQueuedBroadcast
<1>2. Queued(b) /\ b \in DOMAIN broadcasts
  BY <1>1 DEF NextInLine, Queued
<1>3. \A q \in Processes : ~Owns(q, b)
  BY <1>2 DEF Inv, JobsOwn, Processing, Queued
<1>4. UNCHANGED <<messages, process, audience, attempts, cutShort>> /\ Works(p)
  BY DEF ClaimQueuedBroadcast, observed
<1>5. /\ DOMAIN broadcasts' = DOMAIN broadcasts
      /\ \A c \in DOMAIN broadcasts :
            broadcasts'[c].status = IF c = b THEN "processing" ELSE broadcasts[c].status
  BY <1>1, <1>2, SetStatusType DEF Inv, BroadcastTypeOK
<1>6. /\ job'[p] = [stage |-> "claimed", broadcast |-> b]
      /\ \A q \in Processes \ {p} : job'[q] = job[q]
  BY <1>1 DEF Inv, BroadcastTypeOK
<1>7. ASSUME NEW c \in BroadcastIds, c # b PROVE Book(c)'
  BY <1>4, <1>5, <1>6, <1>7, BookStays DEF Apart, Books, Rows, Owns, Works
<1>8. Book(b)'
  <2>1. Rows(b)' = {} /\ b \notin cutShort'
    BY <1>2, <1>4 DEF Books, Book, Rows
  <2>2. Recorded(b)' = {} /\ Handled(p, b)' = {}
    BY <1>6, <2>1 DEF Recorded, Handled
  <2>3. JobBooks(p, b)'
    BY <1>6, <2>1, <2>2 DEF JobBooks
  <2>4. \A q \in Processes : Owns(q, b)' => q = p
    BY <1>3, <1>6 DEF Owns
  <2>5. b \in DOMAIN broadcasts' /\ broadcasts'[b].status = "processing"
    BY <1>2, <1>5
  <2> QED
    BY <2>1, <2>3, <2>4, <2>5 DEF Book, Queued, Finished
<1>9. \A q \in Processes : process'[q] = "down" => job'[q] = Idle
  BY <1>4, <1>6 DEF Books, Works
<1> QED
  BY <1>7, <1>8, <1>9 DEF Books

\* A job that goes on changes the books of its own broadcast only, and keeps
\* them when its own account stays right.
LEMMA GoingOnBooks ==
    ASSUME Inv, Books, NEW p \in Processes, NEW b \in BroadcastIds, GoesOn(p), Owns(p, b),
           process' = process,
           \A c \in BroadcastIds \ {b} :
               /\ Rows(c)' = Rows(c)
               /\ audience'[c] = audience[c] /\ attempts'[c] = attempts[c]
               /\ c \in cutShort' <=> c \in cutShort,
           \A m, n \in Rows(b)' : m.user = n.user => m = n,
           JobBooks(p, b)'
    PROVE  Books'
<1>1. ASSUME NEW c \in BroadcastIds, c # b PROVE Book(c)'
  <2>1. \A q \in Processes : Owns(q, c)' => Owns(q, c) /\ q # p
    BY <1>1, GoingOnOwns DEF GoesOn, Owns
  <2>2. Apart(c)
    BY <1>1, <2>1 DEF Apart, GoesOn, Works
  <2> QED
    BY <2>2, BookStays DEF Books
<1>2. Book(b)'
  <2>1. b \in DOMAIN broadcasts' /\ broadcasts'[b].status = "processing"
    BY DEF GoesOn, Inv, JobsOwn, Processing
  <2>2. \A q \in Processes : Owns(q, b)' => q = p
    BY GoingOnOwns DEF Inv, JobsOwn
  <2> QED
    BY <2>1, <2>2 DEF Book, Queued, Finished
<1>3. \A q \in Processes : process'[q] = "down" => job'[q] = Idle
  BY DEF Books, GoesOn
<1> QED
  BY <1>1, <1>2, <1>3 DEF Books

LEMMA ReadBooks ==
    ASSUME Inv, Books, NEW p \in Processes, ReadRecipients(p)
    PROVE  Books'
<1>1. PICK b \in BroadcastIds : Owns(p, b) /\ b = job[p].broadcast
  BY JobShape DEF ReadRecipients, Inv, Owns
<1>2. GoesOn(p)
  BY WorkGoesOn
<1>3. PICK to \in SUBSET Users :
          /\ audience' = [audience EXCEPT ![b] = to]
          /\ job' = [job EXCEPT ![p] = [stage |-> "sending", broadcast |-> b, left |-> to, failed |-> FALSE]]
  <2>1. \A active \in SUBSET Users : BroadcastRecipients(broadcasts[b].target, active) \subseteq Users
    BY DEF BroadcastRecipients
  <2> QED
    BY <1>1, <2>1 DEF ReadRecipients
<1>4. /\ UNCHANGED <<messages, process, attempts, cutShort>>
      /\ Works(p) /\ job[p].stage = "claimed"
  BY DEF ReadRecipients, tables
<1>5. /\ audience'[b] = to /\ \A c \in BroadcastIds \ {b} : audience'[c] = audience[c]
      /\ job'[p] = [stage |-> "sending", broadcast |-> b, left |-> to, failed |-> FALSE]
  BY <1>1, <1>3 DEF Inv, BroadcastTypeOK
<1>6. Recorded(b) = {} /\ b \notin cutShort
  BY <1>1, <1>4 DEF Books, Book, JobBooks, Handled
<1>7. Rows(b)' = {} /\ Recorded(b)' = {} /\ b \notin cutShort'
  BY <1>4, <1>6 DEF Rows, Recorded
<1>8. Handled(p, b)' = {}
  BY <1>5 DEF Handled
<1>9. JobBooks(p, b)'
  BY <1>5, <1>7, <1>8 DEF JobBooks, AllSent, ReachedAll
<1> QED
  BY <1>1, <1>2, <1>4, <1>5, <1>7, <1>9, GoingOnBooks DEF Rows

\* A user the job has asked Telegram about is no longer left, and not yet recorded.
LEMMA SendBooks ==
    ASSUME Inv, Books, NEW p \in Processes, SendMessage(p)
    PROVE  Books'
<1>1. PICK b \in BroadcastIds :
          Owns(p, b) /\ b = job[p].broadcast /\ job[p].left \subseteq Users /\ job[p].failed \in BOOLEAN
  BY JobShape DEF SendMessage, Inv, Owns
<1>2. GoesOn(p)
  BY WorkGoesOn
<1>3. PICK u \in job[p].left, sent \in {Works(p), FALSE} :
          /\ attempts' = IF Works(p) THEN [attempts EXCEPT ![b][u] = @ + 1] ELSE attempts
          /\ job' = [job EXCEPT ![p] =
              [stage |-> "answered", broadcast |-> b, left |-> job[p].left \ {u},
               failed |-> Failed(job[p], sent), user |-> u, sent |-> sent]]
  BY <1>1 DEF SendMessage
<1>4. UNCHANGED <<messages, process, audience, cutShort>> /\ job[p].stage = "sending"
  BY DEF SendMessage, tables
<1>5. job'[p] = [stage |-> "answered", broadcast |-> b, left |-> job[p].left \ {u},
                 failed |-> Failed(job[p], sent), user |-> u, sent |-> sent]
  BY <1>3 DEF Inv, BroadcastTypeOK
<1>6. u \in Users /\ attempts[b][u] = 0
  BY <1>1, <1>4 DEF Inv, Unsent, Pending
<1>7. attempts \in [BroadcastIds -> [Users -> Nat]]
  BY DEF Inv, BroadcastTypeOK
<1>8. /\ \A c \in BroadcastIds \ {b} : attempts'[c] = attempts[c]
      /\ \A v \in Users \ {u} : attempts'[b][v] = attempts[b][v]
      /\ Works(p) => attempts'[b][u] = 1
  BY <1>1, <1>3, <1>6, <1>7
<1>9. JobBooks(p, b)
  BY <1>1 DEF Books, Book
<1>10. /\ Rows(b)' = Rows(b) /\ Recorded(b)' = Recorded(b)
       /\ AllSent(b)' <=> AllSent(b)
  BY <1>4 DEF Rows, Recorded, AllSent
<1>11. Handled(p, b)' = Handled(p, b)
  BY <1>4, <1>5, <1>9 DEF Handled, JobBooks
<1>12. /\ job'[p].stage = "answered" /\ job'[p].left = job[p].left \ {u}
       /\ job'[p].failed = Failed(job[p], sent) /\ job'[p].user = u /\ job'[p].sent = sent
  BY <1>5
<1>13. ASSUME ~job'[p].failed
       PROVE  job'[p].sent /\ AllSent(b)' /\ ReachedAll(b, audience[b] \ job[p].left)'
  <2>1. sent /\ Works(p) /\ ~job[p].failed
    BY <1>12, <1>13 DEF Failed
  <2>2. AllSent(b) /\ ReachedAll(b, audience[b] \ job[p].left)
    BY <1>4, <1>9, <2>1 DEF JobBooks
  <2>3. audience[b] \subseteq Users
    BY <1>1 DEF Inv, BroadcastTypeOK
  <2>4. ReachedAll(b, audience[b] \ job[p].left)'
    BY <1>4, <1>8, <1>12, <2>1, <2>2, <2>3 DEF ReachedAll
  <2> QED
    BY <1>10, <1>12, <2>1, <2>2, <2>4
<1>14. JobBooks(p, b)'
  <2>1. /\ job'[p].left \subseteq audience'[b]
        /\ job'[p].user \in audience'[b] \ job'[p].left
    BY <1>4, <1>9, <1>12 DEF JobBooks
  <2>2. Works(p)' => b \notin cutShort'
    BY <1>4, <1>9 DEF JobBooks, Works
  <2>3. /\ Recorded(b)' \subseteq Handled(p, b)'
        /\ b \notin cutShort' => Recorded(b)' = Handled(p, b)'
    BY <1>4, <1>9, <1>10, <1>11 DEF JobBooks
  <2> QED
    BY <1>12, <1>13, <2>1, <2>2, <2>3 DEF JobBooks
<1>15. \A m, n \in Rows(b)' : m.user = n.user => m = n
  <2>1. Book(b)
    BY DEF Books
  <2> QED
    BY <1>10, <2>1 DEF Book
<1> QED
  BY <1>1, <1>2, <1>4, <1>8, <1>14, <1>15, GoingOnBooks DEF Rows

\* The row of the answer joins those of the users handled before.
LEMMA RecordBooks ==
    ASSUME Inv, Books, NEW p \in Processes, RecordBroadcastMessage(p)
    PROVE  Books'
<1>1. PICK b \in BroadcastIds :
          /\ Owns(p, b) /\ b = job[p].broadcast /\ job[p].left \subseteq Users
          /\ job[p].failed \in BOOLEAN /\ job[p].sent \in BOOLEAN
  BY JobShape DEF RecordBroadcastMessage, Inv, Owns
<1>2. GoesOn(p)
  BY WorkGoesOn
<1>3. UNCHANGED <<process, audience, attempts>> /\ job[p].stage = "answered"
  BY DEF RecordBroadcastMessage
<1>4. /\ job'[p].stage = "sending" /\ job'[p].left = job[p].left
      /\ job'[p].failed = job[p].failed
  BY <1>1 DEF RecordBroadcastMessage, Inv, BroadcastTypeOK
<1>5. Book(b) /\ JobBooks(p, b)
  BY <1>1 DEF Books, Book
<1>6. Handled(p, b)' = Handled(p, b) \union {job[p].user}
  BY <1>3, <1>4, <1>5 DEF Handled, JobBooks
<1>7. \A c \in BroadcastIds \ {b} :
          Rows(c)' = Rows(c) /\ (c \in cutShort' <=> c \in cutShort)
  BY <1>1 DEF RecordBroadcastMessage, Rows, RowFor
<1>8. job'[p].failed \/ ReachedAll(b, audience[b] \ job[p].left)'
  BY <1>3, <1>4, <1>5 DEF JobBooks, ReachedAll
<1>9. CASE Works(p)
  <2>1. UNCHANGED cutShort /\ messages' = messages \union RowFor(job[p])
    BY <1>9 DEF RecordBroadcastMessage
  <2>2. PICK row : /\ row.broadcast = b /\ row.user = job[p].user
                   /\ job[p].sent => row.status = "sent"
                   /\ Rows(b)' = Rows(b) \union {row}
    <3> DEFINE new == [broadcast |-> b, user |-> job[p].user,
                       status |-> IF job[p].sent THEN "sent" ELSE "failed"]
    <3>1. RowFor(job[p]) = {new}
      BY <1>1 DEF RowFor
    <3>2. new.broadcast = b /\ new.user = job[p].user /\ (job[p].sent => new.status = "sent")
      OBVIOUS
    <3>3. Rows(b)' = Rows(b) \union {new}
      BY <2>1, <3>1, <3>2 DEF Rows
    <3> HIDE DEF new
    <3> QED
      BY <3>2, <3>3
  <2>3. Recorded(b)' = Recorded(b) \union {job[p].user}
    BY <2>2 DEF Recorded
  <2>4. job[p].user \notin Recorded(b)
    BY <1>3, <1>5 DEF JobBooks, Handled
  <2>5. \A m, n \in Rows(b)' : m.user = n.user => m = n
    BY <1>5, <2>2, <2>4 DEF Book, Recorded
  <2>6. job'[p].failed \/ AllSent(b)'
    BY <1>3, <1>4, <1>5, <2>2 DEF JobBooks, AllSent
  <2>7. /\ Recorded(b)' \subseteq Handled(p, b)'
        /\ Recorded(b)' = Handled(p, b)' \/ b \in cutShort'
    BY <1>5, <1>6, <2>1, <2>3 DEF JobBooks
  <2>8. JobBooks(p, b)'
    BY <1>3, <1>4, <1>5, <1>8, <1>9, <2>1, <2>6, <2>7 DEF JobBooks, Works
  <2> QED
    BY <1>1, <1>2, <1>3, <1>7, <2>5, <2>8, GoingOnBooks
<1>10. CASE ~Works(p)
  <2>1. messages' = messages /\ b \in cutShort'
    BY <1>1, <1>10 DEF RecordBroadcastMessage
  <2>2. /\ Rows(b)' = Rows(b) /\ Recorded(b)' = Recorded(b)
        /\ AllSent(b)' <=> AllSent(b)
    BY <2>1 DEF Rows, Recorded, AllSent
  <2>3. ~Works(p)'
    BY <1>3, <1>10 DEF Works
  <2>4. JobBooks(p, b)'
    BY <1>3, <1>4, <1>5, <1>6, <1>8, <2>1, <2>2, <2>3 DEF JobBooks
  <2>5. \A m, n \in Rows(b)' : m.user = n.user => m = n
    BY <1>5, <2>2 DEF Book
  <2> QED
    BY <1>1, <1>2, <1>3, <1>7, <2>4, <2>5, GoingOnBooks
<1> QED
  BY <1>9, <1>10

\* A job that ends leaves a broadcast cut short and not completed, or one it
\* has come to the end of.
CutOff(b) == b \in cutShort' /\ broadcasts'[b].status \in {"processing", "failed"}

CameToEnd(p, b) ==
    /\ Works(p) /\ job[p].stage = "sending" /\ job[p].left = {}
    /\ UNCHANGED cutShort
    /\ broadcasts'[b].status = Verdict(job[p].failed)

LEMMA EndBooks ==
    ASSUME Inv, Books, NEW p \in Processes, Ends(p),
           CutOff(job[p].broadcast) \/ CameToEnd(p, job[p].broadcast),
           \A q \in Processes \ {p} : process'[q] = process[q]
    PROVE  Books'
<1>1. PICK b \in BroadcastIds : Owns(p, b) /\ b = job[p].broadcast /\ Processing(b)
  BY JobShape DEF Ends, Inv, JobsOwn, Owns
<1>2. /\ UNCHANGED <<messages, audience, attempts>>
      /\ cutShort' \in {cutShort, cutShort \union {b}}
      /\ DOMAIN broadcasts' = DOMAIN broadcasts
      /\ \A c \in DOMAIN broadcasts : c # b => broadcasts'[c].status = broadcasts[c].status
  BY <1>1, EndType DEF Ends, Inv
<1>3. /\ job'[p] = Idle
      /\ \A q \in Processes \ {p} : job'[q] = job[q]
  BY DEF Ends, Inv, BroadcastTypeOK
<1>4. \A q \in Processes : ~Owns(q, b)'
  <2>1. \A q \in Processes : Owns(q, b)' => q # p /\ Owns(q, b)
    BY <1>3 DEF Owns
  <2> QED
    BY <1>1, <2>1 DEF Inv, JobsOwn
<1>5. ASSUME NEW c \in BroadcastIds, c # b PROVE Book(c)'
  <2>1. Apart(c)
    BY <1>2, <1>3, <1>5 DEF Apart, Rows, Owns, Works
  <2> QED
    BY <2>1, BookStays DEF Books
<1>6. Book(b) /\ JobBooks(p, b)
  BY <1>1 DEF Books, Book
<1>7. /\ Rows(b)' = Rows(b) /\ Recorded(b)' = Recorded(b)
      /\ AllSent(b)' <=> AllSent(b)
      /\ ReachedAll(b, audience[b])' <=> ReachedAll(b, audience[b])
  BY <1>2 DEF Rows, Recorded, AllSent, ReachedAll
<1>8. \A m, n \in Rows(b)' : m.user = n.user => m = n
  BY <1>6, <1>7 DEF Book
<1>9. b \in DOMAIN broadcasts'
  BY <1>1, <1>2 DEF Processing
<1>10. Book(b)'
  <2>1. CASE CutOff(b)
    BY <1>4, <1>8, <1>9, <2>1 DEF Book, CutOff, Queued
  <2>2. CASE CameToEnd(p, b)
    <3>1. b \notin cutShort /\ Recorded(b) = audience[b]
      BY <1>6, <2>2 DEF CameToEnd, JobBooks, Handled
    <3>2. ~job[p].failed => AllSent(b) /\ ReachedAll(b, audience[b])
      BY <1>6, <2>2 DEF CameToEnd, JobBooks, ReachedAll
    <3>3. broadcasts'[b].status = "completed" => AllSent(b)' /\ ReachedAll(b, audience[b])'
      BY <1>7, <2>2, <3>2 DEF CameToEnd, Verdict
    <3>4. broadcasts'[b].status # "queued"
      BY <2>2 DEF CameToEnd, Verdict
    <3>5. Recorded(b)' = audience'[b]
      BY <1>2, <1>7, <3>1
    <3> QED
      BY <1>4, <1>8, <1>9, <3>3, <3>4, <3>5 DEF Book, Queued
  <2> QED
    BY <1>1, <2>1, <2>2
<1>11. \A q \in Processes : process'[q] = "down" => job'[q] = Idle
  BY <1>3 DEF Books
<1> QED
  BY <1>5, <1>10, <1>11 DEF Books

LEMMA EndingBooks ==
    ASSUME Inv, Books, NEW p \in Processes
    PROVE  /\ RecipientsUnread(p) \/ FinishBroadcast(p) \/ GiveUp(p) => Books'
           /\ Exit(p) /\ job[p] # Idle => Books'
<1> SUFFICES ASSUME \/ RecipientsUnread(p) \/ FinishBroadcast(p) \/ GiveUp(p)
                    \/ Exit(p) /\ job[p] # Idle
             PROVE  Books'
  OBVIOUS
<1>1. Ends(p)
  BY EndingsEnd DEF Inv
<1>2. PICK b \in BroadcastIds : b = job[p].broadcast /\ Processing(b)
  BY <1>1, JobShape DEF Ends, Inv, JobsOwn, Owns
<1>3. broadcasts[b].status = "processing"
  BY <1>2 DEF Processing
<1>4. ASSUME NEW status \in Finished, SetStatus(b, status)
      PROVE  broadcasts'[b].status = status
  BY <1>2, <1>4, SetStatusType DEF Inv, BroadcastTypeOK, Processing, Finished
<1>5. Verdict(TRUE) = "failed"
  BY DEF Verdict
<1>6. \A q \in Processes \ {p} : process'[q] = process[q]
  BY EndingsEnd DEF Inv, BroadcastTypeOK, Exit
<1>7. CASE RecipientsUnread(p) \/ GiveUp(p)
  <2>1. b \in cutShort' /\ (UNCHANGED broadcasts \/ SetStatus(b, "failed"))
    BY <1>2, <1>5, <1>7 DEF RecipientsUnread, GiveUp
  <2>2. CutOff(b)
    BY <1>3, <1>4, <2>1 DEF CutOff, Finished
  <2> QED
    BY <1>1, <1>2, <1>6, <2>2, EndBooks
<1>8. CASE Exit(p) /\ job[p] # Idle
  <2>1. b \in cutShort' /\ UNCHANGED broadcasts
    BY <1>2, <1>8 DEF Exit, tables
  <2>2. CutOff(b)
    BY <1>3, <2>1 DEF CutOff
  <2> QED
    BY <1>1, <1>2, <1>6, <2>2, EndBooks
<1>9. CASE FinishBroadcast(p)
  <2>1. CASE Works(p)
    <3>1. SetStatus(b, Verdict(job[p].failed)) /\ UNCHANGED cutShort
      BY <1>2, <1>9, <2>1 DEF FinishBroadcast
    <3>2. Verdict(job[p].failed) \in Finished
      BY DEF Verdict, Finished
    <3>3. CameToEnd(p, b)
      BY <1>4, <1>9, <2>1, <3>1, <3>2 DEF CameToEnd, FinishBroadcast
    <3> QED
      BY <1>1, <1>2, <1>6, <3>3, EndBooks
  <2>2. CASE ~Works(p)
    <3>1. b \in cutShort' /\ UNCHANGED broadcasts
      BY <1>2, <1>9, <2>2 DEF FinishBroadcast
    <3>2. CutOff(b)
      BY <1>3, <3>1 DEF CutOff
    <3> QED
      BY <1>1, <1>2, <1>6, <3>2, EndBooks
  <2> QED
    BY <2>1, <2>2
<1> QED
  BY <1>7, <1>8, <1>9

\* The clock, and processes without a job, have no part in any broadcast.
LEMMA IdleBooks ==
    ASSUME Inv, Books,
           UNCHANGED <<broadcasts, messages, job, audience, attempts, cutShort>>,
           \A p \in Processes : job[p] # Idle /\ Works(p)' => Works(p),
           \A p \in Processes : process'[p] = "down" => job[p] = Idle
    PROVE  Books'
<1>1. \A b \in BroadcastIds : Apart(b)
  BY DEF Apart, Rows, Owns
<1>2. \A b \in BroadcastIds : Book(b)'
  BY <1>1, BookStays DEF Books
<1> QED
  BY <1>2 DEF Books

LEMMA NextBooks == Inv /\ Books /\ [Next]_vars => Books'
<1> SUFFICES ASSUME Inv, Books, [Next]_vars PROVE Books'
  OBVIOUS
<1>1. CASE \E target \in AskedTargets : CreateBroadcast(target)
  BY <1>1, CreateBooks
<1>2. CASE TimePasses \/ UNCHANGED vars
  BY <1>2, IdleBooks DEF TimePasses, vars, tables, observed, Works, Books
<1>3. ASSUME NEW p \in Processes, JobStep(p) PROVE Books'
  <2>1. CASE ClaimQueuedBroadcast(p)
    BY <2>1, ClaimBooks
  <2>2. CASE ReadRecipients(p)
    BY <2>2, ReadBooks
  <2>3. CASE SendMessage(p)
    BY <2>3, SendBooks
  <2>4. CASE RecordBroadcastMessage(p)
    BY <2>4, RecordBooks
  <2>5. CASE RecipientsUnread(p) \/ FinishBroadcast(p) \/ GiveUp(p)
    BY <2>5, EndingBooks
  <2> QED
    BY <1>3, <2>1, <2>2, <2>3, <2>4, <2>5 DEF JobStep
<1>4. ASSUME NEW p \in Processes, Stop(p) \/ Exit(p) \/ Start(p), Exit(p) => job[p] = Idle
      PROVE  Books'
  <2>1. UNCHANGED <<broadcasts, messages, audience, attempts, cutShort>>
    BY <1>4 DEF Stop, Start, Exit, tables, observed
  <2>2. UNCHANGED job
    BY <1>4 DEF Stop, Start, Exit, Inv, BroadcastTypeOK
  <2>3. \A q \in Processes : q # p => process'[q] = process[q]
    BY <1>4 DEF Stop, Start, Exit, Inv, BroadcastTypeOK
  <2>4. /\ job[p] # Idle /\ Works(p)' => Works(p)
        /\ process'[p] = "down" => job[p] = Idle
    BY <1>4 DEF Stop, Start, Exit, Inv, BroadcastTypeOK, Works, Books
  <2>5. \A q \in Processes : job[q] # Idle /\ Works(q)' => Works(q)
    BY <2>3, <2>4 DEF Works
  <2>6. \A q \in Processes : process'[q] = "down" => job[q] = Idle
    BY <2>3, <2>4 DEF Books
  <2> QED
    BY <2>1, <2>2, <2>5, <2>6, IdleBooks
<1>5. ASSUME NEW p \in Processes, Exit(p), job[p] # Idle PROVE Books'
  BY <1>5, EndingBooks
<1>6. ASSUME NEW p \in Processes, Stop(p) \/ Exit(p) \/ Start(p) PROVE Books'
  <2>1. CASE Exit(p) /\ job[p] # Idle
    BY <1>5, <2>1
  <2>2. CASE Exit(p) => job[p] = Idle
    BY <1>4, <1>6, <2>2
  <2> QED
    BY <2>1, <2>2
<1> QED
  BY <1>1, <1>2, <1>3, <1>6 DEF Next

-----------------------------------------------------------------------------
(* Counting the books. *)

\* Where every recorded user has one row there are as many rows as users.
LEMMA OneRowEach ==
    ASSUME NEW b \in BroadcastIds, NEW users, IsFiniteSet(users), Recorded(b) = users,
           \A m, n \in Rows(b) : m.user = n.user => m = n
    PROVE  IsFiniteSet(Rows(b)) /\ Cardinality(Rows(b)) = Cardinality(users)
<1> DEFINE f == [u \in users |-> CHOOSE m \in Rows(b) : m.user = u]
<1>1. \A u \in users : f[u] \in Rows(b) /\ f[u].user = u
  BY DEF Recorded
<1>2. f \in [users -> Rows(b)] /\ \A u, v \in users : f[u] = f[v] => u = v
  BY <1>1
<1>3. \A m \in Rows(b) : m.user \in users /\ f[m.user] = m
  BY <1>1 DEF Recorded
<1>4. \A m \in Rows(b) : \E u \in users : f[u] = m
  BY <1>3
<1>5. ExistsBijection(users, Rows(b))
  <2> HIDE DEF f
  <2>1. f \in Bijection(users, Rows(b))
    BY <1>2, <1>4, Fun_IsBij
  <2> QED
    BY <2>1 DEF ExistsBijection
<1> QED
  BY <1>5, FS_Bijection

RowsWith(b, status) == {m \in messages : m.broadcast = b /\ m.status = status}

LEMMA BooksTrue == Inv /\ Books => ReportIsTrue
<1> SUFFICES ASSUME Inv, Books PROVE ReportIsTrue
  OBVIOUS
<1>1. \A b \in BroadcastIds : IsFiniteSet(audience[b])
  BY BroadcastAssumption, FS_Subset DEF Inv, BroadcastTypeOK
<1>2. CompletedReachedAll
  <2> SUFFICES ASSUME NEW b \in BroadcastIds, b \in DOMAIN broadcasts, broadcasts[b].status = "completed"
               PROVE  /\ \A u \in audience[b] : attempts[b][u] = 1
                      /\ Counted(b, "sent") = Cardinality(audience[b])
    BY DEF CompletedReachedAll
  <2>1. Book(b)
    BY DEF Books
  <2>2. AllSent(b) /\ ReachedAll(b, audience[b]) /\ Recorded(b) = audience[b]
    BY <2>1 DEF Book
  <2>3. Cardinality(Rows(b)) = Cardinality(audience[b])
    BY <1>1, <2>1, <2>2, OneRowEach DEF Book
  <2>4. RowsWith(b, "sent") = Rows(b)
    BY <2>2 DEF AllSent, Rows, RowsWith
  <2> QED
    BY <2>2, <2>3, <2>4 DEF ReachedAll, Counted, RowsWith
<1>3. ReportAddsUp
  <2> SUFFICES ASSUME NEW b \in BroadcastIds \ cutShort, b \in DOMAIN broadcasts,
                      broadcasts[b].status \in Finished
               PROVE  Counted(b, "sent") + Counted(b, "failed") = Cardinality(audience[b])
    BY DEF ReportAddsUp
  <2>1. Book(b)
    BY DEF Books
  <2>2. IsFiniteSet(Rows(b)) /\ Cardinality(Rows(b)) = Cardinality(audience[b])
    BY <1>1, <2>1, OneRowEach DEF Book
  <2>3. /\ Rows(b) = RowsWith(b, "sent") \union RowsWith(b, "failed")
        /\ RowsWith(b, "sent") \intersect RowsWith(b, "failed") = {}
    BY DEF Inv, BroadcastTypeOK, MessageRow, Rows, RowsWith
  <2>4. IsFiniteSet(RowsWith(b, "sent")) /\ IsFiniteSet(RowsWith(b, "failed"))
    BY <2>2, <2>3, FS_Subset
  <2>5. Cardinality(Rows(b)) =
            Cardinality(RowsWith(b, "sent")) + Cardinality(RowsWith(b, "failed"))
            - Cardinality(RowsWith(b, "sent") \intersect RowsWith(b, "failed"))
    BY <2>3, <2>4, FS_Union
  <2>6. /\ Cardinality(RowsWith(b, "sent")) \in Nat /\ Cardinality(RowsWith(b, "failed")) \in Nat
        /\ Cardinality(RowsWith(b, "sent") \intersect RowsWith(b, "failed")) = 0
    BY <2>3, <2>4, FS_CardinalityType, FS_EmptySet
  <2> QED
    BY <2>2, <2>5, <2>6 DEF Counted, RowsWith
<1> QED
  BY <1>2, <1>3 DEF ReportIsTrue

\* The admin's list of broadcasts is true, whatever is stopped and started
\* again: a completed broadcast was sent once to everybody in its audience and
\* has that many rows, and one whose job came to its end accounts for everybody.
THEOREM ReportsAreTrue == Spec => []ReportIsTrue
<1>1. Init => Inv /\ Books
  BY InitInv, InitBooks
<1>2. Inv /\ Books /\ [Next]_vars => Books'
  BY NextBooks
<1>3. Inv /\ Books => ReportIsTrue
  BY BooksTrue
<1> QED
  BY <1>1, <1>2, <1>3, InvAlways, PTL DEF Spec

=============================================================================
