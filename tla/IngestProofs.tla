----------------------------- MODULE IngestProofs -----------------------------
(***************************************************************************)
(* Proofs about Ingest for every value of its constants: any number of     *)
(* posts, events, channels, crashes and errors.  One inductive invariant,  *)
(* IInv, carries all of it; the last part maps every step to Intake.       *)
(***************************************************************************)
EXTENDS Ingest, TLAPS, SequenceTheorems

-----------------------------------------------------------------------------
\* The inductive invariant

\* The life of one post's rows.  A body is only taken away past the retention,
\* and what the handler has archived but not yet queued is too young for that.
Lifecycle ==
    \A p \in Posts :
        /\ raw[p] = "none" => box[p] = "none"
        /\ raw[p] \in {"redacted", "gone"} => age[p] > Retention
        /\ p \in blind => raw[p] \in {"redacted", "gone"}
        /\ p \in handling => box[p] = "none" /\ raw[p] = "kept" /\ age[p] = 0

\* The worker's copy of a claimed row is the row: nobody else writes to it.
ClaimsFresh ==
    \A p \in DOMAIN batch : box[p] = "pending" /\ batch[p] = attempts[p]

\* How far the current row is: which body it runs on, the events behind it, and
\* the channels behind it of the event it stands at.
Progress ==
    /\ \A p, q \in cur : p = q
    /\ pc \in {"idle", "rows"} => pos = 1
    /\ \A p \in cur :
        /\ body = "redacted" <=> p \in blind
        /\ pc # "raised" =>
            \A i \in DOMAIN Worked(p) : i < pos => FannedOut(Worked(p)[i])
        /\ pc \in {"routing", "fanout"} =>
            pos \in DOMAIN Worked(p) /\ Worked(p)[pos] \in stored
        /\ pc = "fanout" =>
            /\ chans \subseteq RoutesOf[Worked(p)[pos]]
            /\ \A c \in RoutesOf[Worked(p)[pos]] \ chans :
                <<Worked(p)[pos], c>> \in ledger \cup suppressed

\* The fault behind a raised good body is not yet an attempt of its row.
RaisePaid == pc = "raised" => \A p \in cur \ Poison : attempts[p] < faults

IInv ==
    /\ TypeOK
    /\ NothingAcceptedIsLost /\ Lifecycle /\ ClaimsFresh
    /\ EventBehindEveryRow /\ Progress /\ DoneMeansFannedOut
    /\ DeadOnlyWithCause /\ RaisePaid /\ FailuresArePaid

-----------------------------------------------------------------------------
\* Types

\* A backoff is a natural number and never more than the cap.
LEMMA BackoffBounded ==
    ASSUME NEW n
    PROVE  Backoff(BackoffBase, n, BackoffCap) \in 0 .. BackoffCap
BY BoundsAssumption, SMT DEF Backoff

\* The events of a post, whichever body they are made of, are a sequence of keys.
LEMMA WorkedType ==
    ASSUME NEW p \in Posts
    PROVE  /\ Worked(p) \in Seq(Keys)
           /\ Len(Worked(p)) \in Nat
           /\ DOMAIN Worked(p) = 1 .. Len(Worked(p))
<1>1. Worked(p) \in Seq(Keys)
  BY PostsAssumption, RoutingAssumption DEF Worked
<1> QED
  BY <1>1, LenProperties

\* Next, with the current row named.
LEMMA Steps ==
    ASSUME TypeOK, [Next]_vars
    PROVE  \/ \E p \in Posts : Archive(p) \/ EnqueueOutbox(p)
           \/ Claim
           \/ \E p \in DOMAIN batch : p \in Posts /\ Load(p)
           \/ \E p \in cur :
                /\ p \in Posts /\ p \in DOMAIN batch
                /\ \/ Apply(p) \/ Route(p) \/ EnqueueNotification(p)
                   \/ OutboxDone(p) \/ OutboxDead(p) \/ OutboxRetry(p)
           \/ \E on \in BOOLEAN : SetKill(on)
           \/ \E key \in Missed : StoredByReconcile(key)
           \/ Prune \/ Tick
           \/ Raise \/ Crash \/ WorkerError
           \/ UNCHANGED vars
<1>1. DOMAIN batch \subseteq Posts /\ cur \subseteq DOMAIN batch
  BY DEF TypeOK
<1> QED
  BY <1>1 DEF Next, Worker

\* The conjuncts of TypeOK about the two tables of the queue, about the worker,
\* and about what the worker and the other threads leave behind.
TableType ==
    /\ raw \in [Posts -> RawStates]
    /\ age \in [Posts -> 0 .. Retention + 1]
    /\ box \in [Posts -> BoxStates]
    /\ attempts \in [Posts -> Nat]
    /\ wait \in [Posts -> 0 .. BackoffCap]

WorkType ==
    /\ pc \in PCs
    /\ DOMAIN batch \subseteq Posts /\ batch \in [DOMAIN batch -> Nat]
    /\ cur \subseteq DOMAIN batch
    /\ (cur = {}) <=> (pc \notin Busy)
    /\ body \in {"kept", "redacted"}
    /\ pos \in Nat \ {0}
    /\ chans \subseteq Channels

RestType ==
    /\ handling \subseteq Posts /\ acked \subseteq Posts
    /\ stored \subseteq Keys /\ ledger \subseteq Keys \X Channels
    /\ engaged \in BOOLEAN
    /\ blind \subseteq Posts /\ suppressed \subseteq Keys \X Channels
    /\ faults \in 0 .. MaxFaults

LEMMA TypeSplit == TypeOK <=> TableType /\ WorkType /\ RestType
BY DEF TypeOK, TableType, WorkType, RestType

LEMMA TypeInit == Init => TypeOK
<1> SUFFICES ASSUME Init PROVE TypeOK
  OBVIOUS
<1> USE BoundsAssumption
<1>1. TableType
  BY SMT DEF Init, TableType, RawStates, BoxStates
<1>2. WorkType
  BY SMT DEF Init, WorkType, NoBatch, PCs, Busy
<1>3. RestType
  BY SMT DEF Init, RestType
<1> QED
  BY <1>1, <1>2, <1>3, TypeSplit

\* Taking a handled row off the batch leaves the worker between two rows.
LEMMA RecordedType ==
    ASSUME WorkType, NEW p \in DOMAIN batch, Recorded(p)
    PROVE  WorkType'
BY SMT DEF WorkType, Recorded, Restrict, PCs, Busy

LEMMA DroppedType ==
    ASSUME WorkType, RestType, WorkDropped
    PROVE  WorkType' /\ faults' \in 0 .. MaxFaults
<1>1. WorkType'
  BY SMT DEF WorkType, WorkDropped, NoBatch, PCs, Busy
<1>2. faults' \in 0 .. MaxFaults
  BY BoundsAssumption, SMT DEF RestType, WorkDropped
<1> QED
  BY <1>1, <1>2

LEMMA TableTypeStep == TypeOK /\ [Next]_vars => TableType'
<1> SUFFICES ASSUME TypeOK, [Next]_vars PROVE TableType'
  OBVIOUS
<1> USE BoundsAssumption
<1>0. TableType
  BY TypeSplit
<1>1. ASSUME NEW p \in Posts, Archive(p) PROVE TableType'
  BY <1>0, <1>1, SMT DEF Archive, TableType, RawStates
<1>2. ASSUME NEW p \in Posts, EnqueueOutbox(p) PROVE TableType'
  BY <1>0, <1>2, SMT DEF EnqueueOutbox, TableType, BoxStates
<1>3. ASSUME NEW p \in Posts, Load(p) PROVE TableType'
  BY <1>0, <1>3, SMT DEF Load, Process, RawMissing, TableType, BoxStates
<1>4. ASSUME NEW p \in Posts, OutboxDone(p) \/ OutboxDead(p) PROVE TableType'
  BY <1>0, <1>4, SMT DEF OutboxDone, OutboxDead, TableType, BoxStates
<1>5. ASSUME NEW p \in Posts, OutboxRetry(p) PROVE TableType'
  <2>1. wait' \in [Posts -> 0 .. BackoffCap]
    BY <1>0, <1>5, BackoffBounded DEF OutboxRetry, TableType
  <2>2. attempts' \in [Posts -> Nat]
    BY <1>0, <1>5, SMT DEF OutboxRetry, TableType
  <2> QED
    BY <1>0, <1>5, <2>1, <2>2 DEF OutboxRetry, TableType
<1>6. CASE Prune
  <2>1. box' \in [Posts -> BoxStates]
    BY <1>0, <1>6 DEF Prune, TableType, BoxStates
  <2>2. raw' \in [Posts -> RawStates]
    BY <1>0, <1>6 DEF Prune, TableType, RawStates
  <2> QED
    BY <1>0, <1>6, <2>1, <2>2 DEF Prune, TableType
<1>7. CASE Tick
  BY <1>0, <1>7, SMT DEF Tick, TableType
<1>8. ASSUME UNCHANGED tableVars PROVE TableType'
  BY <1>0, <1>8 DEF tableVars, TableType
<1>9. ASSUME NEW p \in Posts, Apply(p) \/ Route(p) \/ EnqueueNotification(p)
      PROVE TableType'
  BY <1>8, <1>9 DEF Apply, Route, EnqueueNotification
<1>10. ASSUME NEW on, SetKill(on) PROVE TableType'
  BY <1>8, <1>10 DEF SetKill
<1>11. ASSUME NEW key, StoredByReconcile(key) PROVE TableType'
  BY <1>8, <1>11 DEF StoredByReconcile
<1>12. CASE Claim \/ Raise \/ Crash \/ WorkerError \/ UNCHANGED vars
  BY <1>8, <1>12 DEF Claim, Raise, Crash, WorkerError, WorkDropped, vars
<1> QED
  BY <1>1, <1>2, <1>3, <1>4, <1>5, <1>6, <1>7, <1>9, <1>10, <1>11, <1>12, Steps

\* The current row runs on the events of the body it was loaded with, and what it
\* routes and fans out is one of them.
LEMMA CurrentEvents ==
    ASSUME TypeOK, Progress, NEW p \in cur
    PROVE  /\ Events(p) = Worked(p)
           /\ pc \in {"routing", "fanout"} => Events(p)[pos] \in Keys
<1>1. p \in Posts
  BY DEF TypeOK
<1>2. Events(p) = Worked(p)
  BY DEF Progress, Events, Worked
<1>3. ASSUME NEW i \in DOMAIN Worked(p) PROVE Worked(p)[i] \in Keys
  BY <1>1, <1>3, WorkedType, ElementOfSeq
<1> QED
  BY <1>2, <1>3 DEF Progress

LEMMA WorkTypeStep == TypeOK /\ Progress /\ [Next]_vars => WorkType'
<1> SUFFICES ASSUME TypeOK, Progress, [Next]_vars PROVE WorkType'
  OBVIOUS
<1> USE BoundsAssumption
<1>0. WorkType /\ TableType /\ RestType
  BY TypeSplit
<1>1. CASE Claim
  BY <1>0, <1>1, SMT DEF Claim, Due, WorkType, TableType, PCs, Busy
<1>2. ASSUME NEW p \in DOMAIN batch, p \in Posts, Load(p) PROVE WorkType'
  <2>1. CASE Readable(p)
    BY <1>0, <1>2, <2>1, SMT DEF Load, Process, Readable, WorkType, PCs, Busy
  <2>2. CASE ~Readable(p)
    BY <1>0, <1>2, <2>2, RecordedType DEF Load, RawMissing
  <2> QED
    BY <2>1, <2>2
<1>3. ASSUME NEW p \in cur, Apply(p) PROVE WorkType'
  BY <1>0, <1>3, SMT DEF Apply, WorkType, PCs, Busy
<1>4. ASSUME NEW p \in cur, p \in Posts, Route(p) PROVE WorkType'
  <2>1. chans' \subseteq Channels
    BY <1>4, CurrentEvents, RoutingAssumption DEF Route
  <2> QED
    BY <1>0, <1>4, <2>1, SMT DEF Route, WorkType, PCs, Busy
<1>5. ASSUME NEW p \in cur, EnqueueNotification(p) PROVE WorkType'
  BY <1>0, <1>5, SMT DEF EnqueueNotification, WorkType, PCs, Busy
<1>6. ASSUME NEW p \in DOMAIN batch, OutboxDone(p) \/ OutboxDead(p) \/ OutboxRetry(p)
      PROVE WorkType'
  BY <1>0, <1>6, RecordedType DEF OutboxDone, OutboxDead, OutboxRetry
<1>7. CASE Raise
  BY <1>0, <1>7, SMT DEF Raise, WorkType, PCs, Busy
<1>8. CASE Crash \/ WorkerError
  BY <1>0, <1>8, DroppedType DEF Crash, WorkerError
<1>9. ASSUME UNCHANGED workVars PROVE WorkType'
  BY <1>0, <1>9 DEF workVars, WorkType
<1>10. ASSUME NEW p \in Posts, Archive(p) \/ EnqueueOutbox(p) PROVE WorkType'
  BY <1>9, <1>10 DEF Archive, EnqueueOutbox
<1>11. ASSUME NEW on, SetKill(on) PROVE WorkType'
  BY <1>9, <1>11 DEF SetKill
<1>12. ASSUME NEW key, StoredByReconcile(key) PROVE WorkType'
  BY <1>9, <1>12 DEF StoredByReconcile
<1>13. CASE Prune \/ Tick \/ UNCHANGED vars
  BY <1>9, <1>13 DEF Prune, Tick, vars
<1> QED
  BY <1>1, <1>2, <1>3, <1>4, <1>5, <1>6, <1>7, <1>8, <1>10, <1>11, <1>12, <1>13, Steps

LEMMA RestTypeStep == TypeOK /\ Progress /\ [Next]_vars => RestType'
<1> SUFFICES ASSUME TypeOK, Progress, [Next]_vars PROVE RestType'
  OBVIOUS
<1> USE BoundsAssumption
<1>0. RestType /\ WorkType
  BY TypeSplit
<1>1. ASSUME NEW p \in Posts, Archive(p) PROVE RestType'
  BY <1>0, <1>1 DEF Archive, RestType, eventVars, historyVars
<1>2. ASSUME NEW p \in Posts, EnqueueOutbox(p) PROVE RestType'
  BY <1>0, <1>2 DEF EnqueueOutbox, RestType, eventVars, historyVars
<1>3. ASSUME NEW p \in Posts, Load(p) PROVE RestType'
  BY <1>0, <1>3 DEF Load, Process, RawMissing, RestType, eventVars
<1>4. ASSUME NEW p \in cur, p \in Posts, Apply(p) PROVE RestType'
  <2>1. Events(p)[pos] \in Keys
    <3>1. Events(p) \in Seq(Keys) /\ pos \in 1 .. Len(Events(p))
      BY <1>0, <1>4, WorkedType, CurrentEvents, SMT DEF Apply, More, WorkType
    <3> QED
      BY <3>1, ElementOfSeq
  <2> QED
    BY <1>0, <1>4, <2>1 DEF Apply, RestType, historyVars
<1>5. ASSUME NEW p \in cur, Route(p) PROVE RestType'
  BY <1>0, <1>5, CurrentEvents, RoutingAssumption DEF Route, RestType, eventVars
<1>6. ASSUME NEW p \in cur, EnqueueNotification(p) PROVE RestType'
  BY <1>0, <1>6, CurrentEvents DEF EnqueueNotification, RestType, WorkType, historyVars
<1>7. ASSUME NEW on \in BOOLEAN, SetKill(on) PROVE RestType'
  BY <1>0, <1>7 DEF SetKill, RestType, eventVars, historyVars
<1>8. ASSUME NEW key \in Missed, StoredByReconcile(key) PROVE RestType'
  BY <1>0, <1>8, PostsAssumption DEF StoredByReconcile, RestType, historyVars
<1>9. CASE Raise
  <2>1. faults' \in 0 .. MaxFaults
    BY <1>0, <1>9, SMT DEF Raise, RestType
  <2> QED
    BY <1>0, <1>9, <2>1 DEF Raise, RestType, eventVars, historyVars
<1>10. CASE Crash \/ WorkerError
  BY <1>0, <1>10, DroppedType
     DEF Crash, WorkerError, WorkDropped, RestType, eventVars, historyVars
<1>11. ASSUME UNCHANGED <<handling, acked, eventVars, engaged, historyVars, faults>>
       PROVE RestType'
  BY <1>0, <1>11 DEF RestType, eventVars, historyVars
<1>12. ASSUME NEW p, OutboxDone(p) \/ OutboxDead(p) \/ OutboxRetry(p) PROVE RestType'
  BY <1>11, <1>12 DEF OutboxDone, OutboxDead, OutboxRetry
<1>13. CASE Claim \/ Prune \/ Tick \/ UNCHANGED vars
  BY <1>11, <1>13 DEF Claim, Prune, Tick, vars
<1> QED
  BY <1>1, <1>2, <1>3, <1>4, <1>5, <1>6, <1>7, <1>8, <1>9, <1>10, <1>12, <1>13, Steps

LEMMA TypeStep == TypeOK /\ Progress /\ [Next]_vars => TypeOK'
<1> SUFFICES ASSUME TypeOK, Progress, [Next]_vars PROVE TypeOK'
  OBVIOUS
<1>1. TableType' /\ WorkType' /\ RestType'
  BY TableTypeStep, WorkTypeStep, RestTypeStep
<1> QED
  BY <1>1 DEF TypeOK, TableType, WorkType, RestType

-----------------------------------------------------------------------------
\* The queue: acknowledged posts, bodies and claims

QueueInv == NothingAcceptedIsLost /\ Lifecycle /\ ClaimsFresh

LEMMA LostStep ==
    TypeOK /\ QueueInv /\ [Next]_vars => NothingAcceptedIsLost'
<1> SUFFICES ASSUME TypeOK, QueueInv, [Next]_vars PROVE NothingAcceptedIsLost'
  OBVIOUS
<1>0. TableType /\ NothingAcceptedIsLost /\ Lifecycle /\ ClaimsFresh
  BY TypeSplit DEF QueueInv
<1>1. ASSUME NEW p \in Posts, Archive(p) PROVE NothingAcceptedIsLost'
  BY <1>0, <1>1 DEF Archive, TableType, NothingAcceptedIsLost, Readable
<1>2. ASSUME NEW p \in Posts, EnqueueOutbox(p) PROVE NothingAcceptedIsLost'
  BY <1>0, <1>2
     DEF EnqueueOutbox, TableType, NothingAcceptedIsLost, Lifecycle, Readable
<1>3. ASSUME NEW p \in DOMAIN batch, p \in Posts, Load(p) PROVE NothingAcceptedIsLost'
  <2>1. Readable(p)
    BY <1>0, <1>3 DEF ClaimsFresh, NothingAcceptedIsLost
  <2> QED
    BY <1>0, <1>3, <2>1 DEF Load, Process, NothingAcceptedIsLost, Readable
<1>4. ASSUME NEW p \in DOMAIN batch, p \in Posts,
             OutboxDone(p) \/ OutboxDead(p) \/ OutboxRetry(p)
      PROVE NothingAcceptedIsLost'
  <2>1. box[p] = "pending"
    BY <1>0, <1>4 DEF ClaimsFresh
  <2> QED
    BY <1>0, <1>4, <2>1
       DEF OutboxDone, OutboxDead, OutboxRetry, TableType, NothingAcceptedIsLost, Readable
<1>5. CASE Prune
  <2>1. ASSUME NEW p \in Posts, p \in acked PROVE box'[p] # "none"
    BY <1>0, <1>5, <2>1 DEF Prune, TableType, NothingAcceptedIsLost
  <2>2. ASSUME NEW p \in Posts, box'[p] \in {"pending", "done", "dead"}
        PROVE  raw'[p] \in {"kept", "redacted"}
    <3>1. box[p] \in {"pending", "done", "dead"} /\ Refers(box'[p])
      BY <1>0, <1>5, <2>2 DEF Prune, TableType, Refers
    <3>2. raw[p] \in {"kept", "redacted"}
      BY <1>0, <3>1 DEF NothingAcceptedIsLost, Readable
    <3> QED
      BY <1>0, <1>5, <3>1, <3>2 DEF Prune, TableType
  <2> QED
    BY <1>5, <2>1, <2>2 DEF Prune, NothingAcceptedIsLost, Readable
<1>6. ASSUME UNCHANGED <<raw, box, acked>> PROVE NothingAcceptedIsLost'
  BY <1>0, <1>6 DEF NothingAcceptedIsLost, Readable
<1>7. ASSUME NEW p, Apply(p) \/ Route(p) \/ EnqueueNotification(p)
      PROVE NothingAcceptedIsLost'
  BY <1>6, <1>7 DEF Apply, Route, EnqueueNotification, tableVars
<1>8. ASSUME NEW on, SetKill(on) PROVE NothingAcceptedIsLost'
  BY <1>6, <1>8 DEF SetKill, tableVars
<1>9. ASSUME NEW key, StoredByReconcile(key) PROVE NothingAcceptedIsLost'
  BY <1>6, <1>9 DEF StoredByReconcile, tableVars
<1>10. CASE Claim \/ Tick \/ Raise \/ Crash \/ WorkerError \/ UNCHANGED vars
  BY <1>6, <1>10 DEF Claim, Tick, Raise, Crash, WorkerError, WorkDropped, vars, tableVars
<1> QED
  BY <1>1, <1>2, <1>3, <1>4, <1>5, <1>7, <1>8, <1>9, <1>10, Steps

LEMMA LifecycleStep == TypeOK /\ QueueInv /\ [Next]_vars => Lifecycle'
<1> SUFFICES ASSUME TypeOK, QueueInv, [Next]_vars PROVE Lifecycle'
  OBVIOUS
<1> USE BoundsAssumption
<1>0. TableType /\ RestType /\ NothingAcceptedIsLost /\ Lifecycle /\ ClaimsFresh
  BY TypeSplit DEF QueueInv
<1>1. ASSUME NEW p \in Posts, Archive(p) PROVE Lifecycle'
  BY <1>0, <1>1, SMT DEF Archive, TableType, Lifecycle, historyVars
<1>2. ASSUME NEW p \in Posts, EnqueueOutbox(p) PROVE Lifecycle'
  BY <1>0, <1>2 DEF EnqueueOutbox, TableType, Lifecycle, historyVars
<1>3. ASSUME NEW p \in DOMAIN batch, p \in Posts, Load(p) PROVE Lifecycle'
  <2>1. Readable(p)
    BY <1>0, <1>3 DEF ClaimsFresh, NothingAcceptedIsLost
  <2> QED
    BY <1>0, <1>3, <2>1 DEF Load, Process, Lifecycle
<1>4. ASSUME NEW p \in DOMAIN batch, p \in Posts,
             OutboxDone(p) \/ OutboxDead(p) \/ OutboxRetry(p)
      PROVE Lifecycle'
  <2>1. box[p] = "pending"
    BY <1>0, <1>4 DEF ClaimsFresh
  <2> QED
    BY <1>0, <1>4, <2>1
       DEF OutboxDone, OutboxDead, OutboxRetry, TableType, Lifecycle, historyVars
<1>5. CASE Prune
  <2> SUFFICES ASSUME NEW p \in Posts
               PROVE  /\ raw'[p] = "none" => box'[p] = "none"
                      /\ raw'[p] \in {"redacted", "gone"} => age[p] > Retention
                      /\ p \in blind => raw'[p] \in {"redacted", "gone"}
                      /\ p \in handling =>
                            box'[p] = "none" /\ raw'[p] = "kept" /\ age[p] = 0
    BY <1>5 DEF Prune, Lifecycle, historyVars
  <2>1. CASE p \in Expired
    <3>1. raw[p] # "none" /\ age[p] > Retention /\ raw'[p] \in {"redacted", "gone"}
      BY <1>0, <1>5, <2>1 DEF Prune, Expired, TableType
    <3>2. age[p] # 0
      BY <1>0, <3>1, SMT DEF TableType
    <3> QED
      BY <1>0, <3>1, <3>2 DEF Lifecycle
  <2>2. CASE p \notin Expired
    <3>1. raw'[p] = raw[p] /\ box'[p] = box[p]
      BY <1>0, <1>5, <2>2 DEF Prune, TableType
    <3> QED
      BY <1>0, <3>1 DEF Lifecycle
  <2> QED
    BY <2>1, <2>2
<1>6. CASE Tick
  <2>1. ASSUME NEW p \in Posts, age[p] > Retention PROVE age'[p] > Retention
    BY <1>0, <1>6, <2>1, SMT DEF Tick, TableType
  <2> QED
    BY <1>0, <1>6, <2>1 DEF Tick, Lifecycle, historyVars
<1>7. ASSUME UNCHANGED <<raw, age, box, blind>>, handling' \subseteq handling
      PROVE Lifecycle'
  BY <1>0, <1>7 DEF Lifecycle
<1>8. ASSUME NEW p, Apply(p) \/ Route(p) \/ EnqueueNotification(p) PROVE Lifecycle'
  BY <1>7, <1>8 DEF Apply, Route, EnqueueNotification, tableVars, historyVars
<1>9. ASSUME NEW on, SetKill(on) PROVE Lifecycle'
  BY <1>7, <1>9 DEF SetKill, tableVars, historyVars
<1>10. ASSUME NEW key, StoredByReconcile(key) PROVE Lifecycle'
  BY <1>7, <1>10 DEF StoredByReconcile, tableVars, historyVars
<1>11. CASE Claim \/ Raise \/ Crash \/ WorkerError \/ UNCHANGED vars
  BY <1>7, <1>11
     DEF Claim, Raise, Crash, WorkerError, WorkDropped, vars, tableVars, historyVars
<1> QED
  BY <1>1, <1>2, <1>3, <1>4, <1>5, <1>6, <1>8, <1>9, <1>10, <1>11, Steps

LEMMA FreshStep == TypeOK /\ QueueInv /\ [Next]_vars => ClaimsFresh'
<1> SUFFICES ASSUME TypeOK, QueueInv, [Next]_vars PROVE ClaimsFresh'
  OBVIOUS
<1>0. TableType /\ WorkType /\ NothingAcceptedIsLost /\ Lifecycle /\ ClaimsFresh
  BY TypeSplit DEF QueueInv
<1>1. ASSUME NEW p \in Posts, EnqueueOutbox(p) PROVE ClaimsFresh'
  <2>1. p \notin DOMAIN batch
    BY <1>0, <1>1 DEF EnqueueOutbox, Lifecycle, ClaimsFresh
  <2> QED
    BY <1>0, <1>1, <2>1 DEF EnqueueOutbox, workVars, TableType, WorkType, ClaimsFresh
<1>2. CASE Claim
  BY <1>0, <1>2, SMT DEF Claim, Due, ClaimsFresh, tableVars
<1>3. ASSUME NEW p \in DOMAIN batch, p \in Posts, Load(p) PROVE ClaimsFresh'
  <2>1. Readable(p)
    BY <1>0, <1>3 DEF ClaimsFresh, NothingAcceptedIsLost
  <2> QED
    BY <1>0, <1>3, <2>1 DEF Load, Process, ClaimsFresh
<1>4. ASSUME NEW p \in DOMAIN batch, Recorded(p),
             \A q \in Posts \ {p} : box'[q] = box[q] /\ attempts'[q] = attempts[q]
      PROVE ClaimsFresh'
  BY <1>0, <1>4, SMT DEF Recorded, Restrict, WorkType, ClaimsFresh
<1>5. ASSUME NEW p \in DOMAIN batch, OutboxDone(p) \/ OutboxDead(p) \/ OutboxRetry(p)
      PROVE ClaimsFresh'
  <2>1. \A q \in Posts \ {p} : box'[q] = box[q] /\ attempts'[q] = attempts[q]
    BY <1>0, <1>5 DEF OutboxDone, OutboxDead, OutboxRetry, TableType
  <2> QED
    BY <1>4, <1>5, <2>1 DEF OutboxDone, OutboxDead, OutboxRetry
<1>6. CASE Prune
  BY <1>0, <1>6 DEF Prune, workVars, WorkType, ClaimsFresh
<1>7. CASE Crash \/ WorkerError
  BY <1>7, SMT DEF Crash, WorkerError, WorkDropped, NoBatch, ClaimsFresh
<1>8. ASSUME UNCHANGED <<box, attempts, batch>> PROVE ClaimsFresh'
  BY <1>0, <1>8 DEF ClaimsFresh
<1>9. ASSUME NEW p, Archive(p) \/ Apply(p) \/ Route(p) \/ EnqueueNotification(p)
      PROVE ClaimsFresh'
  BY <1>8, <1>9 DEF Archive, Apply, Route, EnqueueNotification, tableVars, workVars
<1>10. ASSUME NEW on, SetKill(on) PROVE ClaimsFresh'
  BY <1>8, <1>10 DEF SetKill, tableVars, workVars
<1>11. ASSUME NEW key, StoredByReconcile(key) PROVE ClaimsFresh'
  BY <1>8, <1>11 DEF StoredByReconcile, tableVars, workVars
<1>12. CASE Tick \/ Raise \/ UNCHANGED vars
  BY <1>8, <1>12 DEF Tick, Raise, vars, tableVars, workVars
<1> QED
  BY <1>1, <1>2, <1>3, <1>5, <1>6, <1>7, <1>9, <1>10, <1>11, <1>12, Steps

LEMMA QueueStep == TypeOK /\ QueueInv /\ [Next]_vars => QueueInv'
BY LostStep, LifecycleStep, FreshStep DEF QueueInv

-----------------------------------------------------------------------------
\* The fan-out: events, ledger rows and suppressed rows only accumulate

LEMMA Accumulates ==
    ASSUME [Next]_vars
    PROVE  stored \subseteq stored' /\ ledger \subseteq ledger' /\ suppressed \subseteq suppressed'
<1>1. ASSUME UNCHANGED eventVars
      PROVE  stored \subseteq stored' /\ ledger \subseteq ledger'
  BY <1>1 DEF eventVars
<1>2. ASSUME UNCHANGED historyVars PROVE suppressed \subseteq suppressed'
  BY <1>2 DEF historyVars
<1>3. ASSUME NEW p, Archive(p) \/ EnqueueOutbox(p)
      PROVE  UNCHANGED eventVars /\ UNCHANGED historyVars
  BY <1>3 DEF Archive, EnqueueOutbox
<1>4. ASSUME NEW p, Load(p) PROVE UNCHANGED eventVars /\ UNCHANGED suppressed
  BY <1>4 DEF Load
<1>5. ASSUME NEW p, Apply(p) \/ Route(p) \/ EnqueueNotification(p)
      PROVE  stored \subseteq stored' /\ ledger \subseteq ledger' /\ suppressed \subseteq suppressed'
  BY <1>5 DEF Apply, Route, EnqueueNotification, eventVars, historyVars
<1>6. ASSUME NEW p, OutboxDone(p) \/ OutboxDead(p) \/ OutboxRetry(p)
      PROVE  UNCHANGED eventVars /\ UNCHANGED historyVars
  BY <1>6 DEF OutboxDone, OutboxDead, OutboxRetry
<1>7. ASSUME NEW on, SetKill(on) PROVE UNCHANGED eventVars /\ UNCHANGED historyVars
  BY <1>7 DEF SetKill
<1>8. ASSUME NEW key, StoredByReconcile(key)
      PROVE  stored \subseteq stored' /\ UNCHANGED ledger /\ UNCHANGED historyVars
  BY <1>8 DEF StoredByReconcile
<1>9. CASE Claim \/ Prune \/ Tick \/ Raise \/ Crash \/ WorkerError \/ UNCHANGED vars
  BY <1>1, <1>2, <1>9 DEF Claim, Prune, Tick, Raise, Crash, WorkerError, WorkDropped, vars
<1> QED
  BY <1>1, <1>2, <1>3, <1>4, <1>5, <1>6, <1>7, <1>8, <1>9 DEF Next, Worker

\* FannedOut of a key, as the step leaves it.
FannedOutNext(key) ==
    /\ key \in stored'
    /\ \A c \in RoutesOf[key] : <<key, c>> \in ledger' \cup suppressed'

\* So an event that is fanned out stays fanned out.
LEMMA FannedOutStays ==
    ASSUME [Next]_vars
    PROVE  \A key : FannedOut(key) => FannedOutNext(key)
BY Accumulates DEF FannedOut, FannedOutNext

LEMMA BehindStep ==
    TypeOK /\ Progress /\ EventBehindEveryRow /\ [Next]_vars => EventBehindEveryRow'
<1> SUFFICES ASSUME TypeOK, Progress, EventBehindEveryRow, [Next]_vars
             PROVE  EventBehindEveryRow'
  OBVIOUS
<1>1. ASSUME NEW p \in cur, EnqueueNotification(p) PROVE EventBehindEveryRow'
  <2>1. PICK c \in chans : ledger' = ledger \cup {<<Events(p)[pos], c>>}
    BY <1>1 DEF EnqueueNotification
  <2>2. Events(p)[pos] \in stored /\ c \in RoutesOf[Events(p)[pos]]
    BY <1>1, CurrentEvents DEF EnqueueNotification, Progress
  <2>3. stored' = stored
    BY <1>1 DEF EnqueueNotification
  <2> QED
    BY <2>1, <2>2, <2>3 DEF EventBehindEveryRow
<1>2. ASSUME ledger' = ledger PROVE EventBehindEveryRow'
  BY <1>2, Accumulates DEF EventBehindEveryRow
<1>3. ASSUME NEW p, Archive(p) \/ EnqueueOutbox(p) \/ Load(p) PROVE EventBehindEveryRow'
  BY <1>2, <1>3 DEF Archive, EnqueueOutbox, Load, eventVars
<1>4. ASSUME NEW p, Apply(p) \/ Route(p) \/ OutboxDone(p) \/ OutboxDead(p) \/ OutboxRetry(p)
      PROVE EventBehindEveryRow'
  BY <1>2, <1>4 DEF Apply, Route, OutboxDone, OutboxDead, OutboxRetry, eventVars
<1>5. ASSUME NEW on, SetKill(on) PROVE EventBehindEveryRow'
  BY <1>2, <1>5 DEF SetKill, eventVars
<1>6. ASSUME NEW key, StoredByReconcile(key) PROVE EventBehindEveryRow'
  BY <1>2, <1>6 DEF StoredByReconcile
<1>7. CASE Claim \/ Prune \/ Tick \/ Raise \/ Crash \/ WorkerError \/ UNCHANGED vars
  BY <1>2, <1>7
     DEF Claim, Prune, Tick, Raise, Crash, WorkerError, WorkDropped, vars, eventVars
<1> QED
  BY <1>1, <1>3, <1>4, <1>5, <1>6, <1>7, Steps

\* Nothing but the worker disturbs what the current row has behind it.
LEMMA ProgressKept ==
    ASSUME Progress, [Next]_vars, UNCHANGED <<pc, cur, body, pos, chans, blind>>
    PROVE  Progress'
<1>1. \A p \in cur : Worked(p)' = Worked(p)
  BY DEF Worked
<1>2. \A p \in cur : pc # "raised" =>
        \A i \in DOMAIN Worked(p) : i < pos => FannedOutNext(Worked(p)[i])
  BY FannedOutStays DEF Progress
<1>3. stored \subseteq stored' /\ ledger \cup suppressed \subseteq ledger' \cup suppressed'
  BY Accumulates
<1> QED
  BY <1>1, <1>2, <1>3 DEF Progress, FannedOut, FannedOutNext

\* With no current row there is nothing to keep.
LEMMA ProgressReset ==
    ASSUME cur' = {}, pos' = 1
    PROVE  Progress'
BY DEF Progress

LEMMA ProgressStep ==
    TypeOK /\ QueueInv /\ Progress /\ [Next]_vars => Progress'
<1> SUFFICES ASSUME TypeOK, QueueInv, Progress, [Next]_vars PROVE Progress'
  OBVIOUS
<1>0. WorkType /\ NothingAcceptedIsLost /\ Lifecycle /\ ClaimsFresh
  BY TypeSplit DEF QueueInv
<1>1. ASSUME NEW p \in DOMAIN batch, p \in Posts, Load(p) PROVE Progress'
  <2>1. Readable(p) /\ Process(p) /\ pc = "rows" /\ pos = 1 /\ raw' = raw
    BY <1>0, <1>1 DEF Load, ClaimsFresh, NothingAcceptedIsLost, Progress
  <2>2. cur' = {p} /\ pos' = 1 /\ pc' \in {"raised", "event"}
    BY <2>1 DEF Process
  <2>3. body' = "redacted" <=> p \in blind'
    BY <1>0, <1>1, <2>1 DEF Process, Readable, Lifecycle
  <2>4. \A i \in DOMAIN Worked(p)' : ~(i < 1)
    <3>1. DOMAIN Worked(p)' = 1 .. Len(Worked(p)') /\ Len(Worked(p)') \in Nat
      <4>1. Worked(p)' \in Seq(Keys)
        BY <1>1, PostsAssumption, RoutingAssumption DEF Worked
      <4> QED
        BY <4>1, LenProperties
    <3> QED
      BY <3>1, SMT
  <2> QED
    BY <2>2, <2>3, <2>4 DEF Progress
<1>2. ASSUME NEW p \in cur, p \in Posts, Apply(p) PROVE Progress'
  <2>1. Events(p) = Worked(p) /\ Worked(p)' = Worked(p) /\ UNCHANGED <<cur, body, pos, blind>>
    BY <1>2, CurrentEvents DEF Apply, Worked, historyVars
  <2>2. pc = "event" /\ pc' = "routing" /\ Worked(p)[pos] \in stored'
    BY <1>2, <2>1 DEF Apply
  <2>3. pos \in DOMAIN Worked(p)
    BY <1>0, <1>2, <2>1, WorkedType, SMT DEF Apply, More, WorkType
  <2>4. \A i \in DOMAIN Worked(p) : i < pos => FannedOutNext(Worked(p)[i])
    BY <2>2, FannedOutStays DEF Progress
  <2>5. cur = {p}
    BY DEF Progress
  <2>6. (body = "redacted") <=> p \in blind
    BY DEF Progress
  <2> QED
    BY <2>1, <2>2, <2>3, <2>4, <2>5, <2>6 DEF Progress, FannedOut, FannedOutNext
\* Having fanned out the event it stands at, the row moves to the next one.
<1>3. ASSUME NEW p \in cur, p \in Posts, pc \in {"routing", "fanout"},
             pc' = "event", pos' = pos + 1, UNCHANGED <<cur, body, blind>>,
             FannedOutNext(Worked(p)[pos])
      PROVE  Progress'
  <2>1. cur = {p} /\ Worked(p)' = Worked(p) /\ ((body = "redacted") <=> p \in blind)
    BY <1>3 DEF Progress, Worked
  <2>2. \A i \in DOMAIN Worked(p) : i < pos => FannedOutNext(Worked(p)[i])
    BY <1>3, FannedOutStays DEF Progress
  <2>3. \A i \in DOMAIN Worked(p) : i < pos + 1 => i < pos \/ i = pos
    BY <1>0, <1>3, WorkedType, SMT DEF WorkType
  <2>4. \A i \in DOMAIN Worked(p) : i < pos' => FannedOutNext(Worked(p)[i])
    BY <1>3, <2>2, <2>3
  <2> QED
    BY <1>3, <2>1, <2>4 DEF Progress, FannedOut, FannedOutNext
\* While it fans out, the channels it has not come to yet are all that is open.
<1>4. ASSUME NEW p \in cur, p \in Posts, pc \in {"routing", "fanout"},
             pc' = "fanout", UNCHANGED <<cur, body, pos, blind>>,
             chans' \subseteq RoutesOf[Worked(p)[pos]],
             \A c \in RoutesOf[Worked(p)[pos]] \ chans' :
                <<Worked(p)[pos], c>> \in ledger' \cup suppressed'
      PROVE  Progress'
  <2>1. cur = {p} /\ Worked(p)' = Worked(p) /\ ((body = "redacted") <=> p \in blind)
    BY <1>4 DEF Progress, Worked
  <2>2. \A i \in DOMAIN Worked(p) : i < pos => FannedOutNext(Worked(p)[i])
    BY <1>4, FannedOutStays DEF Progress
  <2>3. pos \in DOMAIN Worked(p) /\ Worked(p)[pos] \in stored'
    BY <1>4, Accumulates DEF Progress
  <2> QED
    BY <1>4, <2>1, <2>2, <2>3 DEF Progress, FannedOut, FannedOutNext
<1>5. ASSUME NEW p \in cur, p \in Posts, Route(p) PROVE Progress'
  <2> DEFINE key == Worked(p)[pos]
             open == IF engaged THEN {} ELSE RoutesOf[key]
  <2>1. /\ pc = "routing" /\ chans' = open
        /\ suppressed' = suppressed \cup ({key} \X (RoutesOf[key] \ open))
        /\ UNCHANGED <<cur, body, blind, stored, ledger>>
    BY <1>5, CurrentEvents DEF Route, eventVars
  <2>2. \A c \in RoutesOf[key] \ chans' : <<key, c>> \in ledger' \cup suppressed'
    BY <2>1
  <2>3. CASE open = {}
    <3>1. pc' = "event" /\ pos' = pos + 1
      BY <1>5, <2>3, CurrentEvents DEF Route
    <3>2. key \in stored
      BY <2>1 DEF Progress
    <3>3. FannedOutNext(key)
      BY <2>1, <2>2, <2>3, <3>2 DEF FannedOutNext
    <3> QED
      BY <1>3, <1>5, <2>1, <3>1, <3>3
  <2>4. CASE open # {}
    <3>1. pc' = "fanout" /\ pos' = pos
      BY <1>5, <2>4, CurrentEvents DEF Route
    <3>2. chans' \subseteq RoutesOf[key]
      BY <2>1
    <3> QED
      BY <1>4, <1>5, <2>1, <2>2, <3>1, <3>2
  <2> QED
    BY <2>3, <2>4
<1>6. ASSUME NEW p \in cur, p \in Posts, EnqueueNotification(p) PROVE Progress'
  <2> DEFINE key == Worked(p)[pos]
  <2>1. PICK c \in chans :
            /\ ledger' = ledger \cup {<<key, c>>}
            /\ chans' = chans \ {c}
            /\ IF chans = {c} THEN pc' = "event" /\ pos' = pos + 1 ELSE UNCHANGED <<pc, pos>>
    BY <1>6, CurrentEvents DEF EnqueueNotification
  <2>2. pc = "fanout" /\ UNCHANGED <<cur, body, blind, stored, suppressed>>
    BY <1>6 DEF EnqueueNotification, historyVars
  <2>3. key \in stored /\ chans' \subseteq RoutesOf[key]
    BY <2>1, <2>2 DEF Progress
  <2>4. \A d \in RoutesOf[key] \ chans' : <<key, d>> \in ledger' \cup suppressed'
    BY <2>1, <2>2 DEF Progress
  <2>5. CASE chans = {c}
    <3>1. FannedOutNext(key)
      BY <2>1, <2>2, <2>3, <2>4, <2>5 DEF FannedOutNext
    <3> QED
      BY <1>3, <1>6, <2>1, <2>2, <2>5, <3>1
  <2>6. CASE chans # {c}
    BY <1>4, <1>6, <2>1, <2>2, <2>3, <2>4, <2>6
  <2> QED
    BY <2>5, <2>6
<1>7. ASSUME NEW p \in DOMAIN batch, OutboxDone(p) \/ OutboxDead(p) \/ OutboxRetry(p)
      PROVE Progress'
  BY <1>7, ProgressReset DEF OutboxDone, OutboxDead, OutboxRetry, Recorded
<1>8. CASE Raise
  BY <1>8 DEF Raise, Progress, historyVars
<1>9. CASE Crash \/ WorkerError
  BY <1>9, ProgressReset DEF Crash, WorkerError, WorkDropped
<1>10. CASE Claim
  <2>1. cur = {} /\ pos = 1
    BY <1>0, <1>10, SMT DEF Claim, WorkType, Progress, Busy
  <2> QED
    BY <1>10, <2>1, ProgressReset DEF Claim
<1>11. ASSUME NEW p \in Posts, Archive(p) \/ EnqueueOutbox(p) PROVE Progress'
  BY <1>11, ProgressKept DEF Archive, EnqueueOutbox, workVars, historyVars
<1>12. ASSUME NEW on, SetKill(on) PROVE Progress'
  BY <1>12, ProgressKept DEF SetKill, workVars, historyVars
<1>13. ASSUME NEW key, StoredByReconcile(key) PROVE Progress'
  BY <1>13, ProgressKept DEF StoredByReconcile, workVars, historyVars
<1>14. CASE Prune \/ Tick \/ UNCHANGED vars
  BY <1>14, ProgressKept DEF Prune, Tick, vars, workVars, historyVars
<1> QED
  BY <1>1, <1>2, <1>5, <1>6, <1>7, <1>8, <1>9, <1>10, <1>11, <1>12, <1>13, <1>14, Steps

-----------------------------------------------------------------------------
\* Settled rows

\* What a done row has behind it stays behind it: its events are the same and
\* stay fanned out.
LEMMA DoneStays ==
    ASSUME [Next]_vars, DoneMeansFannedOut, NEW p \in Posts,
           box[p] \in {"done", "deleted"}, Worked(p)' = Worked(p)
    PROVE  \A i \in DOMAIN Worked(p)' : FannedOut(Worked(p)[i])'
<1>1. \A i \in DOMAIN Worked(p) : FannedOutNext(Worked(p)[i])
  BY FannedOutStays DEF DoneMeansFannedOut
<1> QED
  BY <1>1 DEF FannedOut, FannedOutNext

LEMMA DoneStep ==
    TypeOK /\ QueueInv /\ Progress /\ DoneMeansFannedOut /\ [Next]_vars
        => DoneMeansFannedOut'
<1> SUFFICES ASSUME TypeOK, QueueInv, Progress, DoneMeansFannedOut, [Next]_vars,
                    NEW p \in Posts, box'[p] \in {"done", "deleted"}
             PROVE  \A i \in DOMAIN Worked(p)' : FannedOut(Worked(p)[i])'
  BY DEF DoneMeansFannedOut
<1>0. TableType /\ WorkType /\ NothingAcceptedIsLost /\ Lifecycle /\ ClaimsFresh
  BY TypeSplit DEF QueueInv
<1>1. CASE box[p] \in {"done", "deleted"} /\ (p \in blind' <=> p \in blind)
  BY <1>1, DoneStays DEF Worked
<1>2. ASSUME NEW q \in DOMAIN batch, q \in Posts, Load(q)
      PROVE  box[p] \in {"done", "deleted"} /\ (p \in blind' <=> p \in blind)
  <2>1. Readable(q) /\ box[q] = "pending"
    BY <1>0, <1>2 DEF ClaimsFresh, NothingAcceptedIsLost
  <2> QED
    BY <1>2, <2>1 DEF Load, Process
<1>3. ASSUME NEW q \in cur, q \in Posts, OutboxDone(q), q = p
      PROVE  \A i \in DOMAIN Worked(p)' : FannedOut(Worked(p)[i])'
  <2>1. Worked(p)' = Worked(p)
    BY <1>3 DEF OutboxDone, Worked, historyVars
  <2>2. Events(p) = Worked(p) /\ pc = "event" /\ ~More(p)
    BY <1>3, CurrentEvents DEF OutboxDone
  <2>3. \A i \in DOMAIN Worked(p) : i < pos
    BY <1>0, <2>2, WorkedType, SMT DEF More, WorkType
  <2>4. \A i \in DOMAIN Worked(p) : FannedOutNext(Worked(p)[i])
    BY <1>3, <2>2, <2>3, FannedOutStays DEF Progress
  <2> QED
    BY <2>1, <2>4 DEF FannedOut, FannedOutNext
\* Any other step that leaves the row done found it done.
<1>4. ASSUME NEW q \in Posts, Archive(q) \/ EnqueueOutbox(q)
      PROVE  box[p] \in {"done", "deleted"} /\ (p \in blind' <=> p \in blind)
  BY <1>0, <1>4 DEF Archive, EnqueueOutbox, TableType, historyVars
<1>5. ASSUME NEW q \in Posts, \/ OutboxDone(q) /\ q # p
                              \/ OutboxDead(q) \/ OutboxRetry(q)
      PROVE  box[p] \in {"done", "deleted"} /\ (p \in blind' <=> p \in blind)
  BY <1>0, <1>5 DEF OutboxDone, OutboxDead, OutboxRetry, TableType, historyVars
<1>6. ASSUME NEW q, Apply(q) \/ Route(q) \/ EnqueueNotification(q)
      PROVE  box[p] \in {"done", "deleted"} /\ (p \in blind' <=> p \in blind)
  BY <1>6 DEF Apply, Route, EnqueueNotification, tableVars, historyVars
<1>7. ASSUME NEW on, SetKill(on)
      PROVE  box[p] \in {"done", "deleted"} /\ (p \in blind' <=> p \in blind)
  BY <1>7 DEF SetKill, tableVars, historyVars
<1>8. ASSUME NEW key, StoredByReconcile(key)
      PROVE  box[p] \in {"done", "deleted"} /\ (p \in blind' <=> p \in blind)
  BY <1>8 DEF StoredByReconcile, tableVars, historyVars
<1>9. CASE Prune
  BY <1>0, <1>1, <1>9 DEF Prune, TableType, historyVars
<1>10. CASE Claim \/ Tick \/ Raise \/ Crash \/ WorkerError \/ UNCHANGED vars
  BY <1>1, <1>10
     DEF Claim, Tick, Raise, Crash, WorkerError, WorkDropped, vars, tableVars, historyVars
<1> QED
  BY <1>1, <1>2, <1>3, <1>4, <1>5, <1>6, <1>7, <1>8, <1>9, <1>10, Steps

\* What the posts have been charged with.
ChargeInv == DeadOnlyWithCause /\ RaisePaid /\ FailuresArePaid

LEMMA ChargeStep ==
    TypeOK /\ QueueInv /\ Progress /\ ChargeInv /\ [Next]_vars => ChargeInv'
<1> SUFFICES ASSUME TypeOK, QueueInv, Progress, ChargeInv, [Next]_vars
             PROVE  ChargeInv'
  OBVIOUS
<1> USE BoundsAssumption
<1>0. /\ TableType /\ WorkType /\ RestType
      /\ NothingAcceptedIsLost /\ ClaimsFresh
      /\ DeadOnlyWithCause /\ RaisePaid /\ FailuresArePaid
  BY TypeSplit DEF QueueInv, ChargeInv
<1>1. ASSUME NEW p \in Posts, EnqueueOutbox(p) PROVE ChargeInv'
  <2>1. DeadOnlyWithCause'
    BY <1>0, <1>1 DEF EnqueueOutbox, TableType, DeadOnlyWithCause
  <2>2. RaisePaid' /\ FailuresArePaid'
    BY <1>0, <1>1 DEF EnqueueOutbox, workVars, RaisePaid, FailuresArePaid
  <2> QED
    BY <2>1, <2>2 DEF ChargeInv
<1>2. ASSUME NEW p \in DOMAIN batch, p \in Posts, Load(p) PROVE ChargeInv'
  <2>1. Readable(p)
    BY <1>0, <1>2 DEF ClaimsFresh, NothingAcceptedIsLost
  <2>2. /\ UNCHANGED <<box, attempts, faults>>
        /\ cur' = {p}
        /\ pc' = "raised" => p \in Poison
    BY <1>2, <2>1 DEF Load, Process
  <2> QED
    BY <1>0, <2>2 DEF ChargeInv, DeadOnlyWithCause, RaisePaid, FailuresArePaid
<1>3. ASSUME NEW p \in DOMAIN batch, p \in Posts, OutboxDone(p) PROVE ChargeInv'
  <2>1. DeadOnlyWithCause'
    BY <1>0, <1>3 DEF OutboxDone, TableType, DeadOnlyWithCause
  <2>2. RaisePaid' /\ FailuresArePaid'
    BY <1>0, <1>3 DEF OutboxDone, Recorded, RaisePaid, FailuresArePaid
  <2> QED
    BY <2>1, <2>2 DEF ChargeInv
<1>4. ASSUME NEW p \in cur, p \in Posts, pc = "raised", Recorded(p), faults' = faults,
             attempts' = [attempts EXCEPT ![p] = @ + 1]
      PROVE  RaisePaid' /\ FailuresArePaid'
  <2>1. RaisePaid'
    BY <1>4 DEF Recorded, RaisePaid
  <2>2. ASSUME NEW q \in Posts \ Poison PROVE attempts'[q] <= faults
    <3>1. CASE q = p
      <4>1. attempts[p] < faults
        BY <1>0, <1>4, <3>1 DEF RaisePaid
      <4> QED
        BY <1>0, <1>4, <3>1, <4>1, SMT DEF TableType, RestType
    <3>2. CASE q # p
      BY <1>0, <1>4, <3>2 DEF TableType, FailuresArePaid
    <3> QED
      BY <3>1, <3>2
  <2> QED
    BY <1>4, <2>1, <2>2 DEF FailuresArePaid
<1>5. ASSUME NEW p \in cur, p \in Posts, p \in DOMAIN batch, OutboxDead(p)
      PROVE  ChargeInv'
  <2>1. batch[p] = attempts[p]
    BY <1>0, <1>5 DEF ClaimsFresh
  <2>2. attempts'[p] >= MaxAttempts
    BY <1>0, <1>5, <2>1, SMT DEF OutboxDead, LastAttempt, TableType
  <2>3. \A q \in Posts \ {p} : box'[q] = box[q] /\ attempts'[q] = attempts[q]
    BY <1>0, <1>5 DEF OutboxDead, TableType
  <2>4. DeadOnlyWithCause'
    BY <1>0, <2>2, <2>3 DEF DeadOnlyWithCause
  <2> QED
    BY <1>4, <1>5, <2>4 DEF OutboxDead, ChargeInv
<1>6. ASSUME NEW p \in cur, p \in Posts, OutboxRetry(p) PROVE ChargeInv'
  <2>1. \A q \in Posts : box'[q] = box[q] /\ attempts'[q] >= attempts[q]
    BY <1>0, <1>6, SMT DEF OutboxRetry, TableType
  <2>2. attempts' \in [Posts -> Nat]
    BY <1>0, <1>6, SMT DEF OutboxRetry, TableType
  <2>3. DeadOnlyWithCause'
    BY <1>0, <2>1, <2>2, SMT DEF DeadOnlyWithCause, TableType
  <2> QED
    BY <1>4, <1>6, <2>3 DEF OutboxRetry, ChargeInv
\* A fault pays for the attempt it is going to cost, or for nothing.
<1>7. CASE Raise
  <2>1. faults' = faults + 1 /\ UNCHANGED <<box, attempts, cur>>
    BY <1>7 DEF Raise, tableVars
  <2>2. ASSUME NEW p \in Posts \ Poison PROVE attempts[p] < faults'
    BY <1>0, <2>1, <2>2, SMT DEF FailuresArePaid, TableType, RestType
  <2>3. ASSUME NEW p \in Posts \ Poison PROVE attempts[p] <= faults'
    BY <1>0, <2>1, <2>2, SMT DEF FailuresArePaid, TableType, RestType
  <2> QED
    BY <1>0, <2>1, <2>2, <2>3
       DEF ChargeInv, DeadOnlyWithCause, RaisePaid, FailuresArePaid, WorkType
<1>8. CASE Crash \/ WorkerError
  <2>1. faults' = faults + 1 /\ pc' = "idle" /\ UNCHANGED <<box, attempts>>
    BY <1>8 DEF Crash, WorkerError, WorkDropped, tableVars
  <2>2. ASSUME NEW p \in Posts \ Poison PROVE attempts[p] <= faults'
    BY <1>0, <2>1, <2>2, SMT DEF FailuresArePaid, TableType, RestType
  <2> QED
    BY <1>0, <2>1, <2>2 DEF ChargeInv, DeadOnlyWithCause, RaisePaid, FailuresArePaid
<1>9. CASE Prune
  BY <1>0, <1>9
     DEF Prune, TableType, workVars, ChargeInv, DeadOnlyWithCause, RaisePaid, FailuresArePaid
<1>10. ASSUME UNCHANGED <<box, attempts, faults>>, pc' # "raised" \/ UNCHANGED <<pc, cur>>
       PROVE  ChargeInv'
  BY <1>0, <1>10 DEF ChargeInv, DeadOnlyWithCause, RaisePaid, FailuresArePaid
<1>11. ASSUME NEW p \in Posts, Archive(p) PROVE ChargeInv'
  BY <1>10, <1>11 DEF Archive, workVars
<1>12. ASSUME NEW p, Apply(p) \/ Route(p) \/ EnqueueNotification(p) PROVE ChargeInv'
  BY <1>10, <1>12 DEF Apply, Route, EnqueueNotification, tableVars
<1>13. ASSUME NEW on, SetKill(on) PROVE ChargeInv'
  BY <1>10, <1>13 DEF SetKill, tableVars, workVars
<1>14. ASSUME NEW key, StoredByReconcile(key) PROVE ChargeInv'
  BY <1>10, <1>14 DEF StoredByReconcile, tableVars, workVars
<1>15. CASE Claim \/ Tick \/ UNCHANGED vars
  BY <1>10, <1>15 DEF Claim, Tick, vars, tableVars, workVars
<1> QED
  BY <1>1, <1>2, <1>3, <1>5, <1>6, <1>7, <1>8, <1>9, <1>11, <1>12, <1>13, <1>14, <1>15, Steps

-----------------------------------------------------------------------------
\* The theorems

LEMMA InvInit == Init => IInv
<1> SUFFICES ASSUME Init PROVE IInv
  OBVIOUS
<1>1. TypeOK
  BY TypeInit
<1>2. NothingAcceptedIsLost /\ Lifecycle /\ ClaimsFresh
  BY SMT DEF Init, NothingAcceptedIsLost, Lifecycle, ClaimsFresh, NoBatch
<1>3. EventBehindEveryRow /\ Progress /\ DoneMeansFannedOut
  BY DEF Init, EventBehindEveryRow, Progress, DoneMeansFannedOut
<1>4. DeadOnlyWithCause /\ RaisePaid /\ FailuresArePaid
  BY SMT DEF Init, DeadOnlyWithCause, RaisePaid, FailuresArePaid
<1> QED
  BY <1>1, <1>2, <1>3, <1>4 DEF IInv

LEMMA InvStep == IInv /\ [Next]_vars => IInv'
BY TypeStep, QueueStep, BehindStep, ProgressStep, DoneStep, ChargeStep
   DEF IInv, QueueInv, ChargeInv

LEMMA InvHolds == Spec => []IInv
BY InvInit, InvStep, PTL DEF Spec

\* The types of TypeOK hold in every reachable state of every instance.  They are
\* not inductive alone: what the worker routes has to be an event of its row.
THEOREM TypeCorrect == Spec => []TypeOK
BY InvHolds, PTL DEF IInv

\* A post answered with 202 keeps its outbox row, and every outbox row its body,
\* through crashes, prunes and stuck rows (outbox.py:41-44).
THEOREM AcceptedKept == Spec => []NothingAcceptedIsLost
BY InvHolds, PTL DEF IInv

\* A done outbox row means that every event of its post is stored and enqueued or
\* suppressed in every channel, for any number of crashes and store errors.
THEOREM DoneIsComplete == Spec => []DoneMeansFannedOut
BY InvHolds, PTL DEF IInv

\* No ledger row is without its event or outside its routing.
THEOREM RowsHaveEvents == Spec => []EventBehindEveryRow
BY InvHolds, PTL DEF IInv

\* A row goes dead for its body or for its attempts, and for nothing else.
THEOREM DeathHasCause == Spec => []DeadOnlyWithCause
BY InvHolds, PTL DEF IInv

\* The attempts of a good post are paid for by faults, whatever else is in its batch.
THEOREM FailuresPaid == Spec => []FailuresArePaid
BY InvHolds, PTL DEF IInv

\* A body is only read redacted past its retention.
THEOREM BlindOnlyExpired == Spec => []OnlyExpiredReadBlind
<1>1. IInv => OnlyExpiredReadBlind
  BY DEF IInv, TypeOK, Lifecycle, OnlyExpiredReadBlind
<1> QED
  BY <1>1, InvHolds, PTL

\* A step of anybody leaves settled outbox rows settled.
LEMMA SettledStep ==
    IInv /\ [Next]_vars =>
        \A p \in Posts :
            /\ box[p] = "done" => box'[p] \in {"done", "deleted"}
            /\ box[p] \in {"dead", "deleted"} => box'[p] = box[p]
<1> SUFFICES ASSUME IInv, [Next]_vars, NEW p \in Posts
             PROVE  /\ box[p] = "done" => box'[p] \in {"done", "deleted"}
                    /\ box[p] \in {"dead", "deleted"} => box'[p] = box[p]
  OBVIOUS
<1>0. TypeOK /\ TableType /\ Lifecycle /\ ClaimsFresh /\ NothingAcceptedIsLost
  BY TypeSplit DEF IInv
<1>1. ASSUME NEW q \in Posts, EnqueueOutbox(q)
      PROVE  box[p] # "none" => box'[p] = box[p]
  BY <1>0, <1>1 DEF EnqueueOutbox, Lifecycle, TableType
<1>2. ASSUME NEW q \in DOMAIN batch, q \in Posts, Load(q) PROVE box' = box
  <2>1. Readable(q)
    BY <1>0, <1>2 DEF ClaimsFresh, NothingAcceptedIsLost
  <2> QED
    BY <1>2, <2>1 DEF Load, Process
<1>3. ASSUME NEW q \in DOMAIN batch, OutboxDone(q) \/ OutboxDead(q) \/ OutboxRetry(q)
      PROVE  box[p] # "pending" => box'[p] = box[p]
  <2>1. box[q] = "pending"
    BY <1>0, <1>3 DEF ClaimsFresh
  <2> QED
    BY <1>0, <1>3, <2>1 DEF OutboxDone, OutboxDead, OutboxRetry, TableType
<1>4. CASE Prune
  BY <1>0, <1>4 DEF Prune, TableType
<1>5. ASSUME NEW q, Archive(q) \/ Apply(q) \/ Route(q) \/ EnqueueNotification(q)
      PROVE  box' = box
  BY <1>5 DEF Archive, Apply, Route, EnqueueNotification, tableVars
<1>6. ASSUME NEW on, SetKill(on) PROVE box' = box
  BY <1>6 DEF SetKill, tableVars
<1>7. ASSUME NEW key, StoredByReconcile(key) PROVE box' = box
  BY <1>7 DEF StoredByReconcile, tableVars
<1>8. CASE Claim \/ Tick \/ Raise \/ Crash \/ WorkerError \/ UNCHANGED vars
  BY <1>8 DEF Claim, Tick, Raise, Crash, WorkerError, WorkDropped, vars, tableVars
<1> QED
  BY <1>0, <1>1, <1>2, <1>3, <1>4, <1>5, <1>6, <1>7, <1>8, Steps

\* A settled outbox row is never reopened, not even by a pass that claimed it
\* before: its claim would have to be stale.
THEOREM SettledForGood == Spec => OutboxSettled
<1>1. IInv /\ [Next]_vars =>
        [\A p \in Posts :
            /\ box[p] = "done" => box'[p] \in {"done", "deleted"}
            /\ box[p] \in {"dead", "deleted"} => box'[p] = box[p]]_vars
  BY SettledStep
<1> QED
  BY <1>1, InvHolds, PTL DEF Spec, OutboxSettled
-----------------------------------------------------------------------------
\* The account: Ingest implements Intake

\* What is worked off is the body of a post that can be read, or no body.
ReadsOnlyReadable ==
    pc \in {"event", "routing", "fanout"} => body = "redacted" \/ cur \cap Poison = {}

AccountInv == IInv /\ ReadsOnlyReadable

LEMMA ReadableStep == AccountInv /\ [Next]_vars => ReadsOnlyReadable'
<1> SUFFICES ASSUME AccountInv, [Next]_vars PROVE ReadsOnlyReadable'
  OBVIOUS
<1>0. TypeOK /\ NothingAcceptedIsLost /\ ClaimsFresh /\ ReadsOnlyReadable
  BY DEF AccountInv, IInv
<1>1. ASSUME NEW p \in DOMAIN batch, p \in Posts, Load(p) PROVE ReadsOnlyReadable'
  <2>1. Readable(p)
    BY <1>0, <1>1 DEF ClaimsFresh, NothingAcceptedIsLost
  <2>2. Process(p)
    BY <1>1, <2>1 DEF Load
  <2>3. CASE raw[p] = "redacted"
    BY <2>2, <2>3 DEF Process, ReadsOnlyReadable
  <2>4. CASE raw[p] = "kept"
    BY <2>2, <2>4 DEF Process, ReadsOnlyReadable
  <2> QED
    BY <2>1, <2>3, <2>4 DEF Readable
<1>2. ASSUME UNCHANGED <<body, cur>>,
             pc \in {"event", "routing", "fanout"} \/ UNCHANGED pc
      PROVE  ReadsOnlyReadable'
  BY <1>0, <1>2 DEF ReadsOnlyReadable
<1>3. ASSUME pc' \in {"idle", "rows", "raised"} PROVE ReadsOnlyReadable'
  BY <1>3 DEF ReadsOnlyReadable
<1>4. ASSUME NEW p, Apply(p) \/ Route(p) \/ EnqueueNotification(p) PROVE ReadsOnlyReadable'
  BY <1>2, <1>4 DEF Apply, Route, EnqueueNotification
<1>5. ASSUME NEW p, OutboxDone(p) \/ OutboxDead(p) \/ OutboxRetry(p) PROVE ReadsOnlyReadable'
  BY <1>3, <1>5 DEF OutboxDone, OutboxDead, OutboxRetry, Recorded
<1>6. ASSUME NEW p, Archive(p) \/ EnqueueOutbox(p) PROVE ReadsOnlyReadable'
  BY <1>2, <1>6 DEF Archive, EnqueueOutbox, workVars
<1>7. ASSUME NEW on, SetKill(on) PROVE ReadsOnlyReadable'
  BY <1>2, <1>7 DEF SetKill, workVars
<1>8. ASSUME NEW key, StoredByReconcile(key) PROVE ReadsOnlyReadable'
  BY <1>2, <1>8 DEF StoredByReconcile, workVars
<1>9. CASE Prune \/ Tick \/ UNCHANGED vars
  BY <1>2, <1>9 DEF Prune, Tick, vars, workVars
<1>10. CASE Claim \/ Raise \/ Crash \/ WorkerError
  BY <1>3, <1>10 DEF Claim, Raise, Crash, WorkerError, WorkDropped
<1> QED
  BY <1>0, <1>1, <1>4, <1>5, <1>6, <1>7, <1>8, <1>9, <1>10, Steps

LEMMA AccountInvHolds == Spec => []AccountInv
<1>1. Init => ReadsOnlyReadable
  BY DEF Init, ReadsOnlyReadable
<1>2. AccountInv /\ [Next]_vars => AccountInv'
  BY InvStep, ReadableStep DEF AccountInv
<1> QED
  BY <1>1, <1>2, InvInit, PTL DEF Spec, AccountInv

\* The life of every post, and the posts without a body, as Intake sees them.
Life == [p \in Posts |-> IF box[p] = "deleted" THEN "done" ELSE box[p]]
Old == {p \in Posts : raw[p] \in {"redacted", "gone"}}

\* An outbox row in the same state is the same life.
LEMMA SameLife ==
    ASSUME \A p \in Posts : box'[p] = box[p]
    PROVE  Life' = Life
BY DEF Life

\* One row in another state is one life changed.
LEMMA LifeMoves ==
    ASSUME TypeOK, NEW p \in Posts, NEW state, state # "deleted",
           box' = [box EXCEPT ![p] = state]
    PROVE  Life' = [Life EXCEPT ![p] = state]
<1>1. \A q \in Posts : box'[q] = IF q = p THEN state ELSE box[q]
  BY DEF TypeOK
<1> QED
  BY <1>1 DEF Life

\* What the worker has in hand is a pending post, and what it says one of the
\* things the post may be read as.
LEMMA InHand ==
    ASSUME AccountInv, NEW p \in cur
    PROVE  /\ p \in Posts /\ box[p] = "pending" /\ Life[p] = "pending"
           /\ batch[p] = attempts[p]
           /\ Events(p) \in Seq(Keys)
           /\ pc \in {"event", "routing", "fanout"} => Events(p) \in Account!Readings(p)
<1>1. /\ TypeOK /\ Lifecycle /\ ClaimsFresh /\ Progress /\ ReadsOnlyReadable
      /\ p \in DOMAIN batch /\ p \in Posts
  BY DEF AccountInv, IInv, TypeOK
<1>2. box[p] = "pending" /\ batch[p] = attempts[p]
  BY <1>1 DEF ClaimsFresh
<1>3. Events(p) \in Seq(Keys)
  BY <1>1, CurrentEvents, WorkedType
<1>4. ASSUME body = "redacted" PROVE Events(p) \in Account!Readings(p)
  <2>1. raw[p] \in {"redacted", "gone"}
    BY <1>1, <1>4 DEF Progress, Lifecycle
  <2> QED
    BY <1>1, <1>4, <2>1 DEF Account!Readings, Events
<1>5. ASSUME body # "redacted", pc \in {"event", "routing", "fanout"}
      PROVE  Events(p) \in Account!Readings(p)
  <2>1. p \notin Poison
    BY <1>1, <1>5 DEF ReadsOnlyReadable
  <2> QED
    BY <1>5, <2>1 DEF Account!Readings, Events
<1> QED
  BY <1>1, <1>2, <1>3, <1>4, <1>5 DEF Life

\* An event the worker stands at is one of those of the post.
LEMMA Said ==
    ASSUME AccountInv, NEW p \in cur,
           \/ pc = "event" /\ More(p)
           \/ pc \in {"routing", "fanout"}
    PROVE  /\ pos \in DOMAIN Events(p)
           /\ Events(p)[pos] \in Keys
           /\ Events(p)[pos] \in Range(Events(p))
<1>1. TypeOK /\ Progress
  BY DEF AccountInv, IInv
<1>2. Events(p) \in Seq(Keys) /\ Events(p) = Worked(p)
  BY <1>1, InHand, CurrentEvents
<1>3. pos \in DOMAIN Events(p)
  <2>1. CASE pc = "event" /\ More(p)
    BY <1>1, <1>2, <2>1, SMT DEF More, TypeOK
  <2>2. CASE pc \in {"routing", "fanout"}
    BY <1>1, <1>2, <2>2 DEF Progress
  <2> QED
    BY <2>1, <2>2
<1> QED
  BY <1>2, <1>3, ElementOfSeq, SMT DEF Range

\* The handler's second write accepts a post.
LEMMA EnqueueAccepts ==
    ASSUME IInv, NEW p \in Posts, EnqueueOutbox(p)
    PROVE  Account!Accept(p)
<1>1. Life[p] = "none"
  BY DEF IInv, Lifecycle, EnqueueOutbox, Life
<1>2. Life' = [Life EXCEPT ![p] = IF p \in Invalid THEN "dead" ELSE "pending"]
  BY LifeMoves DEF IInv, EnqueueOutbox
<1> QED
  BY <1>1, <1>2 DEF EnqueueOutbox, eventVars, historyVars, Life, Account!Accept

\* The worker's steps on its current row are the account's on that post.
LEMMA WorkerAccounts ==
    ASSUME AccountInv, NEW p \in cur,
           \/ Apply(p) \/ Route(p) \/ EnqueueNotification(p)
           \/ OutboxDone(p) \/ OutboxDead(p) \/ OutboxRetry(p)
    PROVE  [Account!Next]_(Account!account)
<1> DEFINE key == Events(p)[pos]
<1>0. /\ p \in Posts /\ box[p] = "pending" /\ Life[p] = "pending"
      /\ batch[p] = attempts[p]
      /\ TypeOK /\ Progress
  BY InHand DEF AccountInv, IInv
<1>1. CASE Apply(p)
  <2>1. key \in Keys /\ key \in Range(Events(p)) /\ Events(p) \in Account!Readings(p)
    BY <1>1, InHand, Said DEF Apply
  <2>2. Life' = Life
    BY <1>1, SameLife DEF Apply, tableVars
  <2>3. \E q \in Posts :
            /\ Life[q] = "pending"
            /\ \E said \in Account!Readings(q) : key \in Range(said)
    BY <1>0, <2>1
  <2>4. Account!Learn(key)
    BY <1>1, <2>2, <2>3
       DEF Apply, tableVars, historyVars, Life, Range, Account!Range, Account!Learn
  <2> QED
    BY <2>1, <2>4 DEF Account!Next
<1>2. CASE Route(p)
  <2>1. key \in Keys /\ key \in stored
    BY <1>0, <1>2, Said, CurrentEvents DEF Route, Progress
  <2>2. Life' = Life
    BY <1>2, SameLife DEF Route, tableVars
  <2>3. CASE engaged
    <3>1. suppressed' = suppressed \cup ({key} \X RoutesOf[key])
      BY <1>2, <2>3 DEF Route
    <3>2. Account!Silence(key)
      BY <1>2, <2>1, <2>2, <2>3, <3>1
         DEF Route, tableVars, eventVars, Life, Account!Silence
    <3> QED
      BY <2>1, <3>2 DEF Account!Next
  <2>4. CASE ~engaged
    <3>1. suppressed' = suppressed
      BY <1>2, <2>4 DEF Route
    <3> QED
      BY <1>2, <2>2, <3>1 DEF Route, tableVars, eventVars, Life, Account!account
  <2> QED
    BY <2>3, <2>4
<1>3. CASE EnqueueNotification(p)
  <2>1. key \in Keys /\ key \in stored /\ chans \subseteq RoutesOf[key]
    BY <1>0, <1>3, Said, CurrentEvents DEF EnqueueNotification, Progress
  <2>2. Life' = Life
    BY <1>3, SameLife DEF EnqueueNotification, tableVars
  <2>3. Account!Announce(key)
    BY <1>3, <2>1, <2>2
       DEF EnqueueNotification, tableVars, historyVars, Life, Account!Announce
  <2> QED
    BY <2>1, <2>3 DEF Account!Next
<1>4. CASE OutboxDone(p)
  <2>1. Events(p) \in Account!Readings(p) /\ Events(p) = Worked(p)
    BY <1>0, <1>4, InHand, CurrentEvents DEF OutboxDone
  <2>2. ASSUME NEW said \in Range(Events(p)) PROVE Account!Told(said)
    <3>1. PICK i \in DOMAIN Worked(p) : said = Worked(p)[i]
      BY <2>1, <2>2 DEF Range
    <3>2. i < pos
      BY <1>0, <1>4, <2>1, WorkedType, SMT DEF OutboxDone, More, TypeOK
    <3>3. FannedOut(said)
      BY <1>0, <1>4, <3>1, <3>2 DEF OutboxDone, Progress
    <3> QED
      BY <3>3 DEF FannedOut, Account!Told
  <2>3. Life' = [Life EXCEPT ![p] = "done"]
    BY <1>0, <1>4, LifeMoves DEF OutboxDone
  <2>4. \E said \in Account!Readings(p) : \A k \in Range(said) : Account!Told(k)
    BY <2>1, <2>2
  <2>5. Account!Finish(p)
    BY <1>0, <1>4, <2>3, <2>4
       DEF OutboxDone, eventVars, historyVars, Life, Range, Account!Range,
           Account!Finish
  <2> QED
    BY <1>0, <2>5 DEF Account!Next
<1>5. CASE OutboxDead(p)
  <2>1. attempts' = [attempts EXCEPT ![p] = @ + 1] /\ attempts'[p] >= MaxAttempts
    BY <1>0, <1>5, SMT DEF OutboxDead, LastAttempt, TypeOK
  <2>2. Life' = [Life EXCEPT ![p] = "dead"]
    BY <1>0, <1>5, LifeMoves DEF OutboxDead
  <2>3. Account!Fail(p)
    BY <1>0, <1>5, <2>1, <2>2 DEF OutboxDead, eventVars, historyVars, Life, Account!Fail
  <2> QED
    BY <1>0, <2>3 DEF Account!Next
<1>6. CASE OutboxRetry(p)
  <2>1. attempts' = [attempts EXCEPT ![p] = @ + 1] /\ ~(attempts'[p] >= MaxAttempts)
    BY <1>0, <1>6, SMT DEF OutboxRetry, LastAttempt, TypeOK
  <2>2. Life' = Life
    BY <1>6, SameLife DEF OutboxRetry
  <2>3. Account!Fail(p)
    BY <1>0, <1>6, <2>1, <2>2 DEF OutboxRetry, eventVars, historyVars, Life, Account!Fail
  <2> QED
    BY <1>0, <2>3 DEF Account!Next
<1> QED
  BY <1>1, <1>2, <1>3, <1>4, <1>5, <1>6

\* A prune takes bodies away and ends no life.
LEMMA PruneExpires ==
    ASSUME TypeOK, Prune
    PROVE  \E old \in SUBSET Posts : Account!Expire(old)
<1>1. Life' = Life
  <2>1. ASSUME NEW p \in Posts
        PROVE  box'[p] = box[p] \/ (box[p] = "done" /\ box'[p] = "deleted")
    BY <2>1 DEF Prune
  <2> QED
    BY <2>1 DEF Life
<1>2. PICK old \in SUBSET Posts : Old \subseteq old /\ old = Old'
  BY DEF Prune, Old
<1>3. Account!Expire(old)
  BY <1>1, <1>2 DEF Prune, eventVars, historyVars, Life, Old, Account!Expire
<1> QED
  BY <1>3

\* Every step of the inbound half is a step of the account or none.
LEMMA AccountStep == AccountInv /\ [Next]_vars => [Account!Next]_(Account!account)
<1> SUFFICES ASSUME AccountInv, [Next]_vars
             PROVE  Account!Next \/ UNCHANGED Account!account
  OBVIOUS
<1>0. IInv /\ TypeOK /\ Lifecycle /\ NothingAcceptedIsLost /\ ClaimsFresh
  BY DEF AccountInv, IInv
<1>1. ASSUME NEW p \in Posts, Archive(p) PROVE UNCHANGED Account!account
  <2>1. \A q \in Posts : raw'[q] \in {"redacted", "gone"} <=> raw[q] \in {"redacted", "gone"}
    BY <1>0, <1>1 DEF Archive, TypeOK
  <2>2. Old' = Old
    BY <2>1 DEF Old
  <2> QED
    BY <1>1, <2>2, SameLife
       DEF Archive, eventVars, historyVars, Life, Old, Account!account
<1>2. ASSUME NEW p \in Posts, EnqueueOutbox(p) PROVE Account!Next
  BY <1>0, <1>2, EnqueueAccepts DEF Account!Next
<1>3. ASSUME NEW p \in DOMAIN batch, p \in Posts, Load(p) PROVE UNCHANGED Account!account
  <2>1. Readable(p)
    BY <1>0, <1>3 DEF ClaimsFresh, NothingAcceptedIsLost
  <2> QED
    BY <1>3, <2>1 DEF Load, Process, eventVars, Account!account
<1>4. ASSUME NEW p \in cur,
             \/ Apply(p) \/ Route(p) \/ EnqueueNotification(p)
             \/ OutboxDone(p) \/ OutboxDead(p) \/ OutboxRetry(p)
      PROVE  Account!Next \/ UNCHANGED Account!account
  BY <1>4, WorkerAccounts
<1>5. ASSUME NEW on \in BOOLEAN, SetKill(on) PROVE Account!Next
  <2>1. Account!Quieten(on)
    BY <1>5 DEF SetKill, tableVars, eventVars, historyVars, Account!Quieten
  <2> QED
    BY <1>5, <2>1 DEF Account!Next
<1>6. ASSUME NEW key \in Missed, StoredByReconcile(key) PROVE Account!Next
  <2>1. Account!Learn(key) /\ key \in Keys
    BY <1>6, PostsAssumption
       DEF StoredByReconcile, tableVars, historyVars, Account!Learn
  <2> QED
    BY <2>1 DEF Account!Next
<1>7. CASE Prune
  BY <1>0, <1>7, PruneExpires DEF Account!Next
<1>8. CASE Claim \/ Tick \/ Raise \/ Crash \/ WorkerError \/ UNCHANGED vars
  BY <1>8 DEF Claim, Tick, Raise, Crash, WorkerError, WorkDropped, vars,
              tableVars, eventVars, historyVars, Account!account
<1> QED
  BY <1>0, <1>1, <1>2, <1>3, <1>4, <1>5, <1>6, <1>7, <1>8, Steps

\* The archive, the queue, the worker and its crashes and retries implement Intake:
\* a post is settled once, done only with everything it says told, dead only for its
\* failures or its body, and every row and every silence has its event.
THEOREM AccountKept == Spec => KeepsAccount
<1>1. Init => Account!Init
  BY DEF Init, Account!Init
<1>2. AccountInv /\ [Next]_vars => [Account!Next]_(Account!account)
  BY AccountStep
<1> QED
  BY <1>1, <1>2, AccountInvHolds, PTL DEF Spec, KeepsAccount, Account!Spec
=============================================================================
