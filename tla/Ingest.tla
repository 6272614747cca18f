------------------------------- MODULE Ingest -------------------------------
(***************************************************************************)
(* The inbound half of Costanza: the webhook handler archives a post and   *)
(* queues it, the outbox worker turns it into canonical events and ledger  *)
(* rows, the prune job lets raw bodies expire, and the kill switch decides *)
(* at enqueue time whether a row is created at all.                        *)
(*                                                                         *)
(* The handler runs on the event loop, the worker, the prune job, the kill *)
(* switch endpoint and the reconcile job on threads of their own; each     *)
(* Store method is one transaction and one step, and a crash can fall      *)
(* between any two.  Times are differences to now, as in Delivery; a pass  *)
(* of the worker awaits nothing, so it takes no tick.                      *)
(*                                                                         *)
(* What the events do to request chains is in Chains; what becomes of a    *)
(* ledger row is in Delivery.                                              *)
(***************************************************************************)
EXTENDS Integers, Sequences, FiniteSets, Functions, Retry

CONSTANTS
    Posts,          \* webhook deliveries that pass auth and size; a duplicate
                    \* delivery is another post with the same events
    Keys,           \* source_event_keys
    Channels,
    EventsOf,       \* the keys normalize makes of a post's body
    BlindEvents,    \* the keys it makes of a redacted body (source.unknown)
    RoutesOf,       \* channels_for an event of this key
    Invalid,        \* posts whose body is not JSON
    Poison,         \* posts whose body the normalizer raises on
    Missed,         \* keys of events the reconcile job may store too
    MaxAttempts,    \* settings.outbox_max_attempts
    BatchLimit,     \* the limit of claim_outbox_due
    BackoffBase,    \* settings.outbox_backoff_base_seconds, in ticks
    BackoffCap,     \* cap_seconds, in ticks
    Retention,      \* settings.raw_retention_days, in ticks
    MaxFaults       \* bound: crashes, store errors and transient exceptions

ASSUME PostsAssumption ==
    /\ EventsOf \in [Posts -> Seq(Keys)]
    /\ Invalid \subseteq Posts /\ Poison \subseteq Posts /\ Missed \subseteq Keys
ASSUME RoutingAssumption ==
    BlindEvents \in Seq(Keys) /\ RoutesOf \in [Keys -> SUBSET Channels]
ASSUME BoundsAssumption ==
    /\ MaxAttempts \in Nat \ {0} /\ BatchLimit \in Nat \ {0}
    /\ BackoffBase \in Nat /\ BackoffCap \in Nat /\ Retention \in Nat /\ MaxFaults \in Nat

VARIABLES
    raw,        \* raw_events: "none", "kept", "redacted" or "gone"
    age,        \* now - raw_events.received_at
    box,        \* outbox.state, "none" without a row, "deleted" after prune
    attempts,   \* outbox.attempts
    wait,       \* outbox.next_attempt_at - now
    handling,   \* {p} while the handler of p stands between its two writes
    acked,      \* posts answered with 202
    stored,     \* keys in the events table
    ledger,     \* <<key, channel>> rows in the notifications table
    engaged,    \* KillSwitch.engaged()
    pc,         \* where process_outbox_once stands
    batch,      \* claimed rows still to handle -> attempts read when claimed
    cur,        \* {p} while the row of p is processed
    body,       \* the body get_raw returned for it
    pos,        \* the event of the body being applied
    chans,      \* channels of that event still to be enqueued
    \* History, read by the properties only.
    blind,      \* posts processed after their body was redacted
    suppressed, \* rows not created because the switch was engaged
    faults

tableVars == <<raw, age, box, attempts, wait>>
workVars == <<pc, batch, cur, body, pos, chans>>
eventVars == <<stored, ledger>>
historyVars == <<blind, suppressed>>
vars == <<tableVars, handling, acked, eventVars, engaged, workVars, historyVars, faults>>

RawStates == {"none", "kept", "redacted", "gone"}
BoxStates == {"none", "pending", "done", "dead", "deleted"}
Busy == {"event", "routing", "fanout", "raised"}
PCs == {"idle", "rows"} \cup Busy

NoBatch == [p \in {} |-> 0]

Init ==
    /\ raw = [p \in Posts |-> "none"]
    /\ age = [p \in Posts |-> 0]
    /\ box = [p \in Posts |-> "none"]
    /\ attempts = [p \in Posts |-> 0]
    /\ wait = [p \in Posts |-> 0]
    /\ handling = {} /\ acked = {}
    /\ stored = {} /\ ledger = {}
    /\ engaged = TRUE
    /\ pc = "idle" /\ batch = NoBatch /\ cur = {} /\ body = "kept" /\ pos = 1 /\ chans = {}
    /\ blind = {} /\ suppressed = {}
    /\ faults = 0

-----------------------------------------------------------------------------
\* The webhook handler.  A post that fails the source, auth or size checks is
\* answered 404, 401 or 413 and changes nothing.

Archive(p) ==
    /\ handling = {}
    /\ raw[p] = "none"
    /\ raw' = [raw EXCEPT ![p] = "kept"]
    /\ age' = [age EXCEPT ![p] = 0]
    /\ handling' = {p}
    /\ UNCHANGED <<box, attempts, wait, acked, eventVars, engaged, workVars, historyVars, faults>>

EnqueueOutbox(p) ==
    /\ p \in handling
    /\ box' = [box EXCEPT ![p] = IF p \in Invalid THEN "dead" ELSE "pending"]
    /\ handling' = {}
    /\ acked' = acked \cup {p}
    /\ UNCHANGED <<raw, age, attempts, wait, eventVars, engaged, workVars, historyVars, faults>>

-----------------------------------------------------------------------------
\* The outbox worker

Due == {p \in Posts : box[p] = "pending" /\ wait[p] = 0}

Claim ==
    /\ pc = "idle"
    /\ \E claimed \in SUBSET Due :
        /\ claimed # {}
        /\ Cardinality(claimed) <= BatchLimit
        /\ claimed = Due \/ Cardinality(claimed) = BatchLimit
        /\ batch' = [p \in claimed |-> attempts[p]]
    /\ pc' = "rows"
    /\ UNCHANGED <<tableVars, handling, acked, eventVars, engaged, cur, body, pos, chans,
                   historyVars, faults>>

\* Mutant: the row stays current.
RecordedButCurrent(p) ==
    /\ batch' = Restrict(batch, DOMAIN batch \ {p})
    /\ pc' = IF DOMAIN batch = {p} THEN "idle" ELSE "rows"
    /\ UNCHANGED <<cur, body, pos, chans>>

\* The row of p is recorded; the loop goes on, or the pass returns.
Recorded(p) ==
    /\ batch' = Restrict(batch, DOMAIN batch \ {p})
    /\ pc' = IF DOMAIN batch = {p} THEN "idle" ELSE "rows"
    /\ cur' = {} /\ body' = "kept" /\ pos' = 1 /\ chans' = {}

Readable(p) == raw[p] \in {"kept", "redacted"}

RawMissing(p) ==
    /\ box' = [box EXCEPT ![p] = "dead"]
    /\ attempts' = [attempts EXCEPT ![p] = @ + 1]
    /\ Recorded(p)
    /\ UNCHANGED blind

\* normalize runs on the body; a redacted one is valid JSON of no known kind.
Process(p) ==
    /\ cur' = {p}
    /\ body' = raw[p]
    /\ blind' = IF raw[p] = "redacted" THEN blind \cup {p} ELSE blind
    /\ pc' = IF p \in Poison /\ raw[p] = "kept" THEN "raised" ELSE "event"
    /\ UNCHANGED <<box, attempts, batch, pos, chans>>

\* get_raw.  NothingAcceptedIsLost says that the row is always readable.
Load(p) ==
    /\ pc = "rows"
    /\ IF Readable(p) THEN Process(p) ELSE RawMissing(p)
    /\ UNCHANGED <<raw, age, wait, handling, acked, eventVars, engaged, suppressed, faults>>

Events(p) == IF body = "redacted" THEN BlindEvents ELSE EventsOf[p]
More(p) == pos <= Len(Events(p))

\* Mutants: an event that is already stored is not fanned out again; the insert
\* is not committed.
ApplyNewOnly(p) ==
    LET key == Events(p)[pos] IN
    /\ pc = "event"
    /\ More(p)
    /\ stored' = stored \cup {key}
    /\ IF key \in stored THEN pc' = "event" /\ pos' = pos + 1
                         ELSE pc' = "routing" /\ UNCHANGED pos
    /\ UNCHANGED <<tableVars, handling, acked, ledger, engaged, batch, cur, body, chans,
                   historyVars, faults>>
ApplyUncommitted(p) ==
    /\ pc = "event"
    /\ More(p)
    /\ pc' = "routing"
    /\ UNCHANGED <<tableVars, handling, acked, eventVars, engaged, batch, cur, body, pos, chans,
                   historyVars, faults>>

\* INSERT OR IGNORE of the event; its fan-out follows whether it was new or not.
Apply(p) ==
    /\ pc = "event"
    /\ More(p)
    /\ stored' = stored \cup {Events(p)[pos]}
    /\ pc' = "routing"
    /\ UNCHANGED <<tableVars, handling, acked, ledger, engaged, batch, cur, body, pos, chans,
                   historyVars, faults>>

\* channels_for and the one look at the switch for this event.
Route(p) ==
    LET key == Events(p)[pos]
        open == IF engaged THEN {} ELSE RoutesOf[key]
    IN
    /\ pc = "routing"
    /\ chans' = open
    /\ suppressed' = suppressed \cup ({key} \X (RoutesOf[key] \ open))
    /\ IF open = {} THEN pc' = "event" /\ pos' = pos + 1
                    ELSE pc' = "fanout" /\ UNCHANGED pos
    /\ UNCHANGED <<tableVars, handling, acked, eventVars, engaged, batch, cur, body,
                   blind, faults>>

EnqueueNotification(p) ==
    /\ pc = "fanout"
    /\ \E c \in chans :
        /\ ledger' = ledger \cup {<<Events(p)[pos], c>>}
        /\ chans' = chans \ {c}
        /\ IF chans = {c} THEN pc' = "event" /\ pos' = pos + 1 ELSE UNCHANGED <<pc, pos>>
    /\ UNCHANGED <<tableVars, handling, acked, stored, engaged, batch, cur, body,
                   historyVars, faults>>

OutboxDone(p) ==
    /\ pc = "event"
    /\ ~More(p)
    /\ box' = [box EXCEPT ![p] = "done"]
    /\ Recorded(p)
    /\ UNCHANGED <<raw, age, attempts, wait, handling, acked, eventVars, engaged,
                   historyVars, faults>>

\* Mutant: one attempt too few.
LastAttemptEarly(p) == batch[p] + 2 >= MaxAttempts

LastAttempt(p) == batch[p] + 1 >= MaxAttempts

OutboxDead(p) ==
    /\ pc = "raised"
    /\ LastAttempt(p)
    /\ box' = [box EXCEPT ![p] = "dead"]
    /\ attempts' = [attempts EXCEPT ![p] = @ + 1]
    /\ Recorded(p)
    /\ UNCHANGED <<raw, age, wait, handling, acked, eventVars, engaged, historyVars, faults>>

\* Mutants: the retry counts no attempt; it counts one for the whole batch.
OutboxRetryFree(p) ==
    /\ pc = "raised"
    /\ ~LastAttempt(p)
    /\ wait' = [wait EXCEPT ![p] = Backoff(BackoffBase, batch[p], BackoffCap)]
    /\ Recorded(p)
    /\ UNCHANGED <<raw, age, box, attempts, handling, acked, eventVars, engaged,
                   historyVars, faults>>
OutboxRetryBatch(p) ==
    /\ pc = "raised"
    /\ ~LastAttempt(p)
    /\ attempts' = [q \in Posts |-> IF q \in DOMAIN batch THEN attempts[q] + 1 ELSE attempts[q]]
    /\ wait' = [wait EXCEPT ![p] = Backoff(BackoffBase, batch[p], BackoffCap)]
    /\ Recorded(p)
    /\ UNCHANGED <<raw, age, box, handling, acked, eventVars, engaged, historyVars, faults>>

OutboxRetry(p) ==
    /\ pc = "raised"
    /\ ~LastAttempt(p)
    /\ attempts' = [attempts EXCEPT ![p] = @ + 1]
    /\ wait' = [wait EXCEPT ![p] = Backoff(BackoffBase, batch[p], BackoffCap)]
    /\ Recorded(p)
    /\ UNCHANGED <<raw, age, box, handling, acked, eventVars, engaged, historyVars, faults>>

-----------------------------------------------------------------------------
\* The other threads

SetKill(on) ==
    /\ engaged' = on
    /\ UNCHANGED <<tableVars, handling, acked, eventVars, workVars, historyVars, faults>>

\* The reconcile job stores an event it missed before the webhook is worked
\* off, and may die before its own fan-out.
StoredByReconcile(key) ==
    /\ key \notin stored
    /\ stored' = stored \cup {key}
    /\ UNCHANGED <<tableVars, handling, acked, ledger, engaged, workVars, historyVars, faults>>

\* Mutants: bodies expire one tick early; dead rows do not keep their raw.
ExpiredEarly == {p \in Posts : raw[p] # "none" /\ age[p] >= Retention}
RefersIfPending(state) == state = "pending"

\* One transaction: done outbox rows of expired raws go, then the expired raws
\* nothing refers to, and the expired raws that stay lose their body.
Expired == {p \in Posts : raw[p] # "none" /\ age[p] > Retention}

\* An outbox row in this state is in the table and refers to its raw.
Refers(state) == state \in {"pending", "done", "dead"}

Prune ==
    /\ box' = [p \in Posts |-> IF p \in Expired /\ box[p] = "done" THEN "deleted" ELSE box[p]]
    /\ raw' = [p \in Posts |->
                IF p \notin Expired \/ raw[p] = "gone" THEN raw[p]
                ELSE IF Refers(box'[p]) THEN "redacted" ELSE "gone"]
    /\ UNCHANGED <<age, attempts, wait, handling, acked, eventVars, engaged, workVars,
                   historyVars, faults>>

\* Ages past the retention are all alike.  Neither the two writes of the handler
\* nor the steps of a pass are a tick apart: no await stands between them.
Tick ==
    /\ handling = {} /\ pc = "idle"
    /\ age' = [p \in Posts |-> IF raw[p] # "none" /\ age[p] <= Retention THEN age[p] + 1 ELSE age[p]]
    /\ wait' = [p \in Posts |-> IF wait[p] > 0 THEN wait[p] - 1 ELSE 0]
    /\ UNCHANGED <<raw, box, attempts, handling, acked, eventVars, engaged, workVars,
                   historyVars, faults>>

-----------------------------------------------------------------------------
\* Faults

\* process raises on a good body: a store error, or the unique index on
\* request chains when another thread opens the same chain.
Raise ==
    /\ faults < MaxFaults
    /\ faults' = faults + 1
    /\ pc \in {"event", "routing", "fanout"}
    /\ pc' = "raised"
    /\ pos' = 1 /\ chans' = {}
    /\ UNCHANGED <<tableVars, handling, acked, eventVars, engaged, batch, cur, body,
                   historyVars>>

WorkDropped ==
    /\ faults < MaxFaults
    /\ faults' = faults + 1
    /\ pc' = "idle" /\ batch' = NoBatch /\ cur' = {} /\ body' = "kept" /\ pos' = 1 /\ chans' = {}
    /\ UNCHANGED <<tableVars, acked, eventVars, engaged, historyVars>>

\* The process dies and starts again; a handler between its writes never answers.
Crash == WorkDropped /\ handling' = {}

\* A store call outside process raises; outbox_loop logs it and starts over.
WorkerError == pc # "idle" /\ WorkDropped /\ UNCHANGED handling

-----------------------------------------------------------------------------
Worker ==
    \/ Claim
    \/ \E p \in DOMAIN batch : Load(p)
    \/ \E p \in cur :
        \/ Apply(p) \/ Route(p) \/ EnqueueNotification(p)
        \/ OutboxDone(p) \/ OutboxDead(p) \/ OutboxRetry(p)

Next ==
    \/ \E p \in Posts : Archive(p) \/ EnqueueOutbox(p)
    \/ Worker
    \/ \E on \in BOOLEAN : SetKill(on)
    \/ \E key \in Missed : StoredByReconcile(key)
    \/ Prune \/ Tick
    \/ Raise \/ Crash \/ WorkerError

Spec == Init /\ [][Next]_vars

\* outbox_loop keeps calling process_outbox_once, time passes, and a handler that
\* archived a post awaits nothing before it queues it.
FairSpec ==
    /\ Spec
    /\ WF_vars(Worker) /\ WF_vars(Tick)
    /\ WF_vars(\E p \in Posts : EnqueueOutbox(p))

-----------------------------------------------------------------------------
\* Properties

\* The state has the shape the code gives it; a row is current exactly while
\* process runs on it.
TypeOK ==
    /\ raw \in [Posts -> RawStates]
    /\ age \in [Posts -> 0 .. Retention + 1]
    /\ box \in [Posts -> BoxStates]
    /\ attempts \in [Posts -> Nat]
    /\ wait \in [Posts -> 0 .. BackoffCap]
    /\ handling \subseteq Posts /\ acked \subseteq Posts
    /\ stored \subseteq Keys /\ ledger \subseteq Keys \X Channels
    /\ engaged \in BOOLEAN
    /\ pc \in PCs
    /\ DOMAIN batch \subseteq Posts /\ batch \in [DOMAIN batch -> Nat]
    /\ cur \subseteq DOMAIN batch
    /\ (cur = {}) <=> (pc \notin Busy)
    /\ body \in {"kept", "redacted"}
    /\ pos \in Nat \ {0}
    /\ chans \subseteq Channels
    /\ blind \subseteq Posts /\ suppressed \subseteq Keys \X Channels
    /\ faults \in 0 .. MaxFaults

\* A post answered with 202 stays accounted for: it has an outbox row, and the
\* row's raw event is there for as long as the row is, so the worker never
\* finds it "pruned from under us" (outbox.py:42).
NothingAcceptedIsLost ==
    \A p \in Posts :
        /\ p \in acked => box[p] # "none"
        /\ box[p] \in {"pending", "done", "dead"} => Readable(p)

FannedOut(key) ==
    /\ key \in stored
    /\ \A c \in RoutesOf[key] : <<key, c>> \in ledger \cup suppressed

Worked(p) == IF p \in blind THEN BlindEvents ELSE EventsOf[p]

\* Crash-safe processing: when the outbox row is done, every event of the post
\* is stored and has its row in every channel it routes to, or the switch
\* suppressed it, whichever crash, retry, duplicate or reconcile run came between.
DoneMeansFannedOut ==
    \A p \in Posts :
        box[p] \in {"done", "deleted"} =>
            \A i \in DOMAIN Worked(p) : FannedOut(Worked(p)[i])

\* What the send pass relies on: behind every ledger row there is the event it
\* is rendered from, and the routing rules want it in that channel.
EventBehindEveryRow ==
    \A row \in ledger : row[1] \in stored /\ row[2] \in RoutesOf[row[1]]

\* The whole of what the inbound half owes, Intake, is kept: a crash, a retry, a
\* duplicate or a prune is a step of it or no step at all.
Account == INSTANCE Intake WITH
    life <- [p \in Posts |-> IF box[p] = "deleted" THEN "done" ELSE box[p]],
    failures <- attempts,
    expired <- {p \in Posts : raw[p] \in {"redacted", "gone"}},
    events <- stored, rows <- ledger, silenced <- suppressed, quiet <- engaged

KeepsAccount == Account!Spec

\* A row is dead only because its body is no JSON or its attempts are used up.
DeadOnlyWithCause ==
    \A p \in Posts : box[p] = "dead" => p \in Invalid \/ attempts[p] >= MaxAttempts

\* One row's trouble is its own: a post with a good body loses attempts only to
\* faults, never to a poison post in the same batch, a crash or a restart.
FailuresArePaid == \A p \in Posts \ Poison : attempts[p] <= faults

\* A body is read redacted only when its row was stuck beyond the retention.
OnlyExpiredReadBlind == \A p \in blind : age[p] > Retention

\* A settled outbox row is never processed again: done may only be pruned, and
\* dead stays dead.
OutboxSettled ==
    [][\A p \in Posts :
        /\ box[p] = "done" => box'[p] \in {"done", "deleted"}
        /\ box[p] \in {"dead", "deleted"} => box'[p] = box[p]]_vars

\* Every queued post leaves the queue, poison ones included: none blocks the rest.
EveryPostSettles == \A p \in Posts : box[p] = "pending" ~> box[p] # "pending"

\* With fewer faults than attempts, every accepted good post reaches the event
\* store and the ledger, unless it outlived its own body.
AcceptedFansOut ==
    \A p \in Posts \ (Invalid \cup Poison) :
        p \in acked ~> \/ p \in blind
                       \/ \A i \in DOMAIN EventsOf[p] : FannedOut(EventsOf[p][i])
=============================================================================
