------------------------------ MODULE Delivery ------------------------------
(***************************************************************************)
(* The outbound half of Costanza: the notifications table (the ledger and  *)
(* outbox of every message), the send pass that drains it, the per-channel *)
(* rate limiter and the kill switch, as one state machine.                 *)
(*                                                                         *)
(* One pass of send_due_once claims due rows, reads the kill switch once   *)
(* and then handles the claimed rows one at a time, suspending only inside *)
(* notifier.send.  Every Store method is one SQLite transaction under one  *)
(* lock, so each is one step here, and the producers of rows, the kill     *)
(* switch endpoint (a thread of its own) and a crash can fall between any  *)
(* two of them.                                                            *)
(*                                                                         *)
(* Clocks are kept as differences to the current instant, so that no bound *)
(* on time is needed: wait[r] is how far next_attempt_at lies ahead (0 is  *)
(* due), window and lag are ages.  Among rows that are due, any of them    *)
(* may be taken: ORDER BY next_attempt_at is not kept.                     *)
(***************************************************************************)
EXTENDS Integers, Sequences, FiniteSets, Functions, Retry

CONSTANTS
    Rows,           \* (event_key, channel) pairs the producers may enqueue
    Channels,
    ChannelOf,      \* the channel of a row
    Unrenderable,   \* rows whose event row does not exist (_render_row is None)
    Outcomes,       \* what notifier.send may do, see NotifierOutcomes
    EnvOverride,    \* COSTANZA_KILL_SWITCH is set
    MaxAttempts,    \* settings.notify_max_attempts
    BatchLimit,     \* the limit of claim_notifications_due
    Budget,         \* rate_limits.per_channel_per_minute
    Window,         \* the limiter's minute, in ticks
    DeferDelay,     \* _DEFER, in ticks
    BackoffBase,    \* settings.notify_backoff_base_seconds, in ticks
    BackoffCap,     \* cap_seconds, in ticks
    MaxLag,         \* bound: ticks one pass may last
    MaxFaults       \* bound: crashes and store errors

\* "delivered": the channel has the message and send returns.
\* "unconfirmed": the channel has the message and send raises.
\* "refused": send raises and nothing reached the channel.
NotifierOutcomes == {"delivered", "unconfirmed", "refused"}

ASSUME RowsAssumption == ChannelOf \in [Rows -> Channels] /\ Unrenderable \subseteq Rows
ASSUME FiniteAssumption == IsFiniteSet(Rows)
ASSUME OutcomesAssumption == Outcomes \subseteq NotifierOutcomes
ASSUME EnvAssumption == EnvOverride \in BOOLEAN
ASSUME LimitsAssumption ==
    /\ MaxAttempts \in Nat \ {0} /\ BatchLimit \in Nat \ {0} /\ Budget \in Nat \ {0}
    /\ Window \in Nat /\ DeferDelay \in Nat
    /\ BackoffBase \in Nat /\ BackoffCap \in Nat
    /\ MaxLag \in Nat /\ MaxFaults \in Nat

VARIABLES
    status,     \* notifications.status, "absent" where there is no row
    attempts,   \* notifications.attempts
    wait,       \* notifications.next_attempt_at - now, 0 once it is past
    kill,       \* the newest kill_switch_audit row says engaged
    pc,         \* where send_due_once stands
    batch,      \* claimed rows still to handle -> attempts read when claimed
    inflight,   \* {r} from the call of notifier.send for r to its record
    lag,        \* now - the instant the pass took as its own "now"
    window,     \* RateLimiter._sent: ages of the stamps, oldest first
    \* History, read by the properties and by no guard of the sender.
    begun,      \* begun[r]: calls of notifier.send for r
    delivered,  \* delivered[r]: messages the channel got for r
    handed,     \* handed[c]: ages of this process's latest hand-overs to c
    leaked,     \* sends begun while engaged, since the switch last engaged
    faults      \* faults so far

ledgerVars == <<status, attempts, wait>>
passVars == <<pc, batch, inflight, lag>>
historyVars == <<begun, delivered, handed, leaked>>
vars == <<ledgerVars, kill, passVars, window, historyVars, faults>>

Statuses == {"absent", "pending", "failed", "sent", "dead"}
Open == {"pending", "failed"}
Settled == {"sent", "dead"}
Sending == {"await", "returned", "raised"}
PCs == {"idle", "claimed", "defer", "rows"} \cup Sending

NoBatch == [r \in {} |-> 0]
NoAges == [c \in Channels |-> << >>]

Init ==
    /\ status = [r \in Rows |-> "absent"]
    /\ attempts = [r \in Rows |-> 0]
    /\ wait = [r \in Rows |-> 0]
    /\ kill = TRUE                  \* no audit row yet: engaged by default
    /\ pc = "idle" /\ batch = NoBatch /\ inflight = {} /\ lag = 0
    /\ window = NoAges
    /\ begun = [r \in Rows |-> 0]
    /\ delivered = [r \in Rows |-> 0]
    /\ handed = NoAges
    /\ leaked = 0
    /\ faults = 0

-----------------------------------------------------------------------------
\* Producers and the kill switch, on other threads

Engaged == EnvOverride \/ kill

\* INSERT OR IGNORE: a row that exists is left as it is, which is a stutter.
Enqueue(r) ==
    /\ status[r] = "absent"
    /\ status' = [status EXCEPT ![r] = "pending"]
    /\ wait' = [wait EXCEPT ![r] = 0]
    /\ UNCHANGED <<attempts, kill, passVars, window, historyVars, faults>>

SetKill(engaged) ==
    /\ kill' = engaged
    /\ leaked' = IF engaged /\ ~kill THEN 0 ELSE leaked
    /\ UNCHANGED <<ledgerVars, passVars, window, begun, delivered, handed, faults>>

-----------------------------------------------------------------------------
\* The pass

\* Mutants: a claim that does not filter on status, and one that takes pending only.
DueInAnyStatus == {r \in Rows : status[r] # "absent" /\ wait[r] = 0}
DuePendingOnly == {r \in Rows : status[r] = "pending" /\ wait[r] = 0}

Due == {r \in Rows : status[r] \in Open /\ wait[r] = 0}

\* A delay counted from the instant the pass started, seen from now.
Ahead(delay) == IF delay > lag THEN delay - lag ELSE 0

\* LIMIT: all the due rows, or as many of them as one claim takes.
WithinLimit(claimed) ==
    /\ Cardinality(claimed) <= BatchLimit
    /\ claimed = Due \/ Cardinality(claimed) = BatchLimit

Claim ==
    /\ pc = "idle"
    /\ \E claimed \in SUBSET Due :
        /\ claimed # {}
        /\ WithinLimit(claimed)
        /\ batch' = [r \in claimed |-> attempts[r]]
    /\ pc' = "claimed"
    /\ lag' = 0
    /\ UNCHANGED <<ledgerVars, kill, inflight, window, historyVars, faults>>

\* Mutant: the switch is not read.
CheckNoKill ==
    /\ pc = "claimed"
    /\ pc' = "rows"
    /\ UNCHANGED <<ledgerVars, kill, batch, inflight, lag, window, historyVars, faults>>

\* The switch is read once, for every row of the pass.
CheckKill ==
    /\ pc = "claimed"
    /\ pc' = IF Engaged THEN "defer" ELSE "rows"
    /\ UNCHANGED <<ledgerVars, kill, batch, inflight, lag, window, historyVars, faults>>

\* Mutant: the last row of a pass stays in flight.
RowHandledInFlight(r, goOn) ==
    /\ batch' = Restrict(batch, DOMAIN batch \ {r})
    /\ IF DOMAIN batch = {r}
       THEN pc' = "idle" /\ lag' = 0 /\ UNCHANGED inflight
       ELSE pc' = goOn /\ lag' = lag /\ inflight' = {}

\* The loop goes on to another claimed row, or the pass returns.
RowHandled(r, goOn) ==
    /\ batch' = Restrict(batch, DOMAIN batch \ {r})
    /\ inflight' = {}
    /\ IF DOMAIN batch = {r}
       THEN pc' = "idle" /\ lag' = 0
       ELSE pc' = goOn /\ lag' = lag

\* Mutant: a deferral counts as an attempt.
DeferBurning(r) ==
    /\ wait' = [wait EXCEPT ![r] = Ahead(DeferDelay)]
    /\ attempts' = [attempts EXCEPT ![r] = @ + 1]
    /\ UNCHANGED status

Defer(r) ==
    /\ wait' = [wait EXCEPT ![r] = Ahead(DeferDelay)]
    /\ UNCHANGED <<status, attempts>>

\* Every write of the sender but a deferral counts an attempt.
Burn(r, newStatus) ==
    /\ status' = [status EXCEPT ![r] = newStatus]
    /\ attempts' = [attempts EXCEPT ![r] = @ + 1]

DeferForKill(r) ==
    /\ pc = "defer"
    /\ Defer(r)
    /\ RowHandled(r, "defer")
    /\ UNCHANGED <<kill, window, historyVars, faults>>

EventMissing(r) ==
    /\ pc = "rows"
    /\ r \in Unrenderable
    /\ Burn(r, "dead")
    /\ RowHandled(r, "rows")
    /\ UNCHANGED <<wait, kill, window, historyVars, faults>>

\* Mutant: the stamp at the edge of the window is dropped too.
ExpiredAtEdge(c) == {i \in DOMAIN window[c] : window[c][i] - lag >= Window}

\* Stamps older than the window are popped from the head.  Stamps are
\* appended in order, so the expired ones are a prefix.
Expired(c) == {i \in DOMAIN window[c] : window[c][i] - lag > Window}
Live(c) == SubSeq(window[c], Cardinality(Expired(c)) + 1, Len(window[c]))

OverBudget(r) ==
    LET c == ChannelOf[r] IN
    /\ pc = "rows"
    /\ r \notin Unrenderable
    /\ Len(Live(c)) >= Budget
    /\ window' = [window EXCEPT ![c] = Live(c)]
    /\ Defer(r)
    /\ RowHandled(r, "rows")
    /\ UNCHANGED <<kill, historyVars, faults>>

\* The stamp is the pass's now, lag ticks ago; the hand-over itself is now.
BeginSend(r) ==
    LET c == ChannelOf[r] IN
    /\ pc = "rows"
    /\ r \notin Unrenderable
    /\ Len(Live(c)) < Budget
    /\ window' = [window EXCEPT ![c] = Append(Live(c), lag)]
    /\ pc' = "await"
    /\ inflight' = {r}
    /\ begun' = [begun EXCEPT ![r] = @ + 1]
    /\ handed' = [handed EXCEPT ![c] = Append(@, 0)]
    /\ leaked' = IF Engaged THEN leaked + 1 ELSE leaked
    /\ UNCHANGED <<ledgerVars, kill, batch, lag, delivered, faults>>

\* Mutant: one attempt too many.
LastAttemptLate(r) == batch[r] >= MaxAttempts

\* row["attempts"] is what the claim read.
LastAttempt(r) == batch[r] + 1 >= MaxAttempts

\* The await of notifier.send for r ends.
SendEnds(r, outcome) ==
    /\ pc = "await"
    /\ pc' = IF outcome = "delivered" THEN "returned" ELSE "raised"
    /\ delivered' = IF outcome = "refused" THEN delivered
                    ELSE [delivered EXCEPT ![r] = @ + 1]
    /\ UNCHANGED <<ledgerVars, kill, batch, inflight, lag, window,
                   begun, handed, leaked, faults>>

RecordSent(r) ==
    /\ pc = "returned"
    /\ Burn(r, "sent")
    /\ RowHandled(r, "rows")
    /\ UNCHANGED <<wait, kill, window, historyVars, faults>>

RecordDead(r) ==
    /\ pc = "raised"
    /\ LastAttempt(r)
    /\ Burn(r, "dead")
    /\ RowHandled(r, "rows")
    /\ UNCHANGED <<wait, kill, window, historyVars, faults>>

RecordRetry(r) ==
    /\ pc = "raised"
    /\ ~LastAttempt(r)
    /\ Burn(r, "failed")
    /\ wait' = [wait EXCEPT ![r] = Ahead(Backoff(BackoffBase, batch[r], BackoffCap))]
    /\ RowHandled(r, "rows")
    /\ UNCHANGED <<kill, window, historyVars, faults>>

-----------------------------------------------------------------------------
\* Time and faults

OldestAge == Window + MaxLag + 1    \* from here on, expired for any pass

Older(ages) == [i \in DOMAIN ages |-> IF ages[i] < OldestAge THEN ages[i] + 1 ELSE ages[i]]

\* The hand-overs that are within the window after this tick.
Recent(ages) ==
    SubSeq(ages, Cardinality({i \in DOMAIN ages : ages[i] >= Window}) + 1, Len(ages))

Tick ==
    /\ pc = "idle" \/ lag < MaxLag
    /\ wait' = [r \in Rows |-> IF wait[r] > 0 THEN wait[r] - 1 ELSE 0]
    /\ lag' = IF pc = "idle" THEN 0 ELSE lag + 1
    /\ window' = [c \in Channels |-> Older(window[c])]
    /\ handed' = [c \in Channels |-> Older(Recent(handed[c]))]
    /\ UNCHANGED <<status, attempts, kill, pc, batch, inflight,
                   begun, delivered, leaked, faults>>

PassDropped ==
    /\ faults < MaxFaults
    /\ faults' = faults + 1
    /\ pc' = "idle" /\ batch' = NoBatch /\ inflight' = {} /\ lag' = 0
    /\ UNCHANGED <<ledgerVars, kill, begun, delivered, leaked>>

\* The process dies, or lifespan shuts down and cancels the loop, and starts
\* again: the pass and the limiter's stamps are lost, the tables are not.
Crash ==
    /\ PassDropped
    /\ window' = NoAges
    /\ handed' = NoAges

\* A store call of the pass raises; notify_loop logs it and starts over.
PassError ==
    /\ pc \in PCs \ {"idle", "await"}
    /\ PassDropped
    /\ UNCHANGED <<window, handed>>

-----------------------------------------------------------------------------
HandleRow ==
    \E r \in DOMAIN batch :
        DeferForKill(r) \/ EventMissing(r) \/ OverBudget(r) \/ BeginSend(r)

FinishRow ==
    \E r \in inflight :
        \/ \E outcome \in Outcomes : SendEnds(r, outcome)
        \/ RecordSent(r) \/ RecordDead(r) \/ RecordRetry(r)

Pass == Claim \/ CheckKill \/ HandleRow \/ FinishRow

Next ==
    \/ Pass
    \/ \E r \in Rows : Enqueue(r)
    \/ \E engaged \in BOOLEAN : SetKill(engaged)
    \/ Tick
    \/ Crash
    \/ PassError

Spec == Init /\ [][Next]_vars

\* notify_loop runs passes for as long as the process lives, an awaited send
\* ends, and time passes.
FairSpec == Spec /\ WF_vars(Pass) /\ WF_vars(Tick)

-----------------------------------------------------------------------------
\* Properties

MaxWait == IF DeferDelay > BackoffCap THEN DeferDelay ELSE BackoffCap

\* The state has the shape the code gives it: a row waits at most the longer
\* of the deferral and the backoff cap, the batch holds rows, and a send is in
\* flight exactly from the call of notifier.send to its record.
LedgerType ==
    /\ status \in [Rows -> Statuses]
    /\ attempts \in [Rows -> Nat]
    /\ wait \in [Rows -> 0 .. MaxWait]

PassType ==
    /\ pc \in PCs
    /\ DOMAIN batch \subseteq Rows
    /\ batch \in [DOMAIN batch -> Nat]
    /\ inflight \subseteq DOMAIN batch
    /\ (inflight = {}) <=> (pc \notin Sending)
    /\ lag \in 0 .. MaxLag

LimiterType ==
    /\ window \in [Channels -> Seq(Nat)]
    /\ handed \in [Channels -> Seq(Nat)]

CountersType ==
    /\ kill \in BOOLEAN
    /\ begun \in [Rows -> Nat]
    /\ delivered \in [Rows -> Nat]
    /\ leaked \in Nat
    /\ faults \in 0 .. MaxFaults

TypeOK == LedgerType /\ PassType /\ LimiterType /\ CountersType

\* What the pass read when it claimed still holds when a row's turn comes, after
\* any number of awaits and whatever the other threads did meanwhile: the row is
\* open and has the attempts the claim saw (rows = claim..., row["attempts"]).
ClaimsAreFresh ==
    \A r \in DOMAIN batch : status[r] \in Open /\ batch[r] = attempts[r]

InFlight(r) == IF r \in inflight THEN 1 ELSE 0

\* The attempts column agrees with the sends that were really made: no row is
\* short of an attempt that was not used up by a send, a send missing from the
\* column was lost to a fault, the threshold is never passed, and at most one
\* row is being sent.
AttemptsAccount ==
    /\ \A r, s \in inflight : r = s
    /\ inflight \cap Unrenderable = {}
    /\ pc = "returned" => \A r \in inflight : delivered[r] >= 1
    /\ \A r \in Rows :
        /\ attempts[r] <= MaxAttempts
        /\ status[r] = "absent" => attempts[r] = 0 /\ begun[r] = 0
        /\ status[r] \in Open => attempts[r] < MaxAttempts
        /\ status[r] = "dead" => r \in Unrenderable \/ attempts[r] = MaxAttempts
        /\ r \notin Unrenderable => attempts[r] + InFlight(r) <= begun[r]
        /\ begun[r] <= attempts[r] + InFlight(r) + faults
        /\ delivered[r] + (IF pc = "await" THEN InFlight(r) ELSE 0) <= begun[r]

\* The limiter and the kill switch defer and never drop: a row that could be
\* rendered is dead only after notifier.send was called for it MaxAttempts times.
DeadOnlyAfterTries ==
    \A r \in Rows :
        status[r] = "dead" => r \in Unrenderable \/ begun[r] >= MaxAttempts

\* Duplicates are bounded: each copy of a message in the channel is paid for by
\* one of the row's MaxAttempts attempts, or by a fault that lost the record.
CopiesBounded == \A r \in Rows : delivered[r] <= MaxAttempts + faults

\* The switch is read once per pass, so what is sent after it engages is at most
\* the rest of one batch, however often and whenever it is flipped.
KillLeakBounded == leaked <= BatchLimit

\* COSTANZA_KILL_SWITCH alone, whatever the stored toggle says and however often
\* the process restarts, keeps every row pending, without a send and without an
\* attempt.  (Proved in DeliveryProofs; no run sets the override.)
OverrideFreezes ==
    EnvOverride =>
        \A r \in Rows : begun[r] = 0 /\ attempts[r] = 0 /\ status[r] \in {"absent", "pending"}

\* Hand-overs to c within the last n ticks.
HandedWithin(c, n) == Cardinality({i \in DOMAIN handed[c] : handed[c][i] <= n})

\* The limiter stamps a send with the start of its pass, up to MaxLag before the
\* real hand-over; it still keeps any real stretch of Window - MaxLag at Budget.
RateHolds == \A c \in Channels : HandedWithin(c, Window - MaxLag) <= Budget

\* A settled row is never touched again: not by a duplicate enqueue, not by a
\* pass that claimed it earlier, not by a retry, and it is never sent again.
SettledStaySettled ==
    [][\A r \in Rows :
        status[r] \in Settled =>
            /\ status'[r] = status[r] /\ attempts'[r] = attempts[r]
            /\ begun'[r] = begun[r]]_vars

\* Once the switch stays off, every row in the ledger is sent or dead-lettered,
\* through rate limiting, retries and a bounded number of crashes.
EveryRowSettles ==
    <>[]~Engaged => \A r \in Rows : status[r] \in Open ~> status[r] \in Settled

\* The detailed ledger implements the abstract one.
Promise == INSTANCE Ledger WITH
    life <- [r \in Rows |-> IF status[r] \in Open THEN "open" ELSE status[r]],
    tries <- begun,
    copies <- delivered,
    Tries <- MaxAttempts

\* Every step of producers, passes and faults is a step of Ledger or changes
\* nothing it can see.
KeepsPromise == Promise!Spec

-----------------------------------------------------------------------------
\* What the repository says of this code and the code does not do

\* README.md:18, "exactly-once guarantees": no message twice in the channel.
AtMostOneCopy == \A r \in Rows : delivered[r] <= 1

\* worker.py:30, without an adapter rows "accumulate as pending/failed": none
\* is dead-lettered by a notifier that is merely unavailable.
UnavailableNeverDead == \A r \in Rows : status[r] # "dead"
=============================================================================
