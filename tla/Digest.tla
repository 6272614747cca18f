------------------------------- MODULE Digest -------------------------------
(***************************************************************************)
(* The weekly digest of jobs/digest.py: a run takes the window from the    *)
(* end of the last one to now, enqueues one ledger row whose key is that   *)
(* window, and moves the cursor; the row is rendered when it is sent, from *)
(* what the store then holds of its window.                                *)
(*                                                                         *)
(* The scheduler fires at times of its own, twice if it likes, but never   *)
(* has two runs at once.  The enqueue and the cursor are two transactions, *)
(* with a crash, the kill switch, the send pass and late events between    *)
(* them.  Items stand for whatever the statistics count by an instant:     *)
(* events by occurred_at, chains by opened_at or closed_at.  What the send *)
(* pass does to the row besides is in Delivery.                            *)
(***************************************************************************)
EXTENDS Integers, FiniteSets

CONSTANTS
    Items,
    Period,         \* DEFAULT_PERIOD, in ticks
    MinPeriod,      \* MIN_PERIOD, in ticks
    MaxTime,        \* bound: the last instant
    MaxFaults       \* bound: crashes and store errors

ASSUME PeriodAssumption ==
    Period \in Nat /\ MinPeriod \in Nat \ {0} /\ MinPeriod <= Period
ASSUME BoundsAssumption == MaxTime \in Nat /\ MaxFaults \in Nat

VARIABLES
    now,
    kill,       \* KillSwitch.engaged()
    cursor,     \* job_cursors of "digest": a window, NoWindow without a row
    rows,       \* ledger rows by their key, which is a window
    open,       \* those of them still pending or failed
    pc,         \* where run_digest stands
    period,     \* the window it works on
    occurred,   \* when an item happened, Never before it did
    storedAt,   \* when the store got it
    \* History, read by the properties only.
    sent,       \* rows of which the channel has a copy
    shown,      \* <<window, item>>: a copy of the digest of window lists item
    silenced,   \* windows the kill switch suppressed
    orphans,    \* rows whose window never became the cursor
    start,      \* where the first cursor began, Never without one
    faults

runVars == <<cursor, rows, pc, period>>
itemVars == <<occurred, storedAt>>
sendVars == <<open, sent, shown>>
historyVars == <<silenced, orphans, start>>
vars == <<now, kill, runVars, itemVars, sendVars, historyVars, faults>>

Never == MaxTime + 1
NoWindow == <<Never, Never>>

Init ==
    /\ now = 0 /\ kill = TRUE
    /\ cursor = NoWindow /\ rows = {} /\ open = {}
    /\ pc = "idle" /\ period = NoWindow
    /\ occurred = [i \in Items |-> Never]
    /\ storedAt = [i \in Items |-> Never]
    /\ sent = {} /\ shown = {} /\ silenced = {} /\ orphans = {} /\ start = Never
    /\ faults = 0

-----------------------------------------------------------------------------
\* run_digest

\* Mutant: the cursor is not read.
SinceDefault == now - Period

Since == IF cursor = NoWindow THEN now - Period ELSE cursor[2]

\* Mutant: MIN_PERIOD is not there.
AnyPeriod == now - Since >= 0

LongEnough == now - Since >= MinPeriod

\* now, the cursor and the guard on the length of the period.
Begin ==
    /\ pc = "idle"
    /\ LongEnough
    /\ period' = <<Since, now>>
    /\ pc' = "begun"
    /\ UNCHANGED <<now, kill, cursor, rows, itemVars, sendVars, historyVars, faults>>

\* Mutant: the window of the run is kept.
WindowKept == pc' = "idle" /\ UNCHANGED period

Finished == pc' = "idle" /\ period' = NoWindow

\* Mutant: a suppressed run leaves the cursor alone.
CursorKept == UNCHANGED <<cursor, start>>

SetCursor ==
    /\ cursor' = period
    /\ start' = IF cursor = NoWindow THEN period[1] ELSE start

Suppress ==
    /\ pc = "begun"
    /\ kill
    /\ silenced' = silenced \cup {period}
    /\ SetCursor
    /\ Finished
    /\ UNCHANGED <<now, kill, rows, itemVars, sendVars, orphans, faults>>

\* INSERT OR IGNORE.  A row that was there leaves the cursor where it is.
Enqueue ==
    /\ pc = "begun"
    /\ ~kill
    /\ rows' = rows \cup {period}
    /\ IF period \in rows
       THEN Finished /\ UNCHANGED open
       ELSE pc' = "enqueued" /\ open' = open \cup {period} /\ UNCHANGED period
    /\ UNCHANGED <<now, kill, cursor, itemVars, sent, shown, historyVars, faults>>

Advance ==
    /\ pc = "enqueued"
    /\ SetCursor
    /\ Finished
    /\ UNCHANGED <<now, kill, rows, itemVars, sendVars, silenced, orphans, faults>>

\* The process dies, or a store call of the run raises.
Fail ==
    /\ pc # "idle" /\ faults < MaxFaults
    /\ faults' = faults + 1
    /\ orphans' = IF pc = "enqueued" THEN orphans \cup {period} ELSE orphans
    /\ Finished
    /\ UNCHANGED <<now, kill, cursor, rows, itemVars, sendVars, silenced, start>>

-----------------------------------------------------------------------------
\* The send pass

\* Mutant: the fallback for legacy keys, for every key.
CursorWindow(w) == cursor

\* parse_digest_key of the row's own key.
KeyWindow(w) == w

In(w, t) == w[1] <= t /\ t < w[2]

\* build_digest_data: what the statistics select between since and until.
DigestData(w) == {i \in Items : storedAt[i] # Never /\ In(KeyWindow(w), occurred[i])}

\* notifier.send got the row to the channel; raising after that leaves the row
\* to be rendered and sent once more.
Send(w) ==
    /\ w \in open
    /\ shown' = shown \cup ({w} \X DigestData(w))
    /\ sent' = sent \cup {w}
    /\ open' \in {open, open \ {w}}
    /\ UNCHANGED <<now, kill, runVars, itemVars, historyVars, faults>>

\* The attempts of the row are used up.
Dead(w) ==
    /\ w \in open
    /\ open' = open \ {w}
    /\ UNCHANGED <<now, kill, runVars, itemVars, sent, shown, historyVars, faults>>

-----------------------------------------------------------------------------
\* The world

Occur(i) ==
    /\ occurred[i] = Never
    /\ occurred' = [occurred EXCEPT ![i] = now]
    /\ UNCHANGED <<now, kill, runVars, storedAt, sendVars, historyVars, faults>>

\* At once, or late: a webhook that was retried, an event the reconcile job
\* recovered.
StoreItem(i) ==
    /\ occurred[i] # Never /\ storedAt[i] = Never
    /\ storedAt' = [storedAt EXCEPT ![i] = now]
    /\ UNCHANGED <<now, kill, runVars, occurred, sendVars, historyVars, faults>>

SetKill(engaged) ==
    /\ kill' = engaged
    /\ UNCHANGED <<now, runVars, itemVars, sendVars, historyVars, faults>>

Tick ==
    /\ now < MaxTime
    /\ now' = now + 1
    /\ UNCHANGED <<kill, runVars, itemVars, sendVars, historyVars, faults>>

Next ==
    \/ Begin \/ Suppress \/ Enqueue \/ Advance \/ Fail
    \/ \E w \in open : Send(w) \/ Dead(w)
    \/ \E i \in Items : Occur(i) \/ StoreItem(i)
    \/ \E engaged \in BOOLEAN : SetKill(engaged)
    \/ Tick

Spec == Init /\ [][Next]_vars

-----------------------------------------------------------------------------
\* Properties

Instants == (0 - Period) .. Never

\* The state has the shape the code gives it; a run has a window exactly while
\* it is under way, and a row is enqueued before its cursor is set.
TypeOK ==
    /\ now \in 0 .. MaxTime /\ kill \in BOOLEAN
    /\ cursor \in Instants \X Instants /\ period \in Instants \X Instants
    /\ rows \subseteq Instants \X Instants
    /\ pc \in {"idle", "begun", "enqueued"}
    /\ pc = "idle" <=> period = NoWindow
    /\ pc = "enqueued" => period \in rows
    /\ occurred \in [Items -> Instants] /\ storedAt \in [Items -> Instants]
    /\ open \subseteq rows /\ sent \subseteq rows /\ orphans \subseteq rows
    /\ shown \subseteq rows \X Items
    /\ silenced \subseteq Instants \X Instants
    /\ start \in Instants
    /\ faults \in 0 .. MaxFaults

\* Since the first cursor no instant is skipped: up to the last cursor, each
\* lies in the window of a digest or in one the kill switch suppressed, however
\* late, twice or interrupted the runs were.
NoInstantSkipped ==
    cursor # NoWindow =>
        \A t \in Instants :
            start <= t /\ t < cursor[2] => \E w \in rows \cup silenced : In(w, t)

Overlap(v, w) == v[1] < w[2] /\ w[1] < v[2]

\* "UNIQUE keeps double-fires harmless" (digest.py:6): two digests report on one
\* instant, or on the same evening, only if a crash separated an enqueue from its
\* cursor, and there is no more than one such digest for each crash.
DigestsOverlapOnlyAfterCrash ==
    /\ Cardinality(orphans) <= faults
    /\ \A v, w \in rows \ orphans :
        v # w => ~Overlap(v, w) /\ (v[2] - w[2] >= MinPeriod \/ w[2] - v[2] >= MinPeriod)

\* "Disengaging the switch later must not dump weeks of backlog" (digest.py:101):
\* what the switch suppressed is in no digest made afterwards.
SilencedStaysSilent ==
    \A s \in silenced : \A w \in rows : Overlap(s, w) => w[2] <= s[2]

\* "Each pending row still renders its own week" (digest.py:5): whatever order the
\* rows are sent in, an item of a sent digest's week is missing from it only if it
\* came to the store after the digest was made.
MissingOnlyIfLate ==
    \A w \in sent : \A i \in Items :
        In(w, occurred[i]) /\ storedAt[i] < w[2] => <<w, i>> \in shown
=============================================================================
