------------------------------ MODULE Reconcile ------------------------------
(***************************************************************************)
(* The reconcile job for one source: it polls what the source retains,     *)
(* stores the events the webhooks did not bring, announces them, and moves *)
(* its cursor.  Beside it the source goes on, its webhooks are delayed or  *)
(* lost, the outbox worker stores and announces those that arrive, and the *)
(* kill switch is flipped.  A run is a thread of its own (to_thread) and   *)
(* every Store method a transaction of its own; a run may die anywhere,    *)
(* with the process or by an exception, and the next one starts over.      *)
(*                                                                         *)
(* The sources of one run are handled one after the other and share only   *)
(* the clock and the switch, so one is enough.  Their three diffs differ   *)
(* in the constants: Since is constant for seerr, whose requests are all   *)
(* polled, the start of the day for tautulli, and exact for radarr and     *)
(* sonarr, which look for webhook twins under another key (Alike); seerr   *)
(* marks no gaps.  An announcement to several channels is in Ingest; here  *)
(* it is one row.                                                          *)
(***************************************************************************)
EXTENDS Integers, FiniteSets

CONSTANTS
    Items,          \* what happens at the source and its API then retains
    Keys,           \* source_event_keys of such events
    KeyOf,          \* the key the diff gives an item
    HookKeyOf,      \* the key its webhook gets
    Alike,          \* keys that make the fuzzy lookup skip an item
    Routed,         \* keys whose events the allowlist lets through
    Since,          \* Since[w]: the API is asked for what happened from here on
    Cap,            \* the most records of a poll: max_pages of arr.py and seerr.py,
                    \* length of tautulli.py
    NewestFirst,    \* the API sorts them by date, the newest first
    MarksGaps,      \* source.kind in TRANSIENT_KINDS
    Lookback,       \* DEFAULT_LOOKBACK, in ticks
    MaxTime,        \* bound: the last tick
    MaxFaults       \* bound: runs that die

Never == -1         \* SQL NULL of a time: no cursor, no event
Times == 0 .. MaxTime
GapKey(w) == <<"reconcile.gap", w>>
Markers == {GapKey(w) : w \in Times}
EventKeys == Keys \cup Markers

ASSUME KeysAssumption ==
    /\ KeyOf \in [Items -> Keys] /\ HookKeyOf \in [Items -> Keys]
    /\ Alike \in [Items -> SUBSET Keys]
    /\ Keys \cap Markers = {}
ASSUME SinceAssumption ==
    /\ Since \in [Times -> Times]
    /\ \A w \in Times : Since[w] <= w
ASSUME PollAssumption == Cap \in Nat /\ NewestFirst \in BOOLEAN
ASSUME KindAssumption == MarksGaps \in BOOLEAN
ASSUME TimeAssumption == Lookback \in Nat /\ MaxTime \in Nat /\ MaxFaults \in Nat

VARIABLES
    now,
    date,           \* date[i]: when i happened, Never before it does
    hooks,          \* items whose webhook is on its way, or in the outbox
    owed,           \* keys the worker stored and has still to announce
    origin,         \* events.origin, "none" without an event
    received,       \* events.received_at
    rows,           \* keys with a row in the notifications table
    engaged,        \* KillSwitch.engaged()
    cursor,         \* last_run of the reconcile cursor of this source
    pc,             \* where the run stands
    runNow,         \* the run's now
    windowStart,
    todo,           \* reported items still to compare
    cur,            \* {i} while i is being synthesized
    recovered,      \* the run has synthesized something
    \* History, read by the properties only.
    suppressed,     \* keys not announced because the switch was engaged
    based,          \* keys synthesized by a run that had a cursor
    cut,            \* items in its window that some poll had no place for
    covered,        \* start of the first window a run completed
    faults

worldVars == <<now, date, hooks, owed, engaged, faults>>
eventVars == <<origin, received>>
ledgerVars == <<rows, suppressed>>
cursorVars == <<cursor, covered>>
windowVars == <<runNow, windowStart>>
runVars == <<pc, windowVars, todo, cur, recovered>>
vars == <<worldVars, eventVars, ledgerVars, cursorVars, runVars, based, cut>>

PCs == {"idle", "fetch", "diff", "apply", "announce", "gap", "announceGap", "cursor"}

Init ==
    /\ now = 0
    /\ date = [i \in Items |-> Never]
    /\ hooks = {} /\ owed = {}
    /\ origin = [k \in EventKeys |-> "none"]
    /\ received = [k \in EventKeys |-> Never]
    /\ rows = {}
    /\ engaged = TRUE
    /\ cursor = Never
    /\ pc = "idle" /\ runNow = 0 /\ windowStart = 0
    /\ todo = {} /\ cur = {} /\ recovered = FALSE
    /\ suppressed = {} /\ based = {} /\ cut = {} /\ covered = Never
    /\ faults = 0

Stored(k) == origin[k] # "none"

InsertEvent(k, from, at) ==
    /\ origin' = [origin EXCEPT ![k] = from]
    /\ received' = [received EXCEPT ![k] = at]

\* enqueue_for_event: INSERT OR IGNORE of the row, unless the switch is engaged.
Announce(k) ==
    /\ rows' = IF k \in Routed /\ ~engaged THEN rows \cup {k} ELSE rows
    /\ suppressed' = IF k \in Routed /\ engaged THEN suppressed \cup {k} ELSE suppressed

-----------------------------------------------------------------------------
\* The source and its webhooks

Happen(i) ==
    /\ date[i] = Never
    /\ date' = [date EXCEPT ![i] = now]
    /\ hooks' = hooks \cup {i}
    /\ UNCHANGED <<now, owed, engaged, eventVars, ledgerVars, faults>>

\* The receiver was down, the secret was wrong, the source gave up.
HookLost(i) ==
    /\ i \in hooks
    /\ hooks' = hooks \ {i}
    /\ UNCHANGED <<now, date, owed, engaged, eventVars, ledgerVars, faults>>

\* The worker stores the event unless it is there, and fans it out in any case;
\* its outbox row outlives a crash between the two.  The received_at of an event
\* of origin webhook, its arrival really, is read nowhere.
HookStored(i) ==
    LET k == HookKeyOf[i] IN
    /\ i \in hooks
    /\ hooks' = hooks \ {i}
    /\ IF Stored(k) THEN UNCHANGED eventVars ELSE InsertEvent(k, "webhook", now)
    /\ owed' = owed \cup {k}
    /\ UNCHANGED <<now, date, engaged, ledgerVars, faults>>

HookAnnounced(k) ==
    /\ k \in owed
    /\ owed' = owed \ {k}
    /\ Announce(k)
    /\ UNCHANGED <<now, date, hooks, engaged, eventVars, faults>>

SetKill(on) ==
    /\ engaged' = on
    /\ UNCHANGED <<now, date, hooks, owed, eventVars, ledgerVars, faults>>

Tick ==
    /\ now < MaxTime
    /\ now' = now + 1
    /\ UNCHANGED <<date, hooks, owed, engaged, eventVars, ledgerVars, faults>>

-----------------------------------------------------------------------------
\* A run.  The scheduler never starts two at a time, and the interval keeps
\* them more than a tick of the clock apart.

StartRun ==
    /\ pc = "idle"
    /\ now > cursor
    /\ runNow' = now
    /\ windowStart' = IF cursor # Never THEN cursor
                      ELSE IF now > Lookback THEN now - Lookback ELSE 0
    /\ pc' = "fetch"
    /\ UNCHANGED <<eventVars, ledgerVars, cursorVars, todo, cur, recovered, based, cut>>

Reported == {i \in Items : date[i] # Never /\ date[i] >= Since[windowStart]}

\* Pages end at the cap, and records no event is made of (failed grabs, partial
\* plays) take places too.  What has no place is the oldest; in seerr's list, which
\* comes in the server's order, it is any.
FitsPoll(polled) ==
    /\ Cardinality(polled) <= Cap
    /\ NewestFirst => \A i \in polled, j \in Reported \ polled : date[j] <= date[i]

\* get_requests or get_history.
Fetch ==
    /\ pc = "fetch"
    /\ \E polled \in SUBSET Reported :
        /\ FitsPoll(polled)
        /\ todo' = polled
        /\ cut' = cut \cup (Reported \ polled)
    /\ pc' = "diff"
    /\ UNCHANGED <<eventVars, ledgerVars, cursorVars, windowVars, cur, recovered, based>>

\* Mutants: no repair; a repair that includes the run that set the cursor.
RepairNothing(k) == UNCHANGED ledgerVars
RepairAtStart(k) ==
    IF origin[k] = "reconcile" /\ received[k] >= windowStart
    THEN Announce(k) ELSE UNCHANGED ledgerVars

\* An event of a run that died after its insert is announced; one of a
\* completed run has received_at = cursor = windowStart and is left alone.
Repair(k) ==
    IF origin[k] = "reconcile" /\ received[k] > windowStart
    THEN Announce(k) ELSE UNCHANGED ledgerVars

Known(i) ==
    /\ pc = "diff"
    /\ Stored(KeyOf[i])
    /\ Repair(KeyOf[i])
    /\ todo' = todo \ {i}
    /\ UNCHANGED <<eventVars, cursorVars, pc, windowVars, cur, recovered, based, cut>>

\* event_key_like for a record with a downloadId, has_event_near for a delete.
HasTwin(i) == \E k \in Alike[i] : Stored(k)

Collapsed(i) ==
    /\ pc = "diff"
    /\ ~Stored(KeyOf[i])
    /\ HasTwin(i)
    /\ todo' = todo \ {i}
    /\ UNCHANGED <<eventVars, ledgerVars, cursorVars, pc, windowVars, cur, recovered, based, cut>>

Missing(i) ==
    /\ pc = "diff"
    /\ ~Stored(KeyOf[i])
    /\ ~HasTwin(i)
    /\ cur' = {i}
    /\ pc' = "apply"
    /\ UNCHANGED <<eventVars, ledgerVars, cursorVars, windowVars, todo, recovered, based, cut>>

\* Mutant: the item stays current.
ComparedButCurrent(i) ==
    /\ todo' = todo \ {i}
    /\ UNCHANGED cur
    /\ pc' = "diff"

Compared(i) ==
    /\ todo' = todo \ {i}
    /\ cur' = {}
    /\ pc' = "diff"

\* insert_event with received_at = the run's now.
InsertRecovered(k) ==
    /\ InsertEvent(k, "reconcile", runNow)
    /\ based' = IF cursor = Never THEN based ELSE based \cup {k}

\* The worker was faster: the insert is ignored, and the fan-out is the worker's.
LateInsert(i) ==
    /\ pc = "apply"
    /\ Stored(KeyOf[i])
    /\ Compared(i)
    /\ UNCHANGED <<eventVars, ledgerVars, cursorVars, windowVars, recovered, based, cut>>

Synthesize(i) ==
    /\ pc = "apply"
    /\ ~Stored(KeyOf[i])
    /\ InsertRecovered(KeyOf[i])
    /\ recovered' = TRUE
    /\ pc' = "announce"
    /\ UNCHANGED <<ledgerVars, cursorVars, windowVars, todo, cur, cut>>

AnnounceRecovered(i) ==
    /\ pc = "announce"
    /\ Announce(KeyOf[i])
    /\ Compared(i)
    /\ UNCHANGED <<eventVars, cursorVars, windowVars, recovered, based, cut>>

EndOfDiff ==
    /\ pc = "diff"
    /\ todo = {}
    /\ pc' = IF MarksGaps THEN "gap" ELSE "cursor"
    /\ UNCHANGED <<eventVars, ledgerVars, cursorVars, windowVars, todo, cur, recovered, based, cut>>

-----------------------------------------------------------------------------
\* _mark_gap

NewestMarker(k) ==
    k \in Markers /\ Stored(k) /\ \A m \in Markers : received[m] <= received[k]

\* Nothing new: a marker of a run that died may still have to be announced.
RepairMarker ==
    /\ pc = "gap"
    /\ ~recovered
    /\ \/ \E k \in Markers : NewestMarker(k) /\ Repair(k)
       \/ (\A k \in Markers : ~Stored(k)) /\ UNCHANGED ledgerVars
    /\ pc' = "cursor"
    /\ UNCHANGED <<eventVars, cursorVars, windowVars, todo, cur, recovered, based, cut>>

MarkerExists ==
    /\ pc = "gap"
    /\ recovered
    /\ Stored(GapKey(windowStart))
    /\ Repair(GapKey(windowStart))
    /\ pc' = "cursor"
    /\ UNCHANGED <<eventVars, cursorVars, windowVars, todo, cur, recovered, based, cut>>

MarkGap ==
    /\ pc = "gap"
    /\ recovered
    /\ ~Stored(GapKey(windowStart))
    /\ InsertRecovered(GapKey(windowStart))
    /\ pc' = "announceGap"
    /\ UNCHANGED <<ledgerVars, cursorVars, windowVars, todo, cur, recovered, cut>>

AnnounceGap ==
    /\ pc = "announceGap"
    /\ Announce(GapKey(windowStart))
    /\ pc' = "cursor"
    /\ UNCHANGED <<eventVars, cursorVars, windowVars, todo, cur, recovered, based, cut>>

\* The locals of the run are gone.
RunEnds ==
    /\ pc' = "idle" /\ todo' = {} /\ cur' = {}
    /\ runNow' = 0 /\ windowStart' = 0 /\ recovered' = FALSE
    /\ UNCHANGED <<eventVars, ledgerVars, based, cut>>

\* Mutant: the cursor is set to the end of the run.
SetCursorToEnd ==
    /\ pc = "cursor"
    /\ cursor' = now
    /\ covered' = IF covered = Never THEN windowStart ELSE covered
    /\ RunEnds

\* The cursor becomes the start of the run, not its end.
SetCursor ==
    /\ pc = "cursor"
    /\ cursor' = runNow
    /\ covered' = IF covered = Never THEN windowStart ELSE covered
    /\ RunEnds

\* The process dies, or the client or the store raises and the source's turn
\* ends without a cursor.  What the worker owes is in its outbox.
RunDies ==
    /\ pc # "idle"
    /\ faults < MaxFaults
    /\ faults' = faults + 1
    /\ RunEnds
    /\ UNCHANGED <<now, date, hooks, owed, engaged, cursorVars>>

-----------------------------------------------------------------------------
Compare == \E i \in todo : Known(i) \/ Collapsed(i) \/ Missing(i)
Recover == \E i \in cur : LateInsert(i) \/ Synthesize(i) \/ AnnounceRecovered(i)
Gap == RepairMarker \/ MarkerExists \/ MarkGap \/ AnnounceGap

\* A run and the rest of the system share the events and the ledger; neither
\* touches what is the other's.
Run ==
    /\ StartRun \/ Fetch \/ Compare \/ Recover \/ EndOfDiff \/ Gap \/ SetCursor
    /\ UNCHANGED worldVars

Others ==
    /\ \/ \E i \in Items : Happen(i) \/ HookLost(i) \/ HookStored(i)
       \/ \E k \in Keys : HookAnnounced(k)
       \/ \E on \in BOOLEAN : SetKill(on)
       \/ Tick
    /\ UNCHANGED <<cursorVars, runVars, based, cut>>

Next == Run \/ Others \/ RunDies

Spec == Init /\ [][Next]_vars

-----------------------------------------------------------------------------
\* Properties

\* The state has the shape the code gives it; an event has a received_at, and
\* an item is current exactly while it is being synthesized.
TypeOK ==
    /\ now \in Times
    /\ date \in [Items -> Times \cup {Never}]
    /\ hooks \subseteq Items /\ owed \subseteq Keys
    /\ origin \in [EventKeys -> {"none", "webhook", "reconcile"}]
    /\ received \in [EventKeys -> Times \cup {Never}]
    /\ \A k \in EventKeys : Stored(k) <=> received[k] # Never
    /\ rows \subseteq EventKeys /\ suppressed \subseteq EventKeys
    /\ engaged \in BOOLEAN
    /\ cursor \in Times \cup {Never} /\ covered \in Times \cup {Never}
    /\ pc \in PCs
    /\ runNow \in Times /\ windowStart \in Times
    /\ todo \subseteq Items /\ cur \subseteq todo
    /\ (cur = {}) <=> (pc \notin {"apply", "announce"})
    /\ recovered \in BOOLEAN
    /\ based \subseteq EventKeys /\ cut \subseteq Items
    /\ faults \in 0 .. MaxFaults

\* The item has an event, its own or one the fuzzy lookup takes for it.
Represented(i) == Stored(KeyOf[i]) \/ HasTwin(i)

\* Polls are ground truth for what they return: whatever happened between the
\* first completed window and the cursor, and had its place in every poll that
\* reached back to it, has an event, however many webhooks were lost, runs died,
\* and things happened while a run was under way.  Of what was cut nothing is
\* said: the cursor moves past it.
TruthCovered ==
    \A i \in Items \ cut :
        date[i] # Never /\ covered # Never /\ covered <= date[i] /\ date[i] < cursor
            => Represented(i)

\* The first completed window reaches back to the event and to what it tells of,
\* which was there before the run that stored the event began.
InFirstWindow(k) ==
    /\ covered # Never
    /\ covered < received[k]
    /\ \E i \in Items :
        /\ KeyOf[i] = k
        /\ date[i] # Never /\ Since[covered] <= date[i] /\ date[i] < received[k]

\* No poll was without a place for an item of this key.
NeverCut(k) == \A i \in cut : KeyOf[i] # k

\* What the job stored it also announced, or the switch suppressed it, once a
\* run has completed: the repair catches what a run that died between insert and
\* enqueue left behind, gap markers included.  A run that died before there was a
\* cursor had another window, as it moves on with the clock: of what such a run
\* stored, the repair catches what lies in the first completed window.  It needs
\* the item in the poll again, where newer ones may have taken its place.
RecoveredIsAnnounced ==
    \A k \in Routed :
        origin[k] = "reconcile" /\ received[k] <= cursor /\ NeverCut(k)
        => (k \in based \/ InFirstWindow(k) => k \in rows \cup suppressed)

\* Turning the switch off floods nothing: an event that a completed run stored
\* without announcing it is not announced by a later one, only by a late webhook.
QuietStaysQuiet ==
    [][\A k \in EventKeys \ (rows \cup owed) :
        origin[k] = "reconcile" /\ received[k] <= cursor => k \notin rows']_vars

-----------------------------------------------------------------------------
\* What the repository says of this code and the code does not do

\* reconcile.py:11, "When a source recovered missed events and has flag-only
\* kinds, one reconcile.gap marker event is stored for the window".
GapIsMarked ==
    MarksGaps =>
        \A k \in based \cap Keys :
            received[k] <= cursor => \E m \in Markers : received[m] >= received[k]
=============================================================================
