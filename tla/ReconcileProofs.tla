-------------------------- MODULE ReconcileProofs --------------------------
(***************************************************************************)
(* Proofs about Reconcile for every value of its constants.                *)
(***************************************************************************)
EXTENDS Reconcile, TLAPS

-----------------------------------------------------------------------------
\* Types

LEMMA TypeInit == Init => TypeOK
<1> SUFFICES ASSUME Init PROVE TypeOK
  OBVIOUS
<1>1. 0 \in Times /\ Never \notin Times /\ 0 \in 0 .. MaxFaults
  BY TimeAssumption, SMT DEF Times, Never
<1>2. /\ date \in [Items -> Times \cup {Never}]
      /\ origin \in [EventKeys -> {"none", "webhook", "reconcile"}]
      /\ received \in [EventKeys -> Times \cup {Never}]
      /\ \A k \in EventKeys : Stored(k) <=> received[k] # Never
  BY DEF Init, Stored
<1> QED
  BY <1>1, <1>2 DEF Init, TypeOK, PCs

\* A step of Others or of a run keeps what it leaves alone; what it writes has
\* its type.
LEMMA InsertType ==
    ASSUME TypeOK, NEW k \in EventKeys, NEW from \in {"webhook", "reconcile"},
           NEW at \in Times, InsertEvent(k, from, at)
    PROVE  /\ origin' \in [EventKeys -> {"none", "webhook", "reconcile"}]
           /\ received' \in [EventKeys -> Times \cup {Never}]
           /\ \A q \in EventKeys : Stored(q)' <=> received'[q] # Never
BY SMT DEF TypeOK, InsertEvent, Stored, Times, Never

LEMMA AnnounceType ==
    ASSUME TypeOK, NEW k \in EventKeys, Announce(k)
    PROVE  rows' \subseteq EventKeys /\ suppressed' \subseteq EventKeys
BY DEF TypeOK, Announce

LEMMA RepairType ==
    ASSUME TypeOK, NEW k \in EventKeys, Repair(k)
    PROVE  rows' \subseteq EventKeys /\ suppressed' \subseteq EventKeys
BY AnnounceType DEF TypeOK, Repair, ledgerVars

\* The keys of items and markers are event keys.
LEMMA KeyTypes ==
    /\ \A i \in Items : KeyOf[i] \in EventKeys /\ HookKeyOf[i] \in EventKeys
    /\ \A w \in Times : GapKey(w) \in EventKeys
    /\ Keys \subseteq EventKeys /\ Markers \subseteq EventKeys
BY KeysAssumption DEF EventKeys, Markers

LEMMA StoredSame ==
    ASSUME UNCHANGED origin, NEW k
    PROVE  Stored(k)' <=> Stored(k)
BY DEF Stored

LEMMA OthersType == TypeOK /\ Others => TypeOK'
<1> SUFFICES ASSUME TypeOK, Others PROVE TypeOK'
  OBVIOUS
<1> USE TimeAssumption, KeysAssumption, KeyTypes
<1>0. UNCHANGED <<cursorVars, runVars, based, cut>>
  BY DEF Others
<1>1. ASSUME NEW i \in Items, Happen(i) PROVE TypeOK'
  BY <1>0, <1>1, SMT DEF Happen, TypeOK, eventVars, ledgerVars, cursorVars, runVars, windowVars, Stored
<1>2. ASSUME NEW i \in Items, HookLost(i) PROVE TypeOK'
  BY <1>0, <1>2, SMT DEF HookLost, TypeOK, eventVars, ledgerVars, cursorVars, runVars, windowVars, Stored
<1>3. ASSUME NEW i \in Items, HookStored(i) PROVE TypeOK'
  <2>1. /\ origin' \in [EventKeys -> {"none", "webhook", "reconcile"}]
        /\ received' \in [EventKeys -> Times \cup {Never}]
        /\ \A q \in EventKeys : Stored(q)' <=> received'[q] # Never
    <3>1. CASE Stored(HookKeyOf[i])
      BY <1>3, <3>1, StoredSame DEF HookStored, TypeOK, eventVars
    <3>2. CASE ~Stored(HookKeyOf[i])
      BY <1>3, <3>2, InsertType DEF HookStored, TypeOK
    <3> QED
      BY <3>1, <3>2
  <2> QED
    BY <1>0, <1>3, <2>1 DEF HookStored, TypeOK, ledgerVars, cursorVars, runVars, windowVars
<1>4. ASSUME NEW k \in Keys, HookAnnounced(k) PROVE TypeOK'
  <2>1. rows' \subseteq EventKeys /\ suppressed' \subseteq EventKeys
    BY <1>4, AnnounceType DEF HookAnnounced
  <2> QED
    BY <1>0, <1>4, <2>1 DEF HookAnnounced, TypeOK, eventVars, cursorVars, runVars, windowVars, Stored
<1>5. ASSUME NEW on \in BOOLEAN, SetKill(on) PROVE TypeOK'
  BY <1>0, <1>5 DEF SetKill, TypeOK, eventVars, ledgerVars, cursorVars, runVars, windowVars, Stored
<1>6. CASE Tick
  BY <1>0, <1>6, SMT
     DEF Tick, TypeOK, Times, eventVars, ledgerVars, cursorVars, runVars, windowVars, Stored
<1> QED
  BY <1>1, <1>2, <1>3, <1>4, <1>5, <1>6 DEF Others

LEMMA RunType == TypeOK /\ (Run \/ RunDies) => TypeOK'
<1> SUFFICES ASSUME TypeOK, Run \/ RunDies PROVE TypeOK'
  OBVIOUS
<1> USE TimeAssumption, KeysAssumption, KeyTypes
<1>0. /\ UNCHANGED <<now, date, hooks, owed, engaged>>
      /\ faults' \in 0 .. MaxFaults
  BY SMT DEF Run, RunDies, worldVars, TypeOK
<1>e. ASSUME UNCHANGED eventVars
      PROVE  /\ origin' \in [EventKeys -> {"none", "webhook", "reconcile"}]
             /\ received' \in [EventKeys -> Times \cup {Never}]
             /\ \A q \in EventKeys : Stored(q)' <=> received'[q] # Never
  BY <1>e DEF TypeOK, eventVars, Stored
<1>1. CASE StartRun
  <2>1. windowStart' \in Times
    BY <1>1, SMT DEF StartRun, TypeOK, Times, Never
  <2> QED
    BY <1>0, <1>1, <1>e, <2>1 DEF StartRun, TypeOK, ledgerVars, cursorVars, PCs
<1>2. CASE Fetch
  <2>1. todo' \subseteq Items /\ cut' \subseteq Items
    BY <1>2 DEF Fetch, Reported, TypeOK
  <2> QED
    BY <1>0, <1>2, <1>e, <2>1 DEF Fetch, TypeOK, ledgerVars, cursorVars, windowVars, PCs
<1>3. ASSUME NEW i \in todo, Known(i) PROVE TypeOK'
  <2>1. rows' \subseteq EventKeys /\ suppressed' \subseteq EventKeys
    BY <1>3, RepairType DEF Known, TypeOK
  <2> QED
    BY <1>0, <1>3, <1>e, <2>1 DEF Known, TypeOK, cursorVars, windowVars, PCs
<1>4. ASSUME NEW i \in todo, Collapsed(i) \/ Missing(i) PROVE TypeOK'
  BY <1>0, <1>4, <1>e DEF Collapsed, Missing, TypeOK, ledgerVars, cursorVars, windowVars, PCs
<1>5. ASSUME NEW i \in cur, LateInsert(i) PROVE TypeOK'
  BY <1>0, <1>5, <1>e DEF LateInsert, Compared, TypeOK, ledgerVars, cursorVars, windowVars, PCs
<1>6. ASSUME NEW i \in cur, Synthesize(i) PROVE TypeOK'
  <2>1. KeyOf[i] \in EventKeys /\ runNow \in Times
    BY DEF TypeOK
  <2>2. /\ origin' \in [EventKeys -> {"none", "webhook", "reconcile"}]
        /\ received' \in [EventKeys -> Times \cup {Never}]
        /\ \A q \in EventKeys : Stored(q)' <=> received'[q] # Never
    BY <1>6, <2>1, InsertType DEF Synthesize, InsertRecovered
  <2>3. based' \subseteq EventKeys
    BY <1>6, <2>1 DEF Synthesize, InsertRecovered, TypeOK
  <2> QED
    BY <1>0, <1>6, <2>2, <2>3 DEF Synthesize, TypeOK, ledgerVars, cursorVars, windowVars, PCs
<1>7. ASSUME NEW i \in cur, AnnounceRecovered(i) PROVE TypeOK'
  <2>1. rows' \subseteq EventKeys /\ suppressed' \subseteq EventKeys
    BY <1>7, AnnounceType DEF AnnounceRecovered, TypeOK
  <2> QED
    BY <1>0, <1>7, <1>e, <2>1 DEF AnnounceRecovered, Compared, TypeOK, cursorVars, windowVars, PCs
<1>8. CASE EndOfDiff
  BY <1>0, <1>8, <1>e DEF EndOfDiff, TypeOK, ledgerVars, cursorVars, windowVars, PCs
<1>9. CASE RepairMarker \/ MarkerExists \/ AnnounceGap
  <2>1. rows' \subseteq EventKeys /\ suppressed' \subseteq EventKeys
    <3>1. CASE UNCHANGED ledgerVars
      BY <3>1 DEF TypeOK, ledgerVars
    <3>2. CASE \E k \in EventKeys : Repair(k) \/ Announce(k)
      BY <3>2, RepairType, AnnounceType
    <3> QED
      BY <1>9, <3>1, <3>2 DEF RepairMarker, MarkerExists, AnnounceGap, TypeOK
  <2> QED
    BY <1>0, <1>9, <1>e, <2>1
       DEF RepairMarker, MarkerExists, AnnounceGap, TypeOK, cursorVars, windowVars, PCs
<1>10. CASE MarkGap
  <2>1. GapKey(windowStart) \in EventKeys /\ runNow \in Times
    BY DEF TypeOK
  <2>2. /\ origin' \in [EventKeys -> {"none", "webhook", "reconcile"}]
        /\ received' \in [EventKeys -> Times \cup {Never}]
        /\ \A q \in EventKeys : Stored(q)' <=> received'[q] # Never
    BY <1>10, <2>1, InsertType DEF MarkGap, InsertRecovered
  <2>3. based' \subseteq EventKeys
    BY <1>10, <2>1 DEF MarkGap, InsertRecovered, TypeOK
  <2> QED
    BY <1>0, <1>10, <2>2, <2>3 DEF MarkGap, TypeOK, ledgerVars, cursorVars, windowVars, PCs
<1>11. CASE SetCursor \/ RunDies
  <2>1. /\ cursor' \in Times \cup {Never} /\ covered' \in Times \cup {Never}
        /\ RunEnds
    BY <1>11 DEF SetCursor, RunDies, TypeOK, cursorVars
  <2>2. 0 \in Times
    BY SMT DEF Times
  <2> QED
    BY <1>0, <1>e, <2>1, <2>2 DEF RunEnds, TypeOK, ledgerVars, PCs
<1> QED
  BY <1>1, <1>2, <1>3, <1>4, <1>5, <1>6, <1>7, <1>8, <1>9, <1>10, <1>11
     DEF Run, Compare, Recover, Gap

LEMMA TypeStep == TypeOK /\ [Next]_vars => TypeOK'
<1>1. TypeOK /\ UNCHANGED vars => TypeOK'
  BY DEF TypeOK, vars, worldVars, eventVars, ledgerVars, cursorVars, runVars, windowVars, Stored
<1> QED
  BY <1>1, OthersType, RunType DEF Next

\* Every reachable state has its type.
THEOREM TypeCorrect == Spec => []TypeOK
BY TypeInit, TypeStep, PTL DEF Spec
-----------------------------------------------------------------------------
\* The window of a run

\* A run that has a cursor looks from the cursor on, and its now lies after it;
\* the cursor and the first covered instant come into being together.
WindowInv ==
    /\ cursor <= now
    /\ cursor = Never <=> covered = Never
    /\ pc # "idle" =>
        /\ cursor < runNow /\ runNow <= now
        /\ cursor # Never => windowStart = cursor

LEMMA WindowStep == TypeOK /\ WindowInv /\ [Next]_vars => WindowInv'
<1> SUFFICES ASSUME TypeOK, WindowInv, [Next]_vars PROVE WindowInv'
  OBVIOUS
<1>0. /\ now \in Nat /\ cursor \in Int /\ runNow \in Nat /\ windowStart \in Nat
      /\ Never = -1
  BY SMT DEF TypeOK, Times, Never
<1>1. CASE Others
  <2>1. now <= now' /\ now' \in Int
    BY <1>0, <1>1, SMT DEF Others, Happen, HookLost, HookStored, HookAnnounced, SetKill, Tick
  <2>2. UNCHANGED <<cursor, covered, pc, runNow, windowStart>>
    BY <1>1 DEF Others, cursorVars, runVars, windowVars
  <2> QED
    BY <1>0, <2>1, <2>2, SMT DEF WindowInv
<1>2. CASE StartRun /\ UNCHANGED worldVars
  BY <1>0, <1>2, SMT DEF StartRun, WindowInv, worldVars, cursorVars
<1>3. CASE /\ UNCHANGED <<now, cursorVars, windowVars>>
           /\ pc # "idle"
  BY <1>3 DEF WindowInv, cursorVars, windowVars
<1>4. CASE Fetch \/ Compare \/ Recover \/ EndOfDiff \/ Gap
  <2>1. UNCHANGED <<cursorVars, windowVars>> /\ pc # "idle"
    BY <1>4 DEF Fetch, Compare, Known, Collapsed, Missing, Recover, LateInsert, Synthesize,
                AnnounceRecovered, EndOfDiff, Gap, RepairMarker, MarkerExists, MarkGap, AnnounceGap
  <2>2. CASE UNCHANGED now
    BY <1>3, <2>1, <2>2
  <2> QED
    BY <1>1, <2>1, <2>2 DEF Next, Run, RunDies, worldVars, vars
<1>5. CASE SetCursor /\ UNCHANGED worldVars
  BY <1>0, <1>5, SMT DEF SetCursor, RunEnds, WindowInv, worldVars
<1>6. CASE RunDies
  BY <1>6 DEF RunDies, RunEnds, WindowInv, cursorVars
<1>7. CASE UNCHANGED vars
  BY <1>7 DEF vars, worldVars, cursorVars, runVars, windowVars, WindowInv
<1> QED
  BY <1>1, <1>2, <1>4, <1>5, <1>6, <1>7 DEF Next, Run

LEMMA WindowInit == Init => WindowInv
BY SMT DEF Init, WindowInv, Never

-----------------------------------------------------------------------------
\* What happened before the cursor is represented

\* What a poll left out stays noted as left out.
LEMMA CutGrows == ASSUME [Next]_vars PROVE cut \subseteq cut'
BY DEF Next, Others, RunDies, RunEnds, vars, Run, StartRun, Fetch, Compare, Known, Collapsed,
       Missing, Recover, LateInsert, Synthesize, AnnounceRecovered, EndOfDiff, Gap, RepairMarker,
       MarkerExists, MarkGap, AnnounceGap, SetCursor

\* While a run compares, what happened in its window before it started, and no
\* poll left out, is still to be compared or is represented; afterwards it is
\* represented.
InWindow(i) == date[i] # Never /\ windowStart <= date[i] /\ date[i] < runNow

DiffInv ==
    \A i \in Items \ cut : InWindow(i) =>
        /\ pc \in {"diff", "apply", "announce"} => i \in todo \/ Represented(i)
        /\ pc \in {"gap", "announceGap", "cursor"} => Represented(i)

\* One item is synthesized at a time, and what is about to be announced was
\* stored by this run.
Synthesizing ==
    /\ \A i, j \in cur : i = j
    /\ pc = "announce" =>
        \A i \in cur : Stored(KeyOf[i]) /\ received[KeyOf[i]] = runNow
    /\ pc = "announceGap" =>
        Stored(GapKey(windowStart)) /\ received[GapKey(windowStart)] = runNow

CoverInv == TypeOK /\ WindowInv /\ DiffInv /\ Synthesizing /\ TruthCovered

\* Events are never deleted or overwritten, so what is represented stays so.
LEMMA EventsStay ==
    ASSUME TypeOK, [Next]_vars, NEW k \in EventKeys, Stored(k)
    PROVE  Stored(k)' /\ origin'[k] = origin[k] /\ received'[k] = received[k]
<1> USE KeyTypes
<1> DEFINE Kept == Stored(k)' /\ origin'[k] = origin[k] /\ received'[k] = received[k]
<1>1. ASSUME NEW q \in EventKeys, ~Stored(q),
             NEW from \in {"webhook", "reconcile"}, NEW at, InsertEvent(q, from, at)
      PROVE  Kept
  BY <1>1 DEF InsertEvent, Stored, TypeOK
<1>2. ASSUME UNCHANGED eventVars PROVE Kept
  BY <1>2 DEF Stored, eventVars
<1>3. ASSUME NEW i \in Items, HookStored(i) PROVE Kept
  BY <1>1, <1>2, <1>3 DEF HookStored
<1>4. CASE Others
  BY <1>2, <1>3, <1>4 DEF Others, Happen, HookLost, HookAnnounced, SetKill, Tick
<1>5. ASSUME NEW i \in cur, Synthesize(i) PROVE Kept
  BY <1>1, <1>5 DEF Synthesize, InsertRecovered, TypeOK
<1>6. CASE MarkGap
  BY <1>1, <1>6 DEF MarkGap, InsertRecovered, TypeOK
<1>7. CASE Run
  BY <1>2, <1>5, <1>6, <1>7
     DEF Run, StartRun, Fetch, Compare, Known, Collapsed, Missing, Recover, LateInsert,
         AnnounceRecovered, EndOfDiff, Gap, RepairMarker, MarkerExists, AnnounceGap,
         SetCursor, RunEnds
<1>8. CASE RunDies \/ UNCHANGED vars
  BY <1>2, <1>8 DEF RunDies, RunEnds, vars
<1> QED
  BY <1>4, <1>7, <1>8 DEF Next

LEMMA RepresentedStays ==
    ASSUME TypeOK, [Next]_vars, NEW i \in Items, Represented(i)
    PROVE  Represented(i)'
<1>1. KeyOf[i] \in EventKeys /\ Alike[i] \subseteq EventKeys
  BY KeyTypes, KeysAssumption
<1> QED
  BY <1>1, EventsStay DEF Represented, HasTwin

\* The steps of a run and what they do to its list of items.
LEMMA CompareStep ==
    ASSUME CoverInv, NEW i \in Items, i \notin cut',
           Fetch \/ Compare \/ Recover \/ EndOfDiff \/ Gap, UNCHANGED worldVars,
           InWindow(i), [Next]_vars
    PROVE  /\ pc' \in {"diff", "apply", "announce"} => i \in todo' \/ Represented(i)'
           /\ pc' \in {"gap", "announceGap", "cursor"} => Represented(i)'
<1> DEFINE Kept == /\ pc' \in {"diff", "apply", "announce"} => i \in todo' \/ Represented(i)'
                   /\ pc' \in {"gap", "announceGap", "cursor"} => Represented(i)'
<1>0. i \in Items \ cut /\ (Represented(i) => Represented(i)')
  BY CutGrows, RepresentedStays DEF CoverInv
<1>1. CASE Fetch
  <2>1. /\ windowStart \in Times
        /\ date[i] # Never => date[i] \in Times
    BY DEF CoverInv, TypeOK
  <2>2. Since[windowStart] \in Times /\ Since[windowStart] <= windowStart
    BY <2>1, SinceAssumption
  <2>3. InWindow(i) => i \in Reported
    BY <2>1, <2>2, SMT DEF Reported, InWindow, Times, Never
  <2> QED
    BY <1>1, <2>3 DEF Fetch
<1>2. ASSUME NEW j \in todo, Known(j) \/ Collapsed(j) PROVE Kept
  <2>1. Represented(j)
    BY <1>2 DEF Known, Collapsed, Represented
  <2>2. i \in todo \/ Represented(i)
    BY <1>0, <1>2 DEF CoverInv, DiffInv, Known, Collapsed
  <2> QED
    BY <1>0, <1>2, <2>1, <2>2 DEF Known, Collapsed
<1>3. ASSUME NEW j \in todo, Missing(j) PROVE Kept
  BY <1>0, <1>3 DEF CoverInv, DiffInv, Missing
<1>4. ASSUME NEW j \in cur, LateInsert(j) \/ AnnounceRecovered(j) PROVE Kept
  <2>1. Represented(j)
    BY <1>4 DEF LateInsert, AnnounceRecovered, CoverInv, Synthesizing, Represented
  <2>2. i \in todo \/ Represented(i)
    BY <1>0, <1>4 DEF CoverInv, DiffInv, LateInsert, AnnounceRecovered
  <2> QED
    BY <1>0, <1>4, <2>1, <2>2 DEF LateInsert, AnnounceRecovered, Compared
<1>5. ASSUME NEW j \in cur, Synthesize(j) PROVE Kept
  BY <1>0, <1>5 DEF CoverInv, DiffInv, Synthesize
<1>6. CASE EndOfDiff
  BY <1>0, <1>6 DEF CoverInv, DiffInv, EndOfDiff
<1>7. CASE Gap
  BY <1>0, <1>7 DEF CoverInv, DiffInv, Gap, RepairMarker, MarkerExists, MarkGap, AnnounceGap
<1> QED
  BY <1>1, <1>2, <1>3, <1>4, <1>5, <1>6, <1>7 DEF Compare, Recover

LEMMA DiffStep == CoverInv /\ [Next]_vars => DiffInv'
<1> SUFFICES ASSUME CoverInv, [Next]_vars, NEW i \in Items, i \notin cut', InWindow(i)'
             PROVE  /\ pc' \in {"diff", "apply", "announce"} => i \in todo' \/ Represented(i)'
                    /\ pc' \in {"gap", "announceGap", "cursor"} => Represented(i)'
  BY DEF DiffInv
<1>0. i \in Items \ cut /\ (Represented(i) => Represented(i)')
  BY CutGrows, RepresentedStays DEF CoverInv
<1>1. CASE Others
  <2>1. pc # "idle" => InWindow(i)
    <3>1. UNCHANGED <<runNow, windowStart>>
      BY <1>1 DEF Others, runVars, windowVars
    <3>2. date'[i] = date[i] \/ date'[i] = now
      BY <1>1 DEF Others, Happen, HookLost, HookStored, HookAnnounced, SetKill, Tick, CoverInv, TypeOK
    <3>3. pc # "idle" => runNow <= now
      BY DEF CoverInv, WindowInv
    <3>4. runNow \in Nat /\ now \in Nat
      BY SMT DEF CoverInv, TypeOK, Times
    <3> QED
      BY <3>1, <3>2, <3>3, <3>4, SMT DEF InWindow
  <2> QED
    BY <1>0, <1>1, <2>1 DEF Others, runVars, CoverInv, DiffInv
<1>2. CASE (Fetch \/ Compare \/ Recover \/ EndOfDiff \/ Gap) /\ UNCHANGED worldVars
  <2>1. UNCHANGED <<date, windowVars>>
    BY <1>2 DEF worldVars, Fetch, Compare, Known, Collapsed, Missing, Recover, LateInsert,
                Synthesize, AnnounceRecovered, EndOfDiff, Gap, RepairMarker, MarkerExists,
                MarkGap, AnnounceGap
  <2>2. InWindow(i)
    BY <2>1 DEF InWindow, windowVars
  <2> QED
    BY <1>2, <2>2, CompareStep
<1>3. CASE StartRun \/ SetCursor \/ RunDies
  BY <1>3 DEF StartRun, SetCursor, RunDies, RunEnds
<1>4. CASE UNCHANGED vars
  BY <1>0, <1>4 DEF vars, worldVars, runVars, windowVars, InWindow, CoverInv, DiffInv
<1> QED
  BY <1>1, <1>2, <1>3, <1>4 DEF Next, Run

\* A step that goes on with the same announcement keeps what is known of it.
LEMMA AnnouncementStays ==
    ASSUME TypeOK, Synthesizing, [Next]_vars,
           UNCHANGED <<cur, runNow, windowStart>>,
           pc' \in {"announce", "announceGap"} => pc' = pc
    PROVE  Synthesizing'
<1>1. /\ \A i \in cur : KeyOf[i] \in EventKeys
      /\ GapKey(windowStart) \in EventKeys
  BY KeyTypes DEF TypeOK
<1>2. ASSUME pc' = "announce", NEW i \in cur
      PROVE  Stored(KeyOf[i])' /\ received'[KeyOf[i]] = runNow'
  BY <1>1, <1>2, EventsStay DEF Synthesizing
<1>3. ASSUME pc' = "announceGap"
      PROVE  Stored(GapKey(windowStart))' /\ received'[GapKey(windowStart)] = runNow'
  BY <1>1, <1>3, EventsStay DEF Synthesizing
<1>4. GapKey(windowStart)' = GapKey(windowStart)
  BY DEF GapKey
<1> QED
  BY <1>2, <1>3, <1>4 DEF Synthesizing

LEMMA SynthesizingStep == TypeOK /\ Synthesizing /\ [Next]_vars => Synthesizing'
<1> SUFFICES ASSUME TypeOK, Synthesizing, [Next]_vars PROVE Synthesizing'
  OBVIOUS
<1> USE KeyTypes
<1>1. ASSUME NEW k \in EventKeys, InsertRecovered(k)
      PROVE  Stored(k)' /\ received'[k] = runNow
  BY <1>1 DEF InsertRecovered, InsertEvent, Stored, TypeOK
<1>2. CASE Others \/ UNCHANGED vars \/ EndOfDiff
  BY <1>2, AnnouncementStays DEF Others, vars, runVars, windowVars, EndOfDiff
<1>3. CASE Fetch \/ RepairMarker \/ MarkerExists \/ AnnounceGap
           \/ \E i \in todo : Known(i) \/ Collapsed(i)
  BY <1>3, AnnouncementStays
     DEF Fetch, RepairMarker, MarkerExists, AnnounceGap, Known, Collapsed, windowVars
<1>4. CASE \E i \in todo : Missing(i)
  BY <1>4 DEF Missing, Synthesizing
<1>5. CASE \E i \in cur : LateInsert(i) \/ AnnounceRecovered(i)
  BY <1>5 DEF LateInsert, AnnounceRecovered, Compared, Synthesizing
<1>6. ASSUME NEW i \in cur, Synthesize(i) PROVE Synthesizing'
  <2>1. cur' = cur /\ runNow' = runNow /\ pc' = "announce"
    BY <1>6 DEF Synthesize, windowVars
  <2>2. \A j \in cur : j = i
    BY DEF Synthesizing
  <2>3. Stored(KeyOf[i])' /\ received'[KeyOf[i]] = runNow
    BY <1>1, <1>6 DEF Synthesize, TypeOK
  <2> QED
    BY <2>1, <2>2, <2>3 DEF Synthesizing
<1>7. CASE MarkGap
  <2>1. /\ cur' = cur /\ runNow' = runNow /\ windowStart' = windowStart
        /\ pc' = "announceGap"
    BY <1>7 DEF MarkGap, windowVars
  <2>2. PICK w \in Times : w = windowStart
    BY DEF TypeOK
  <2>3. InsertRecovered(GapKey(w))
    BY <1>7, <2>2 DEF MarkGap
  <2>4. Stored(GapKey(w))' /\ received'[GapKey(w)] = runNow
    BY <1>1, <2>3
  <2>5. \A i, j \in cur : i = j
    BY DEF Synthesizing
  <2> QED
    BY <2>1, <2>2, <2>4, <2>5 DEF Synthesizing
<1>8. CASE StartRun
  BY <1>8 DEF StartRun, Synthesizing
<1>9. CASE SetCursor \/ RunDies
  BY <1>9 DEF SetCursor, RunDies, RunEnds, Synthesizing
<1> QED
  BY <1>2, <1>3, <1>4, <1>5, <1>6, <1>7, <1>8, <1>9 DEF Next, Run, Compare, Recover, Gap

LEMMA CoveredStep == CoverInv /\ [Next]_vars => TruthCovered'
<1> SUFFICES ASSUME CoverInv, [Next]_vars, NEW i \in Items, i \notin cut',
                    date'[i] # Never, covered' # Never,
                    covered' <= date'[i], date'[i] < cursor'
             PROVE  Represented(i)'
  BY DEF TruthCovered
<1>0. /\ now \in Nat /\ cursor \in Int /\ covered \in Int /\ runNow \in Nat
      /\ windowStart \in Nat /\ date[i] \in Int /\ Never = -1
      /\ cursor <= now
  BY SMT DEF CoverInv, WindowInv, TypeOK, Times, Never
<1>c. i \in Items \ cut
  BY CutGrows
<1>1. date'[i] = date[i] \/ (date'[i] = now /\ UNCHANGED <<cursor, covered>>)
  BY DEF Next, Run, Others, RunDies, worldVars, vars, cursorVars, Happen, HookLost, HookStored,
         HookAnnounced, SetKill, Tick, CoverInv, TypeOK
<1>2. CASE UNCHANGED cursorVars
  <2>1. date'[i] = date[i]
    BY <1>0, <1>1, <1>2, SMT DEF cursorVars
  <2>2. Represented(i)
    BY <1>2, <1>c, <2>1 DEF cursorVars, CoverInv, TruthCovered
  <2> QED
    BY <2>2, RepresentedStays DEF CoverInv
<1>3. CASE SetCursor /\ UNCHANGED worldVars
  <2>1. pc = "cursor" /\ cursor' = runNow /\ date' = date
    BY <1>3 DEF SetCursor, worldVars
  <2>2. CASE windowStart <= date[i]
    BY <1>c, <2>1, <2>2, RepresentedStays DEF CoverInv, DiffInv, InWindow
  <2>3. CASE ~(windowStart <= date[i])
    <3>1. covered # Never
      BY <1>3, <2>1, <2>3 DEF SetCursor
    <3>2. windowStart = cursor /\ covered' = covered
      BY <1>3, <2>1, <3>1 DEF CoverInv, WindowInv, SetCursor
    <3>3. date[i] < cursor
      BY <1>0, <2>3, <3>2, SMT
    <3>4. Represented(i)
      BY <1>c, <2>1, <3>1, <3>2, <3>3 DEF CoverInv, TruthCovered
    <3> QED
      BY <3>4, RepresentedStays DEF CoverInv
  <2> QED
    BY <2>2, <2>3
<1> QED
  BY <1>2, <1>3
     DEF Next, Run, StartRun, Fetch, Compare, Known, Collapsed, Missing, Recover, LateInsert,
         Synthesize, AnnounceRecovered, EndOfDiff, Gap, RepairMarker, MarkerExists, MarkGap,
         AnnounceGap, Others, RunDies, vars

LEMMA CoverInit == Init => CoverInv
<1> SUFFICES ASSUME Init PROVE CoverInv
  OBVIOUS
<1>1. DiffInv /\ Synthesizing
  BY DEF Init, DiffInv, Synthesizing
<1>2. TruthCovered
  BY DEF Init, TruthCovered
<1> QED
  BY <1>1, <1>2, TypeInit, WindowInit DEF CoverInv

LEMMA CoverStep == CoverInv /\ [Next]_vars => CoverInv'
BY TypeStep, WindowStep, DiffStep, SynthesizingStep, CoveredStep DEF CoverInv

LEMMA CoverAlways == Spec => []CoverInv
BY CoverInit, CoverStep, PTL DEF Spec

\* For any number of items, any lookback and any interleaving of runs, webhooks
\* and deaths, whatever the cap on a poll: what happened between the first
\* completed window and the cursor is represented in the event store, but for
\* what a poll had no place for.
THEOREM TruthIsCovered == Spec => []TruthCovered
<1>1. CoverInv => TruthCovered
  BY DEF CoverInv
<1> QED
  BY <1>1, CoverAlways, PTL

-----------------------------------------------------------------------------
\* What a completed run left quiet stays quiet

LEMMA QuietStep ==
    ASSUME CoverInv, [Next]_vars, NEW k \in EventKeys \ (rows \cup owed),
           origin[k] = "reconcile", received[k] <= cursor
    PROVE  k \notin rows'
<1> USE KeyTypes
<1>0. /\ cursor \in Int /\ runNow \in Nat /\ windowStart \in Nat
      /\ received[k] \in Int /\ Never = -1
      /\ Stored(k)
  BY SMT DEF CoverInv, TypeOK, Times, Never, Stored
<1>1. pc # "idle" => cursor < runNow /\ (cursor # Never => windowStart = cursor)
  BY DEF CoverInv, WindowInv
<1>2. cursor # Never
  BY <1>0, SMT DEF CoverInv, TypeOK, Times
<1>3. ASSUME NEW q, Announce(q), q # k PROVE k \notin rows'
  BY <1>3 DEF Announce
<1>4. ASSUME UNCHANGED rows PROVE k \notin rows'
  BY <1>4
<1>5. ASSUME NEW q, Repair(q), pc # "idle" PROVE k \notin rows'
  <2>1. CASE q = k
    BY <1>0, <1>1, <1>2, <1>5, <2>1, SMT DEF Repair, ledgerVars
  <2>2. CASE q # k
    BY <1>3, <1>5, <2>2 DEF Repair, ledgerVars
  <2> QED
    BY <2>1, <2>2
<1>6. ASSUME NEW i \in cur, AnnounceRecovered(i) PROVE k \notin rows'
  <2>1. received[KeyOf[i]] = runNow /\ pc # "idle"
    BY <1>6 DEF AnnounceRecovered, CoverInv, Synthesizing
  <2>2. KeyOf[i] # k
    BY <1>0, <1>1, <2>1, SMT
  <2> QED
    BY <1>3, <1>6, <2>2 DEF AnnounceRecovered
<1>7. CASE AnnounceGap
  <2>1. received[GapKey(windowStart)] = runNow /\ pc # "idle"
    BY <1>7 DEF AnnounceGap, CoverInv, Synthesizing
  <2>2. GapKey(windowStart) # k
    BY <1>0, <1>1, <2>1, SMT
  <2> QED
    BY <1>3, <1>7, <2>2 DEF AnnounceGap
<1>8. CASE Others
  BY <1>3, <1>4, <1>8
     DEF Others, Happen, HookLost, HookStored, HookAnnounced, SetKill, Tick, ledgerVars
<1>9. CASE Run
  BY <1>4, <1>5, <1>6, <1>7, <1>9
     DEF Run, StartRun, Fetch, Compare, Known, Collapsed, Missing, Recover, LateInsert,
         Synthesize, EndOfDiff, Gap, RepairMarker, MarkerExists, MarkGap, SetCursor, RunEnds,
         ledgerVars
<1>10. CASE RunDies \/ UNCHANGED vars
  BY <1>4, <1>10 DEF RunDies, RunEnds, vars, ledgerVars
<1> QED
  BY <1>8, <1>9, <1>10 DEF Next

\* Whatever the switch suppressed in a completed run, no later run announces.
THEOREM QuietForever == Spec => QuietStaysQuiet
<1>1. CoverInv /\ [Next]_vars =>
        [\A k \in EventKeys \ (rows \cup owed) :
            origin[k] = "reconcile" /\ received[k] <= cursor => k \notin rows']_vars
  BY QuietStep
<1> QED
  BY <1>1, CoverAlways, PTL DEF Spec, QuietStaysQuiet

-----------------------------------------------------------------------------
\* What a completed run stored is announced

Comparing == pc \in {"diff", "apply", "announce"}

\* Only runs that had a cursor make based keys.
BasedInv == \A k \in based : origin[k] = "reconcile" /\ cursor # Never

TodoInv == Comparing => todo \subseteq Reported

\* What is about to be inserted was not inserted by a run: if it is stored by
\* now, the worker was faster.
ApplyInv == pc = "apply" => \A i \in cur : KeyOf[i] \notin based

\* seerr has no markers.
GapInv ==
    ~MarksGaps => pc \notin {"gap", "announceGap"} /\ \A m \in Markers : ~Stored(m)

\* Runs that share a cursor share the gap key, so the newest marker is the only
\* one whose announcement may be owed.
MarkerInv ==
    \A m \in Markers :
        /\ received[m] <= now
        /\ pc # "idle" => received[m] <= runNow
        /\ cursor # Never /\ received[m] > cursor => m = GapKey(cursor)

\* Stored by a run and not announced: left by a run that died, or about to be
\* announced by this one.  The cursor has not moved since, so the window still
\* reaches back to the item and the run, unless its poll left the item out, still
\* has to compare it; a marker is handled last.
Pending == {k \in based \cap Routed : NeverCut(k)} \ (rows \cup suppressed)

StillReported(k) ==
    \E i \in Items :
        /\ KeyOf[i] = k
        /\ date[i] # Never /\ date[i] >= Since[cursor]
        /\ Comparing => i \in todo

PendingInv ==
    \A k \in Pending :
        /\ received[k] > cursor
        /\ k \in Keys => StillReported(k) /\ pc \notin {"gap", "announceGap", "cursor"}
        /\ pc # "cursor"

OwedInv == CoverInv /\ BasedInv /\ TodoInv /\ ApplyInv /\ GapInv /\ MarkerInv /\ PendingInv

\* What a step synthesizes, it goes on to announce.
LEMMA BasedGrows ==
    ASSUME CoverInv, [Next]_vars, NEW k \in based', k \notin based
    PROVE  /\ origin'[k] = "reconcile" /\ received'[k] = runNow
           /\ cursor # Never /\ UNCHANGED <<worldVars, ledgerVars, cursor, todo, cur>>
           /\ \/ pc' = "announce" /\ \E i \in cur : KeyOf[i] = k
              \/ pc' = "announceGap" /\ k = GapKey(cursor)
<1> USE KeyTypes
<1>1. based # based'
  OBVIOUS
<1>2. \/ \E i \in cur : Synthesize(i) /\ UNCHANGED worldVars
      \/ MarkGap /\ UNCHANGED worldVars
  BY <1>1 DEF Next, Others, RunDies, RunEnds, vars, Run, StartRun, Fetch, Compare, Known, Collapsed,
              Missing, Recover, LateInsert, AnnounceRecovered, EndOfDiff, Gap, RepairMarker,
              MarkerExists, AnnounceGap, SetCursor
<1>3. ASSUME NEW q \in EventKeys, InsertRecovered(q)
      PROVE  k = q /\ cursor # Never /\ origin'[k] = "reconcile" /\ received'[k] = runNow
  BY <1>3 DEF InsertRecovered, InsertEvent, CoverInv, TypeOK
<1>4. ASSUME NEW i \in cur, Synthesize(i), UNCHANGED worldVars
      PROVE  /\ k = KeyOf[i] /\ pc' = "announce"
             /\ cursor # Never /\ origin'[k] = "reconcile" /\ received'[k] = runNow
             /\ UNCHANGED <<worldVars, ledgerVars, cursor, todo, cur>>
  <2>1. KeyOf[i] \in EventKeys
    BY DEF CoverInv, TypeOK
  <2> QED
    BY <1>3, <1>4, <2>1 DEF Synthesize, cursorVars
<1>5. CASE MarkGap /\ UNCHANGED worldVars
  <2>1. PICK w \in Times : w = windowStart
    BY DEF CoverInv, TypeOK
  <2>2. GapKey(w) \in EventKeys /\ InsertRecovered(GapKey(w))
    BY <1>5, <2>1 DEF MarkGap
  <2>3. k = GapKey(w) /\ cursor # Never /\ origin'[k] = "reconcile" /\ received'[k] = runNow
    BY <1>3, <2>2
  <2>4. w = cursor
    BY <1>5, <2>1, <2>3 DEF MarkGap, CoverInv, WindowInv
  <2> QED
    BY <1>5, <2>3, <2>4 DEF MarkGap, cursorVars
<1> QED
  BY <1>2, <1>4, <1>5

LEMMA BasedStep == OwedInv /\ [Next]_vars => BasedInv'
<1> SUFFICES ASSUME OwedInv, [Next]_vars, NEW k \in based'
             PROVE  origin'[k] = "reconcile" /\ cursor' # Never
  BY DEF BasedInv
<1>1. cursor # Never => cursor' # Never
  <2>1. cursor' = cursor \/ cursor' = runNow
    BY DEF Next, Others, RunDies, vars, Run, StartRun, Fetch, Compare, Known, Collapsed, Missing,
           Recover, LateInsert, Synthesize, AnnounceRecovered, EndOfDiff, Gap, RepairMarker,
           MarkerExists, MarkGap, AnnounceGap, SetCursor, cursorVars
  <2>2. runNow # Never
    BY SMT DEF OwedInv, CoverInv, TypeOK, Times, Never
  <2> QED
    BY <2>1, <2>2
<1>2. CASE k \in based
  <2>1. k \in EventKeys /\ Stored(k) /\ origin[k] = "reconcile" /\ cursor # Never
    BY <1>2 DEF OwedInv, BasedInv, CoverInv, TypeOK, Stored
  <2> QED
    BY <1>1, <2>1, EventsStay DEF OwedInv, CoverInv
<1>3. CASE k \notin based
  BY <1>1, <1>3, BasedGrows DEF OwedInv
<1> QED
  BY <1>2, <1>3

LEMMA TodoStep == OwedInv /\ [Next]_vars => TodoInv'
<1> SUFFICES ASSUME OwedInv, [Next]_vars, Comparing' PROVE todo' \subseteq Reported'
  BY DEF TodoInv
<1>1. ASSUME Comparing, todo' \subseteq todo, UNCHANGED windowVars, UNCHANGED date
      PROVE  todo' \subseteq Reported'
  BY <1>1 DEF OwedInv, TodoInv, Reported, windowVars
<1>2. CASE Others
  <2>1. \A i \in Items : date[i] # Never => date'[i] = date[i]
    BY <1>2 DEF Others, Happen, HookLost, HookStored, HookAnnounced, SetKill, Tick, OwedInv,
                CoverInv, TypeOK
  <2> QED
    BY <1>2, <2>1 DEF Others, runVars, windowVars, Comparing, OwedInv, TodoInv, Reported
<1>3. CASE Fetch /\ UNCHANGED worldVars
  BY <1>3 DEF Fetch, worldVars, windowVars, Reported
<1>4. CASE (Compare \/ Recover) /\ UNCHANGED worldVars
  BY <1>1, <1>4 DEF Compare, Known, Collapsed, Missing, Recover, LateInsert, Synthesize,
                    AnnounceRecovered, Compared, worldVars, Comparing
<1>5. CASE UNCHANGED vars
  BY <1>1, <1>5 DEF vars, worldVars, runVars, Comparing
<1>6. CASE StartRun \/ EndOfDiff \/ Gap \/ SetCursor \/ RunDies
  BY <1>6 DEF StartRun, EndOfDiff, Gap, RepairMarker, MarkerExists, MarkGap, AnnounceGap,
              SetCursor, RunDies, RunEnds, Comparing
<1> QED
  BY <1>2, <1>3, <1>4, <1>5, <1>6 DEF Next, Run

LEMMA ApplyStep == OwedInv /\ [Next]_vars => ApplyInv'
<1> SUFFICES ASSUME OwedInv, [Next]_vars, pc' = "apply", NEW i \in cur'
             PROVE  KeyOf[i] \notin based'
  BY DEF ApplyInv
<1>1. CASE pc = "apply" /\ cur' = cur
  <2>1. KeyOf[i] \notin based
    BY <1>1 DEF OwedInv, ApplyInv
  <2> QED
    BY <2>1, BasedGrows DEF OwedInv
<1>2. ASSUME NEW j \in todo, Missing(j) PROVE KeyOf[i] \notin based'
  <2>1. i = j /\ origin[KeyOf[i]] = "none" /\ based' = based
    BY <1>2 DEF Missing, Stored
  <2> QED
    BY <2>1 DEF OwedInv, BasedInv
<1>3. (pc = "apply" /\ cur' = cur) \/ \E j \in todo : Missing(j)
  BY DEF Next, Others, runVars, RunDies, RunEnds, vars, Run, StartRun, Fetch, Compare, Known,
         Collapsed, Recover, LateInsert, Synthesize, AnnounceRecovered, Compared, EndOfDiff, Gap,
         RepairMarker, MarkerExists, MarkGap, AnnounceGap, SetCursor, OwedInv, CoverInv, TypeOK
<1> QED
  BY <1>1, <1>2, <1>3

LEMMA MarkersStay ==
    ASSUME TypeOK, [Next]_vars, NEW m \in Markers
    PROVE  \/ origin'[m] = origin[m] /\ received'[m] = received[m]
           \/ /\ MarkGap /\ UNCHANGED worldVars
              /\ m = GapKey(windowStart) /\ received'[m] = runNow
<1> USE KeyTypes
<1> DEFINE Kept == origin'[m] = origin[m] /\ received'[m] = received[m]
<1>1. CASE UNCHANGED eventVars
  BY <1>1 DEF eventVars
<1>2. ASSUME NEW k \in EventKeys, NEW from, NEW at, InsertEvent(k, from, at), k # m PROVE Kept
  BY <1>2 DEF InsertEvent, TypeOK
<1>3. ASSUME NEW i \in Items, HookStored(i) PROVE Kept
  <2>1. HookKeyOf[i] \in EventKeys /\ HookKeyOf[i] # m
    BY KeysAssumption
  <2>2. CASE Stored(HookKeyOf[i])
    BY <1>3, <2>2 DEF HookStored, eventVars
  <2>3. CASE ~Stored(HookKeyOf[i])
    <3>1. InsertEvent(HookKeyOf[i], "webhook", now)
      BY <1>3, <2>3 DEF HookStored
    <3> QED
      BY <1>2, <2>1, <3>1
  <2> QED
    BY <2>2, <2>3
<1>4. ASSUME NEW i \in cur, Synthesize(i) PROVE Kept
  <2>1. KeyOf[i] \in EventKeys /\ KeyOf[i] # m
    BY KeysAssumption DEF TypeOK
  <2> QED
    BY <1>2, <1>4, <2>1 DEF Synthesize, InsertRecovered
<1>5. CASE MarkGap /\ UNCHANGED worldVars
  <2>1. GapKey(windowStart) \in EventKeys /\ InsertRecovered(GapKey(windowStart))
    BY <1>5 DEF MarkGap, TypeOK
  <2>2. CASE m = GapKey(windowStart)
    BY <1>5, <2>1, <2>2 DEF InsertRecovered, InsertEvent, TypeOK
  <2>3. CASE m # GapKey(windowStart)
    BY <1>2, <2>1, <2>3 DEF InsertRecovered
  <2> QED
    BY <2>2, <2>3
<1> QED
  BY <1>1, <1>3, <1>4, <1>5
     DEF Next, Others, Happen, HookLost, HookAnnounced, SetKill, Tick, RunDies, RunEnds, vars, Run,
         StartRun, Fetch, Compare, Known, Collapsed, Missing, Recover, LateInsert,
         AnnounceRecovered, EndOfDiff, Gap, RepairMarker, MarkerExists, AnnounceGap, SetCursor

LEMMA GapStep == OwedInv /\ [Next]_vars => GapInv'
<1> SUFFICES ASSUME OwedInv, [Next]_vars, ~MarksGaps
             PROVE  pc' \notin {"gap", "announceGap"} /\ \A m \in Markers : ~Stored(m)'
  BY DEF GapInv
<1>1. pc \notin {"gap", "announceGap"} /\ \A m \in Markers : ~Stored(m)
  BY DEF OwedInv, GapInv
<1>2. pc' \notin {"gap", "announceGap"}
  BY <1>1 DEF Next, Others, runVars, RunDies, RunEnds, vars, Run, StartRun, Fetch, Compare, Known,
              Collapsed, Missing, Recover, LateInsert, Synthesize, AnnounceRecovered, Compared,
              EndOfDiff, Gap, RepairMarker, MarkerExists, MarkGap, AnnounceGap, SetCursor
<1>3. ~MarkGap
  BY <1>1 DEF MarkGap
<1> QED
  BY <1>1, <1>2, <1>3, MarkersStay DEF OwedInv, CoverInv, Stored

LEMMA MarkerStep == OwedInv /\ [Next]_vars => MarkerInv'
<1> SUFFICES ASSUME OwedInv, [Next]_vars, NEW m \in Markers
             PROVE  /\ received'[m] <= now'
                    /\ pc' # "idle" => received'[m] <= runNow'
                    /\ cursor' # Never /\ received'[m] > cursor' => m = GapKey(cursor')
  BY DEF MarkerInv
<1> USE KeyTypes
<1>0. /\ now \in Nat /\ cursor \in Int /\ runNow \in Nat
      /\ received[m] \in Int /\ now' \in Nat /\ runNow' \in Nat /\ cursor' \in Int
      /\ Never = -1
      /\ pc # "idle" => runNow <= now /\ cursor < runNow
  <2>1. TypeOK /\ TypeOK' /\ WindowInv
    BY TypeStep DEF OwedInv, CoverInv
  <2> QED
    BY <2>1, SMT DEF TypeOK, WindowInv, Times, Never
<1>1. /\ received[m] <= now
      /\ pc # "idle" => received[m] <= runNow
      /\ cursor # Never /\ received[m] > cursor => m = GapKey(cursor)
  BY DEF OwedInv, MarkerInv
<1>2. CASE MarkGap /\ m = GapKey(windowStart) /\ received'[m] = runNow /\ UNCHANGED worldVars
  <2>1. /\ UNCHANGED <<now, cursor, runNow>>
        /\ pc # "idle"
        /\ cursor # Never => windowStart = cursor
    BY <1>2 DEF MarkGap, worldVars, cursorVars, windowVars, OwedInv, CoverInv, WindowInv
  <2> QED
    BY <1>0, <1>2, <2>1, SMT
<1>3. CASE received'[m] = received[m]
  <2>1. now <= now'
    BY <1>0, SMT DEF Next, Others, Happen, HookLost, HookStored, HookAnnounced, SetKill, Tick, Run,
                     RunDies, vars, worldVars
  <2>2. CASE SetCursor /\ UNCHANGED worldVars
    BY <1>0, <1>1, <1>3, <2>2, SMT DEF SetCursor, RunEnds, worldVars
  <2>3. CASE StartRun /\ UNCHANGED worldVars
    <3>1. runNow' = now /\ now' = now /\ cursor' = cursor
      BY <2>3 DEF StartRun, worldVars, cursorVars
    <3> QED
      BY <1>0, <1>1, <1>3, <3>1, SMT
  <2>4. CASE cursor' = cursor /\ (pc' # "idle" => pc # "idle" /\ runNow' = runNow)
    BY <1>0, <1>1, <1>3, <2>1, <2>4, SMT
  <2> QED
    BY <2>2, <2>3, <2>4
       DEF Next, Others, runVars, windowVars, cursorVars, RunDies, RunEnds, vars, Run, Fetch,
           Compare, Known, Collapsed, Missing, Recover, LateInsert, Synthesize, AnnounceRecovered,
           Compared, EndOfDiff, Gap, RepairMarker, MarkerExists, MarkGap, AnnounceGap
<1> QED
  BY <1>2, <1>3, MarkersStay DEF OwedInv, CoverInv

\* A row and a suppression are for good.
LEMMA AnnouncedStays ==
    ASSUME [Next]_vars
    PROVE  rows \subseteq rows' /\ suppressed \subseteq suppressed'
<1>1. ASSUME NEW k, Announce(k) \/ Repair(k)
      PROVE  rows \subseteq rows' /\ suppressed \subseteq suppressed'
  BY <1>1 DEF Repair, Announce, ledgerVars
<1>2. CASE UNCHANGED ledgerVars
  BY <1>2 DEF ledgerVars
<1>3. CASE Others
  BY <1>1, <1>2, <1>3 DEF Others, Happen, HookLost, HookStored, HookAnnounced, SetKill, Tick
<1> QED
  BY <1>1, <1>2, <1>3
     DEF Next, RunDies, RunEnds, vars, Run, StartRun, Fetch, Compare, Known, Collapsed, Missing,
         Recover, LateInsert, Synthesize, AnnounceRecovered, EndOfDiff, Gap, RepairMarker,
         MarkerExists, MarkGap, AnnounceGap, SetCursor

\* An announcement leaves a routed key with a row or a suppression.
LEMMA AnnounceSettles ==
    ASSUME NEW k \in Routed, Announce(k)
    PROVE  k \in rows' \cup suppressed'
BY DEF Announce

\* The run's repair reaches what is pending.
LEMMA RepairSettles ==
    ASSUME OwedInv, NEW k \in Pending, pc # "idle", Repair(k)
    PROVE  k \in rows' \cup suppressed'
<1>1. origin[k] = "reconcile" /\ received[k] > cursor /\ cursor # Never
  BY DEF OwedInv, BasedInv, PendingInv, Pending
<1>2. windowStart = cursor
  BY <1>1 DEF OwedInv, CoverInv, WindowInv
<1> QED
  BY <1>1, <1>2, AnnounceSettles DEF Repair, Pending

LEMMA PendingStep == OwedInv /\ [Next]_vars => PendingInv'
<1> SUFFICES ASSUME OwedInv, [Next]_vars, NEW k \in Pending'
             PROVE  /\ received'[k] > cursor'
                    /\ k \in Keys =>
                          StillReported(k)' /\ pc' \notin {"gap", "announceGap", "cursor"}
                    /\ pc' # "cursor"
  BY DEF PendingInv
<1> USE KeyTypes
<1> DEFINE Goal == /\ received'[k] > cursor'
                   /\ k \in Keys =>
                         StillReported(k)' /\ pc' \notin {"gap", "announceGap", "cursor"}
                   /\ pc' # "cursor"
<1>0. k \in based' /\ k \in Routed /\ k \notin rows' \cup suppressed'
  BY DEF Pending
<1>c. NeverCut(k) /\ \A i \in Items : KeyOf[i] = k => i \notin cut'
  BY CutGrows DEF Pending, NeverCut
<1>1. CASE k \notin based
  <2>1. /\ received'[k] = runNow /\ cursor # Never /\ cursor' = cursor
        /\ UNCHANGED <<date, todo, cur, cursor>>
        /\ \/ pc' = "announce" /\ \E i \in cur : KeyOf[i] = k
           \/ pc' = "announceGap" /\ k = GapKey(cursor)
    BY <1>0, <1>1, BasedGrows DEF OwedInv, worldVars
  <2>2. runNow > cursor /\ windowStart = cursor
    <3>1. pc # "idle"
      BY <1>0, <1>1 DEF Next, Others, RunDies, RunEnds, vars, Run, StartRun, Fetch, Compare, Known,
              Collapsed, Missing, Recover, LateInsert, Synthesize, AnnounceRecovered, EndOfDiff,
              Gap, RepairMarker, MarkerExists, MarkGap, AnnounceGap, SetCursor
    <3>2. cursor < runNow => runNow > cursor
      BY SMT DEF OwedInv, CoverInv, TypeOK, Times, Never
    <3> QED
      BY <2>1, <3>1, <3>2 DEF OwedInv, CoverInv, WindowInv
  <2>3. CASE pc' = "announce" /\ \E i \in cur : KeyOf[i] = k
    <3>1. PICK i \in cur : KeyOf[i] = k
      BY <2>3
    <3>2. pc = "apply" /\ i \in todo /\ i \in Items
      <4>1. pc \in {"apply", "announce"} /\ i \in todo /\ i \in Items
        BY <2>1 DEF OwedInv, CoverInv, TypeOK
      <4>2. pc # "announce"
        BY <1>0, <1>1, <2>3 DEF Next, Others, RunDies, RunEnds, vars, Run, StartRun, Fetch, Compare,
              Known, Collapsed, Missing, Recover, LateInsert, Synthesize, AnnounceRecovered,
              EndOfDiff, Gap, RepairMarker, MarkerExists, MarkGap, AnnounceGap, SetCursor
      <4> QED
        BY <4>1, <4>2
    <3>3. date[i] # Never /\ date[i] >= Since[cursor]
      BY <2>2, <3>2 DEF OwedInv, TodoInv, Comparing, Reported
    <3> QED
      BY <2>1, <2>2, <2>3, <3>1, <3>2, <3>3 DEF StillReported
  <2>4. CASE pc' = "announceGap" /\ k = GapKey(cursor)
    <3>1. k \notin Keys
      BY <2>1, <2>4, KeysAssumption DEF OwedInv, CoverInv, TypeOK, Markers
    <3> QED
      BY <2>1, <2>2, <2>4, <3>1
  <2> QED
    BY <2>1, <2>3, <2>4
<1>2. CASE k \in based
  <2>1. k \in Pending
    BY <1>0, <1>2, <1>c, AnnouncedStays DEF Pending
  <2>2. /\ received'[k] = received[k] /\ received[k] > cursor
        /\ origin[k] = "reconcile" /\ cursor # Never /\ Stored(k)
        /\ k \in EventKeys
        /\ k \in Keys => StillReported(k) /\ pc \notin {"gap", "announceGap", "cursor"}
        /\ pc # "cursor"
        /\ pc # "idle" => windowStart = cursor
    <3>1. k \in EventKeys /\ origin[k] = "reconcile" /\ cursor # Never /\ Stored(k)
      BY <1>2 DEF OwedInv, BasedInv, CoverInv, TypeOK, Stored
    <3> QED
      BY <2>1, <3>1, EventsStay DEF OwedInv, CoverInv, WindowInv, PendingInv
  <2>3. ASSUME UNCHANGED <<cursor, date>>, pc' # "cursor",
               pc' \in {"gap", "announceGap"} => k \notin Keys,
               \A i \in Items : KeyOf[i] = k /\ date[i] # Never /\ date[i] >= Since[cursor]
                                /\ (Comparing => i \in todo) /\ Comparing' => i \in todo'
        PROVE  Goal
    BY <2>2, <2>3 DEF StillReported
  <2>4. ASSUME Announce(k) \/ (pc # "idle" /\ Repair(k)) PROVE FALSE
    BY <1>0, <2>1, <2>4, AnnounceSettles, RepairSettles
  <2>5. CASE Others
    <3>1. \A i \in Items : date[i] # Never => date'[i] = date[i]
      BY <2>5 DEF Others, Happen, HookLost, HookStored, HookAnnounced, SetKill, Tick, OwedInv,
                CoverInv, TypeOK
    <3> QED
      BY <2>2, <2>5, <3>1
         DEF Others, runVars, cursorVars, windowVars, StillReported, Comparing
  <2>6. CASE StartRun /\ UNCHANGED worldVars
    BY <2>3, <2>6 DEF StartRun, worldVars, cursorVars, Comparing
  <2>7. CASE Fetch /\ UNCHANGED worldVars
    <3>1. windowStart = cursor
      BY <2>2, <2>7 DEF Fetch
    <3> QED
      BY <1>c, <2>3, <2>7, <3>1 DEF Fetch, worldVars, cursorVars, Reported
  <2>8. ASSUME NEW j \in todo, Known(j), UNCHANGED worldVars PROVE Goal
    <3>1. KeyOf[j] # k
      BY <2>4, <2>8 DEF Known
    <3> QED
      BY <2>3, <2>8, <3>1 DEF Known, worldVars, cursorVars, Comparing
  <2>9. ASSUME NEW j \in todo, Collapsed(j), UNCHANGED worldVars PROVE Goal
    <3>1. KeyOf[j] # k
      BY <2>2, <2>9 DEF Collapsed
    <3> QED
      BY <2>3, <2>9, <3>1 DEF Collapsed, worldVars, cursorVars, Comparing
  <2>10. ASSUME NEW j \in todo, Missing(j), UNCHANGED worldVars PROVE Goal
    BY <2>3, <2>10 DEF Missing, worldVars, cursorVars, Comparing
  <2>11. ASSUME NEW j \in cur, LateInsert(j), UNCHANGED worldVars PROVE Goal
    <3>1. KeyOf[j] # k
      BY <1>2, <2>11 DEF LateInsert, OwedInv, ApplyInv
    <3> QED
      BY <2>3, <2>11, <3>1 DEF LateInsert, Compared, worldVars, cursorVars, Comparing
  <2>12. ASSUME NEW j \in cur, Synthesize(j), UNCHANGED worldVars PROVE Goal
    BY <2>3, <2>12 DEF Synthesize, worldVars, cursorVars, Comparing
  <2>13. ASSUME NEW j \in cur, AnnounceRecovered(j), UNCHANGED worldVars PROVE Goal
    <3>1. KeyOf[j] # k
      BY <2>4, <2>13 DEF AnnounceRecovered
    <3> QED
      BY <2>3, <2>13, <3>1 DEF AnnounceRecovered, Compared, worldVars, cursorVars, Comparing
  <2>14. CASE EndOfDiff /\ UNCHANGED worldVars
    <3>1. k \notin Keys
      BY <2>2, <2>14 DEF EndOfDiff, StillReported, Comparing
    <3>2. k \in Markers
      BY <2>2, <3>1 DEF EventKeys
    <3>3. MarksGaps
      BY <2>2, <3>2 DEF OwedInv, GapInv
    <3> QED
      BY <2>3, <2>14, <3>1, <3>3 DEF EndOfDiff, worldVars, cursorVars, Comparing
  <2>15. CASE Gap
    <3>1. k \in Markers /\ pc # "idle" /\ windowStart = cursor
      BY <2>2, <2>15 DEF Gap, RepairMarker, MarkerExists, MarkGap, AnnounceGap, EventKeys
    <3>2. k = GapKey(windowStart)
      BY <2>2, <3>1 DEF OwedInv, MarkerInv
    <3>3. ~AnnounceGap /\ ~MarkerExists
      BY <2>4, <3>1, <3>2 DEF AnnounceGap, MarkerExists
    <3>4. ~MarkGap
      BY <2>2, <3>2 DEF MarkGap
    <3>5. ~RepairMarker
      <4>1. SUFFICES ASSUME NEW m \in Markers, NewestMarker(m), Repair(m) PROVE FALSE
        BY <2>2, <3>1 DEF RepairMarker
      <4>2. received[m] >= received[k]
        <5>1. received[k] <= received[m]
          BY <3>1, <4>1 DEF NewestMarker
        <5> QED
          BY <3>1, <5>1, SMT DEF OwedInv, CoverInv, TypeOK, Times, Never
      <4>3. received[m] > cursor
        BY <2>2, <4>2, SMT DEF OwedInv, CoverInv, TypeOK, Times, Never
      <4>4. m = k
        BY <2>2, <3>1, <3>2, <4>3 DEF OwedInv, MarkerInv
      <4> QED
        BY <2>4, <3>1, <4>1, <4>4
    <3> QED
      BY <2>15, <3>3, <3>4, <3>5 DEF Gap
  <2>16. CASE SetCursor
    BY <2>2, <2>16 DEF SetCursor
  <2>17. CASE RunDies
    BY <2>3, <2>17 DEF RunDies, RunEnds, cursorVars, Comparing
  <2>18. CASE UNCHANGED vars
    BY <2>2, <2>3, <2>18 DEF vars, worldVars, cursorVars, runVars, Comparing
  <2> QED
    BY <2>5, <2>6, <2>7, <2>8, <2>9, <2>10, <2>11, <2>12, <2>13, <2>14, <2>15, <2>16, <2>17, <2>18
       DEF Next, Run, Compare, Recover
<1> QED
  BY <1>1, <1>2

-----------------------------------------------------------------------------
\* What a first run stored, before there was a cursor

\* What the job stored without a cursor and has not announced, and no poll left
\* out.
Unbased(k) ==
    /\ origin[k] = "reconcile" /\ k \in Routed \ (rows \cup suppressed \cup based)
    /\ NeverCut(k)

\* The window from w on reaches back to i and to the event that was stored of it.
Reaches(w, i) ==
    /\ w < received[KeyOf[i]]
    /\ date[i] # Never /\ Since[w] <= date[i] /\ date[i] < received[KeyOf[i]]

\* The job dates its events with a now that is past.
DatedInv == \A k \in EventKeys : origin[k] = "reconcile" => received[k] <= now

\* What is about to be inserted was inserted by no run.
UnownedInv == pc = "apply" => \A i \in cur : origin[KeyOf[i]] # "reconcile"

\* As long as there is no cursor, a run that compares has yet to come by a key
\* that is owed and within its reach; when it is through, none is left, nor will
\* one be: what is stored later is stored with a cursor.
FirstInv ==
    \A i \in Items : Unbased(KeyOf[i]) =>
        /\ cursor = Never /\ Comparing /\ Reaches(windowStart, i)
               => \E j \in todo : KeyOf[j] = KeyOf[i]
        /\ cursor = Never /\ pc \in {"gap", "announceGap", "cursor"}
               => ~Reaches(windowStart, i)
        /\ cursor # Never => ~Reaches(covered, i)

BelatedInv == CoverInv /\ TodoInv /\ DatedInv /\ UnownedInv /\ FirstInv

\* An event of the job comes from the two inserts of a run.
LEMMA JobInserts ==
    ASSUME TypeOK, [Next]_vars, NEW k \in EventKeys,
           origin'[k] = "reconcile", origin[k] # "reconcile"
    PROVE  /\ received'[k] = runNow
           /\ cursor # Never => k \in based'
           /\ UNCHANGED <<worldVars, ledgerVars, cursorVars, windowVars, todo>>
           /\ \/ \E j \in cur : KeyOf[j] = k /\ pc = "apply" /\ pc' = "announce"
              \/ pc = "gap" /\ pc' = "announceGap" /\ k \in Markers
<1> USE KeyTypes
<1>1. ASSUME NEW q \in EventKeys, InsertRecovered(q)
      PROVE  k = q /\ received'[k] = runNow /\ (cursor # Never => k \in based')
  BY <1>1 DEF InsertRecovered, InsertEvent, TypeOK
<1>2. ASSUME NEW j \in cur, Synthesize(j), UNCHANGED worldVars
      PROVE  /\ received'[k] = runNow /\ (cursor # Never => k \in based')
             /\ UNCHANGED <<worldVars, ledgerVars, cursorVars, windowVars, todo>>
             /\ KeyOf[j] = k /\ pc = "apply" /\ pc' = "announce"
  <2>1. KeyOf[j] \in EventKeys
    BY DEF TypeOK
  <2> QED
    BY <1>1, <1>2, <2>1 DEF Synthesize
<1>3. ASSUME MarkGap, UNCHANGED worldVars
      PROVE  /\ received'[k] = runNow /\ (cursor # Never => k \in based')
             /\ UNCHANGED <<worldVars, ledgerVars, cursorVars, windowVars, todo>>
             /\ pc = "gap" /\ pc' = "announceGap" /\ k \in Markers
  <2>1. PICK w \in Times : w = windowStart
    BY DEF TypeOK
  <2>2. GapKey(w) \in Markers /\ InsertRecovered(GapKey(w))
    BY <1>3, <2>1 DEF MarkGap, Markers
  <2> QED
    BY <1>1, <1>3, <2>2 DEF MarkGap
<1>4. ~UNCHANGED origin
  OBVIOUS
<1>5. ASSUME Others PROVE FALSE
  <2>1. ASSUME NEW q \in EventKeys, InsertEvent(q, "webhook", now) PROVE FALSE
    BY <2>1 DEF InsertEvent, TypeOK
  <2>2. PICK i \in Items : HookStored(i)
    BY <1>4, <1>5 DEF Others, Happen, HookLost, HookAnnounced, SetKill, Tick, eventVars
  <2> QED
    BY <1>4, <2>1, <2>2 DEF HookStored, eventVars
<1>6. \/ \E j \in cur : Synthesize(j) /\ UNCHANGED worldVars
      \/ MarkGap /\ UNCHANGED worldVars
  BY <1>4, <1>5
     DEF Next, RunDies, RunEnds, vars, Run, StartRun, Fetch, Compare, Known, Collapsed, Missing,
         Recover, LateInsert, AnnounceRecovered, EndOfDiff, Gap, RepairMarker, MarkerExists,
         AnnounceGap, SetCursor, eventVars
<1> QED
  BY <1>2, <1>3, <1>6

LEMMA BasedStays == ASSUME [Next]_vars PROVE based \subseteq based'
BY DEF Next, Others, RunDies, RunEnds, vars, Run, StartRun, Fetch, Compare, Known, Collapsed,
       Missing, Recover, LateInsert, Synthesize, InsertRecovered, AnnounceRecovered, EndOfDiff,
       Gap, RepairMarker, MarkerExists, MarkGap, AnnounceGap, SetCursor

\* Time goes on, and what happened keeps its date.
LEMMA TimeGoesOn ==
    ASSUME TypeOK, [Next]_vars
    PROVE  /\ now <= now'
           /\ \A i \in Items : date'[i] = date[i] \/ (date[i] = Never /\ date'[i] = now)
<1>0. now \in Nat
  BY SMT DEF TypeOK, Times
<1>1. CASE Others
  <2>1. now <= now'
    BY <1>0, <1>1, SMT DEF Others, Happen, HookLost, HookStored, HookAnnounced, SetKill, Tick
  <2>2. \A i \in Items : date'[i] = date[i] \/ (date[i] = Never /\ date'[i] = now)
    BY <1>1 DEF Others, Happen, HookLost, HookStored, HookAnnounced, SetKill, Tick, TypeOK
  <2> QED
    BY <2>1, <2>2
<1>2. CASE UNCHANGED <<now, date>>
  BY <1>0, <1>2, SMT
<1> QED
  BY <1>1, <1>2 DEF Next, Run, RunDies, vars, worldVars

LEMMA DatedStep == BelatedInv /\ [Next]_vars => DatedInv'
<1> SUFFICES ASSUME BelatedInv, [Next]_vars, NEW k \in EventKeys, origin'[k] = "reconcile"
             PROVE  received'[k] <= now'
  BY DEF DatedInv
<1>0. TypeOK /\ TypeOK' /\ WindowInv /\ DatedInv /\ now <= now'
  BY TypeStep, TimeGoesOn DEF BelatedInv, CoverInv
<1>1. CASE origin[k] = "reconcile"
  <2>1. received'[k] = received[k] /\ received[k] <= now
    BY <1>0, <1>1, EventsStay DEF DatedInv, Stored
  <2> QED
    BY <1>0, <2>1, SMT DEF TypeOK, Times, Never
<1>2. CASE origin[k] # "reconcile"
  <2>1. received'[k] = runNow /\ pc # "idle"
    BY <1>0, <1>2, JobInserts
  <2>2. runNow <= now
    BY <1>0, <2>1 DEF WindowInv
  <2> QED
    BY <1>0, <2>1, <2>2, SMT DEF TypeOK, Times
<1> QED
  BY <1>1, <1>2

LEMMA UnownedStep == BelatedInv /\ [Next]_vars => UnownedInv'
<1> SUFFICES ASSUME BelatedInv, [Next]_vars, pc' = "apply", NEW i \in cur'
             PROVE  origin'[KeyOf[i]] # "reconcile"
  BY DEF UnownedInv
<1>0. TypeOK /\ TypeOK'
  BY TypeStep DEF BelatedInv, CoverInv
<1>1. KeyOf[i] \in EventKeys
  BY <1>0, KeyTypes DEF TypeOK
<1>2. CASE pc = "apply" /\ cur' = cur
  BY <1>0, <1>1, <1>2, JobInserts DEF BelatedInv, UnownedInv
<1>3. ASSUME NEW j \in todo, Missing(j) PROVE origin'[KeyOf[i]] # "reconcile"
  BY <1>3 DEF Missing, Stored, eventVars
<1>4. (pc = "apply" /\ cur' = cur) \/ \E j \in todo : Missing(j)
  BY <1>0
     DEF Next, Others, runVars, RunDies, RunEnds, vars, Run, StartRun, Fetch, Compare, Known,
         Collapsed, Recover, LateInsert, Synthesize, AnnounceRecovered, Compared, EndOfDiff, Gap,
         RepairMarker, MarkerExists, MarkGap, AnnounceGap, SetCursor, TypeOK
<1> QED
  BY <1>2, <1>3, <1>4

\* What is owed after a step was owed before, or the step stores it and the run
\* announces it next.
LEMMA UnbasedBefore ==
    ASSUME TypeOK, [Next]_vars, NEW i \in Items, Unbased(KeyOf[i])'
    PROVE  \/ /\ Unbased(KeyOf[i]) /\ received'[KeyOf[i]] = received[KeyOf[i]]
           \/ /\ cursor = Never /\ pc' = "announce"
              /\ UNCHANGED <<cursorVars, todo>>
              /\ \E j \in cur : KeyOf[j] = KeyOf[i]
<1> DEFINE k == KeyOf[i]
<1>0. k \in EventKeys /\ k \notin Markers /\ (NeverCut(k)' => NeverCut(k))
  BY KeyTypes, KeysAssumption, CutGrows DEF NeverCut
<1>1. CASE origin[k] = "reconcile"
  <2>1. received'[k] = received[k]
    BY <1>0, <1>1, EventsStay DEF Stored
  <2> QED
    BY <1>0, <1>1, <2>1, AnnouncedStays, BasedStays DEF Unbased
<1>2. CASE origin[k] # "reconcile"
  BY <1>0, <1>2, JobInserts DEF Unbased
<1> QED
  BY <1>1, <1>2

LEMMA FirstStep == BelatedInv /\ [Next]_vars => FirstInv'
<1> SUFFICES ASSUME BelatedInv, [Next]_vars, NEW i \in Items, Unbased(KeyOf[i])'
             PROVE  /\ cursor' = Never /\ Comparing' /\ Reaches(windowStart, i)'
                           => \E j \in todo' : KeyOf[j] = KeyOf[i]
                    /\ cursor' = Never /\ pc' \in {"gap", "announceGap", "cursor"}
                           => ~Reaches(windowStart, i)'
                    /\ cursor' # Never => ~Reaches(covered, i)'
  BY DEF FirstInv
<1> DEFINE k == KeyOf[i]
           Goal == /\ cursor' = Never /\ Comparing' /\ Reaches(windowStart, i)'
                          => \E j \in todo' : KeyOf[j] = k
                   /\ cursor' = Never /\ pc' \in {"gap", "announceGap", "cursor"}
                          => ~Reaches(windowStart, i)'
                   /\ cursor' # Never => ~Reaches(covered, i)'
<1>0. TypeOK /\ WindowInv /\ TodoInv /\ DatedInv /\ UnownedInv /\ FirstInv
  BY DEF BelatedInv, CoverInv
<1>1. CASE /\ cursor = Never /\ pc' = "announce"
           /\ UNCHANGED <<cursorVars, todo>>
           /\ \E j \in cur : KeyOf[j] = k
  BY <1>0, <1>1 DEF TypeOK, cursorVars
<1>2. CASE Unbased(k) /\ received'[k] = received[k]
  <2>0. /\ k \notin rows' \cup suppressed' /\ k \in Routed /\ k \in EventKeys
        /\ Stored(k) /\ origin[k] = "reconcile"
    BY <1>2, KeyTypes DEF Unbased, Stored
  \* An item that happens now is none of those that were stored before.
  <2>1. ASSUME NEW w, w' = w, Reaches(w, i)' PROVE Reaches(w, i) /\ date'[i] = date[i]
    <3>1. date'[i] < received[k] /\ received[k] <= now
      BY <1>0, <1>2, <2>0, <2>1 DEF Reaches, DatedInv
    <3>2. date'[i] # now
      BY <1>0, <2>0, <3>1, SMT DEF TypeOK, Times, Never
    <3> QED
      BY <1>0, <1>2, <2>1, <3>2, TimeGoesOn DEF Reaches
  <2>2. ASSUME UNCHANGED <<cursorVars, windowVars>>,
               pc' \in {"gap", "announceGap", "cursor"} =>
                   pc \in {"gap", "announceGap", "cursor"} \/ (Comparing /\ todo = {}),
               Comparing' => Comparing,
               \A j \in todo : KeyOf[j] = k /\ Comparing' => j \in todo'
        PROVE  Goal
    <3>1. Reaches(windowStart, i)' => Reaches(windowStart, i)
      BY <2>1, <2>2 DEF windowVars
    <3>2. Reaches(covered, i)' => Reaches(covered, i)
      BY <2>1, <2>2 DEF cursorVars
    <3> QED
      BY <1>0, <1>2, <2>2, <3>1, <3>2 DEF FirstInv, cursorVars
  <2>3. ASSUME pc' \in {"idle", "fetch"}, UNCHANGED cursorVars PROVE Goal
    <3>1. Reaches(covered, i)' => Reaches(covered, i)
      BY <2>1, <2>3 DEF cursorVars
    <3> QED
      BY <1>0, <1>2, <2>3, <3>1 DEF FirstInv, Comparing, cursorVars
  <2>4. ~Announce(k)
    BY <2>0, AnnounceSettles
  <2>5. CASE Others \/ UNCHANGED vars
    BY <2>2, <2>5 DEF Others, vars, runVars, Comparing
  <2>6. CASE StartRun \/ RunDies
    BY <2>3, <2>6 DEF StartRun, RunDies, RunEnds
  <2>7. CASE Fetch /\ UNCHANGED worldVars
    <3>1. Reaches(windowStart, i)' => Reaches(windowStart, i)
      BY <2>1, <2>7 DEF Fetch, windowVars
    <3>2. Reaches(covered, i)' => Reaches(covered, i)
      BY <2>1, <2>7 DEF Fetch, cursorVars
    <3>3. Reaches(windowStart, i) => i \in Reported
      BY <1>0, SMT DEF Reaches, Reported, TypeOK, Times, Never
    <3>4. i \notin cut'
      BY DEF Unbased, NeverCut
    <3>5. Reaches(windowStart, i) => i \in todo'
      BY <2>7, <3>3, <3>4 DEF Fetch
    <3> QED
      BY <1>0, <1>2, <2>7, <3>1, <3>2, <3>5 DEF Fetch, FirstInv, Comparing, cursorVars
  <2>8. ASSUME NEW j \in todo, Known(j) PROVE Goal
    <3>1. CASE KeyOf[j] = k
      <4>1. UNCHANGED <<cursorVars, windowVars, pc>> /\ Repair(k) /\ pc = "diff"
        BY <2>8, <3>1 DEF Known
      <4>2. ~(received[k] > windowStart)
        BY <2>0, <2>4, <4>1 DEF Repair
      <4>3. ~Reaches(windowStart, i)
        BY <1>0, <2>0, <4>2, SMT DEF Reaches, TypeOK, Times, Never
      <4>4. ~Reaches(windowStart, i)'
        BY <2>1, <4>1, <4>3 DEF windowVars
      <4>5. Reaches(covered, i)' => Reaches(covered, i)
        BY <2>1, <4>1 DEF cursorVars
      <4> QED
        BY <1>0, <1>2, <4>1, <4>4, <4>5 DEF FirstInv, cursorVars
    <3>2. CASE KeyOf[j] # k
      BY <2>2, <2>8, <3>2 DEF Known, Comparing
    <3> QED
      BY <3>1, <3>2
  <2>9. ASSUME NEW j \in todo, Collapsed(j) PROVE Goal
    <3>1. KeyOf[j] # k
      BY <2>0, <2>9 DEF Collapsed
    <3> QED
      BY <2>2, <2>9, <3>1 DEF Collapsed, Comparing
  <2>10. ASSUME NEW j \in todo, Missing(j) PROVE Goal
    BY <2>2, <2>10 DEF Missing, Comparing
  <2>11. ASSUME NEW j \in cur, LateInsert(j) PROVE Goal
    <3>1. KeyOf[j] # k
      BY <1>0, <2>0, <2>11 DEF LateInsert, UnownedInv
    <3> QED
      BY <2>2, <2>11, <3>1 DEF LateInsert, Compared, Comparing
  <2>12. ASSUME NEW j \in cur, Synthesize(j) PROVE Goal
    BY <2>2, <2>12 DEF Synthesize, Comparing
  <2>13. ASSUME NEW j \in cur, AnnounceRecovered(j) PROVE Goal
    <3>1. KeyOf[j] # k
      BY <2>4, <2>13 DEF AnnounceRecovered
    <3> QED
      BY <2>2, <2>13, <3>1 DEF AnnounceRecovered, Compared, Comparing
  <2>14. CASE EndOfDiff
    BY <2>2, <2>14 DEF EndOfDiff, Comparing
  <2>15. CASE Gap
    BY <2>2, <2>15 DEF Gap, RepairMarker, MarkerExists, MarkGap, AnnounceGap, Comparing
  <2>16. CASE SetCursor /\ UNCHANGED worldVars
    <3>1. cursor' # Never /\ pc' = "idle"
      BY <1>0, <2>16, SMT DEF SetCursor, RunEnds, TypeOK, Times, Never
    <3>2. CASE cursor = Never
      <4>1. covered' = windowStart /\ ~Reaches(windowStart, i)
        BY <1>0, <1>2, <2>16, <3>2 DEF SetCursor, FirstInv, WindowInv
      <4> QED
        BY <1>2, <2>16, <3>1, <4>1 DEF Reaches, worldVars, Comparing
    <3>3. CASE cursor # Never
      <4>1. covered' = covered /\ ~Reaches(covered, i)
        BY <1>0, <1>2, <2>16, <3>3 DEF SetCursor, FirstInv, WindowInv
      <4> QED
        BY <1>2, <2>16, <3>1, <4>1 DEF Reaches, worldVars, Comparing
    <3> QED
      BY <3>2, <3>3
  <2> QED
    BY <2>5, <2>6, <2>7, <2>8, <2>9, <2>10, <2>11, <2>12, <2>13, <2>14, <2>15, <2>16
       DEF Next, Run, Compare, Recover
<1> QED
  BY <1>0, <1>1, <1>2, UnbasedBefore

-----------------------------------------------------------------------------
\* For any number of items, any lookback and any interleaving of runs, webhooks,
\* kill switch and deaths: what a run with a cursor stored has a row or was
\* suppressed by the time the cursor reaches it, and so has what was stored
\* without a cursor within the reach of the first run that completed.  A run that
\* died between the insert and the announcement is made good by the next one that
\* completes, if no poll has left out what was stored.
THEOREM RecoveredAnnounced == Spec => []RecoveredIsAnnounced
<1>1. Init => OwedInv /\ BelatedInv
  <2>1. Init => BasedInv /\ TodoInv /\ ApplyInv /\ PendingInv /\ UnownedInv
    BY DEF Init, BasedInv, TodoInv, Comparing, ApplyInv, PendingInv, Pending, UnownedInv
  <2>2. Init => GapInv /\ MarkerInv
    <3> SUFFICES ASSUME Init PROVE GapInv /\ MarkerInv
      OBVIOUS
    <3>1. \A m \in Markers : received[m] = Never /\ ~Stored(m)
      BY KeyTypes DEF Init, Stored
    <3> QED
      BY <3>1, SMT DEF Init, GapInv, MarkerInv, Never
  <2>3. Init => DatedInv /\ FirstInv
    <3> SUFFICES ASSUME Init PROVE DatedInv /\ FirstInv
      OBVIOUS
    <3>1. \A k \in EventKeys : origin[k] # "reconcile"
      BY DEF Init
    <3> QED
      BY <3>1, KeyTypes DEF DatedInv, FirstInv, Unbased
  <2> QED
    BY <2>1, <2>2, <2>3, CoverInit DEF OwedInv, BelatedInv
<1>2. OwedInv /\ [Next]_vars => OwedInv'
  BY CoverStep, BasedStep, TodoStep, ApplyStep, GapStep, MarkerStep, PendingStep DEF OwedInv
<1>3. OwedInv /\ BelatedInv /\ [Next]_vars => BelatedInv'
  BY <1>2, DatedStep, UnownedStep, FirstStep DEF OwedInv, BelatedInv
<1>4. OwedInv /\ BelatedInv => RecoveredIsAnnounced
  <2> SUFFICES ASSUME OwedInv, BelatedInv, NEW k \in Routed,
                      origin[k] = "reconcile", received[k] <= cursor,
                      NeverCut(k), k \in based \/ InFirstWindow(k), k \notin rows \cup suppressed
               PROVE  FALSE
    BY DEF RecoveredIsAnnounced
  <2>1. CASE k \in based
    <3>1. received[k] \in Int /\ cursor \in Int /\ received[k] > cursor
      <4>1. k \in EventKeys /\ received[k] > cursor
        BY <2>1 DEF OwedInv, CoverInv, TypeOK, PendingInv, Pending
      <4> QED
        BY <4>1, SMT DEF OwedInv, CoverInv, TypeOK, Times, Never
    <3> QED
      BY <3>1, SMT
  <2>2. CASE k \notin based
    <3>1. covered # Never /\ \E i \in Items : KeyOf[i] = k /\ Reaches(covered, i)
      BY <2>2 DEF InFirstWindow, Reaches
    <3>2. cursor # Never
      BY <3>1 DEF OwedInv, CoverInv, WindowInv
    <3> QED
      BY <2>2, <3>1, <3>2 DEF BelatedInv, FirstInv, Unbased
  <2> QED
    BY <2>1, <2>2
<1> QED
  BY <1>1, <1>2, <1>3, <1>4, PTL DEF Spec
=============================================================================
