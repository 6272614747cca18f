---------------------------- MODULE DigestProofs ----------------------------
(***************************************************************************)
(* Theorems about Digest, for any period, minimum, number of items and     *)
(* faults.  The invariants come in layers: the types (TypeOK), where the   *)
(* windows of a run, of the rows and of the cursor lie in time (InTime),   *)
(* and on top of them each property.                                       *)
(***************************************************************************)
EXTENDS Digest, FiniteSetTheorems, TLAPS

Windows == Instants \X Instants

LEMMA Times ==
    /\ 0 .. MaxTime \subseteq Instants
    /\ Never \in Instants /\ NoWindow \in Windows
    /\ \A t \in 0 .. MaxTime : t - Period \in Instants
    /\ \A w \in Windows : w[1] \in Instants /\ w[2] \in Instants
    /\ Instants \subseteq Int
BY PeriodAssumption, BoundsAssumption DEF Instants, Never, NoWindow, Windows

LEMMA SinceType ==
    ASSUME TypeOK
    PROVE  Since \in Instants
BY Times DEF TypeOK, Since, Windows

LEMMA TypeStep ==
    ASSUME TypeOK, [Next]_vars
    PROVE  TypeOK'
<1> USE DEF runVars, itemVars, sendVars, historyVars, Finished, SetCursor
<1>1. CASE Begin
  <2>1. period' = <<Since, now>> /\ Since \in Instants /\ now \in 0 .. MaxTime
    BY <1>1, SinceType DEF Begin, TypeOK
  <2>2. period' \in Windows /\ period' # NoWindow
    BY <2>1, Times, BoundsAssumption DEF Windows, NoWindow, Never
  <2> QED
    BY <1>1, <2>2 DEF Begin, TypeOK, Windows
<1>2. CASE Suppress
  BY <1>2, Times DEF Suppress, TypeOK, Windows
<1>3. CASE Enqueue
  BY <1>3, Times DEF Enqueue, TypeOK, Windows
<1>4. CASE Advance
  BY <1>4, Times DEF Advance, TypeOK, Windows
<1>5. CASE Fail
  BY <1>5, Times, BoundsAssumption DEF Fail, TypeOK, Windows
<1>6. ASSUME NEW w \in open, Send(w)
      PROVE  TypeOK'
  <2>1. DigestData(w) \subseteq Items /\ w \in rows
    BY DEF DigestData, TypeOK
  <2>2. shown' \subseteq rows \X Items
    BY <1>6, <2>1 DEF Send, TypeOK
  <2> QED
    BY <1>6, <2>1, <2>2 DEF Send, TypeOK
<1>7. ASSUME NEW w \in open, Dead(w)
      PROVE  TypeOK'
  BY <1>7 DEF Dead, TypeOK
<1>8. ASSUME NEW i \in Items, Occur(i)
      PROVE  TypeOK'
  BY <1>8, Times DEF Occur, TypeOK
<1>9. ASSUME NEW i \in Items, StoreItem(i)
      PROVE  TypeOK'
  BY <1>9, Times DEF StoreItem, TypeOK
<1>10. ASSUME NEW engaged \in BOOLEAN, SetKill(engaged)
       PROVE  TypeOK'
  BY <1>10 DEF SetKill, TypeOK
<1>11. CASE Tick
  BY <1>11, BoundsAssumption DEF Tick, TypeOK
<1>12. CASE UNCHANGED vars
  BY <1>12 DEF vars, TypeOK
<1> QED
  BY <1>1, <1>2, <1>3, <1>4, <1>5, <1>6, <1>7, <1>8, <1>9, <1>10, <1>11, <1>12 DEF Next

\* A run has a window exactly while it is under way; every instant is one.
THEOREM TypeCorrect == Spec => []TypeOK
<1>1. Init => TypeOK
  BY Times, BoundsAssumption, PeriodAssumption DEF Init, TypeOK, Windows
<1> QED
  BY <1>1, TypeStep, PTL DEF Spec

-----------------------------------------------------------------------------
\* Where the windows lie

\* The window of a run starts where the cursor ends, and no row or suppressed
\* window reaches beyond it, nor beyond now.
CursorInTime ==
    cursor # NoWindow => start <= cursor[2] /\ cursor[1] <= cursor[2] /\ cursor[2] <= now

NoCursorYet ==
    cursor = NoWindow =>
        /\ silenced = {}
        /\ \A w \in rows : w \in orphans \/ (pc = "enqueued" /\ w = period)

RunInTime ==
    pc # "idle" =>
        /\ period # NoWindow /\ period[1] < period[2] /\ period[2] <= now
        /\ period[2] - period[1] >= MinPeriod
        /\ cursor # NoWindow => period[1] = cursor[2]
        /\ \A w \in rows : w[2] <= period[2]

RowsInTime == \A w \in rows : w[2] <= now

SilencedInTime == \A s \in silenced : s[2] <= cursor[2]

InTime == CursorInTime /\ NoCursorYet /\ RunInTime /\ RowsInTime /\ SilencedInTime

LEMMA TimeStep ==
    ASSUME TypeOK, InTime, [Next]_vars
    PROVE  InTime'
<1> USE DEF runVars, itemVars, sendVars, historyVars
<1>0. /\ now \in Int /\ MinPeriod \in Nat \ {0} /\ start \in Int
      /\ \A w \in rows : w[1] \in Int /\ w[2] \in Int
      /\ \A w \in silenced : w[1] \in Int /\ w[2] \in Int
      /\ cursor[1] \in Int /\ cursor[2] \in Int
      /\ period[1] \in Int /\ period[2] \in Int
  BY Times, PeriodAssumption DEF TypeOK, Windows
<1>1. CASE Begin
  <2>1. period' = <<Since, now>> /\ now - Since >= MinPeriod /\ Since \in Int
    BY <1>1, SinceType, Times DEF Begin, LongEnough
  <2>2. period'[1] = Since /\ period'[2] = now
    BY <2>1
  <2>3. cursor # NoWindow => Since = cursor[2]
    BY DEF Since
  <2>4. NoCursorYet'
    BY <1>1 DEF Begin, InTime, NoCursorYet
  <2>5. period' # NoWindow
    BY <2>2, BoundsAssumption DEF NoWindow, Never, TypeOK
  <2>6. RunInTime'
    BY <1>0, <1>1, <2>1, <2>2, <2>3, <2>5 DEF Begin, InTime, RunInTime, RowsInTime
  <2> QED
    BY <1>1, <2>4, <2>6
       DEF Begin, InTime, CursorInTime, RowsInTime, SilencedInTime
<1>2. ASSUME Suppress \/ Advance
      PROVE  InTime'
  <2>1. /\ cursor' = period /\ pc # "idle" /\ pc' = "idle" /\ UNCHANGED <<now, rows>>
        /\ start' = IF cursor = NoWindow THEN period[1] ELSE start
        /\ silenced' \subseteq silenced \cup {period}
    BY <1>2 DEF Suppress, Advance, SetCursor, Finished
  <2>2. /\ period # NoWindow /\ period[1] < period[2] /\ period[2] <= now
        /\ cursor # NoWindow => period[1] = cursor[2]
    BY <2>1 DEF InTime, RunInTime
  <2>3. CursorInTime'
    BY <1>0, <2>1, <2>2 DEF InTime, CursorInTime
  <2>4. \A s \in silenced : s[2] <= period[2]
    BY <1>0, <2>2 DEF InTime, SilencedInTime, NoCursorYet
  <2>5. SilencedInTime'
    BY <1>0, <2>1, <2>4 DEF SilencedInTime
  <2>6. NoCursorYet' /\ RunInTime' /\ RowsInTime'
    BY <2>1, <2>2 DEF InTime, NoCursorYet, RunInTime, RowsInTime
  <2> QED
    BY <2>3, <2>5, <2>6 DEF InTime
<1>3. CASE Enqueue
  <2>1. pc # "idle" /\ rows' = rows \cup {period} /\ UNCHANGED <<now, cursor, silenced, start>>
    BY <1>3 DEF Enqueue
  <2>2. CursorInTime' /\ SilencedInTime'
    BY <2>1 DEF InTime, CursorInTime, SilencedInTime
  <2>3. RowsInTime'
    BY <1>0, <2>1 DEF InTime, RunInTime, RowsInTime
  <2>4. NoCursorYet'
    BY <1>3 DEF Enqueue, Finished, InTime, NoCursorYet
  <2>5. RunInTime'
    BY <1>0, <1>3 DEF Enqueue, Finished, InTime, RunInTime
  <2> QED
    BY <2>2, <2>3, <2>4, <2>5 DEF InTime
<1>4. CASE Fail
  <2>1. NoCursorYet'
    BY <1>4 DEF Fail, Finished, InTime, NoCursorYet
  <2> QED
    BY <1>4, <2>1
       DEF Fail, Finished, InTime, CursorInTime, RunInTime, RowsInTime, SilencedInTime
<1>5. CASE UNCHANGED <<now, runVars, silenced, orphans, start>>
  BY <1>5 DEF InTime, CursorInTime, NoCursorYet, RunInTime, RowsInTime, SilencedInTime
<1>6. CASE Tick
  <2>1. now' = now + 1 /\ UNCHANGED <<runVars, silenced, orphans, start>>
    BY <1>6 DEF Tick
  <2>2. CursorInTime' /\ RowsInTime'
    BY <1>0, <2>1 DEF InTime, CursorInTime, RowsInTime
  <2>3. RunInTime'
    BY <1>0, <2>1 DEF InTime, RunInTime
  <2> QED
    BY <2>1, <2>2, <2>3 DEF InTime, NoCursorYet, SilencedInTime
<1> QED
  BY <1>1, <1>2, <1>3, <1>4, <1>5, <1>6
     DEF Next, Send, Dead, Occur, StoreItem, SetKill, vars

Timely == TypeOK /\ InTime

LEMMA AlwaysTimely == Spec => []Timely
<1>1. Init => Timely
  <2>1. Init => TypeOK
    BY Times, BoundsAssumption, PeriodAssumption DEF Init, TypeOK, Windows
  <2>2. Init => InTime
    BY DEF Init, InTime, CursorInTime, NoCursorYet, RunInTime, RowsInTime, SilencedInTime
  <2> QED
    BY <2>1, <2>2 DEF Timely
<1>2. Timely /\ [Next]_vars => Timely'
  BY TypeStep, TimeStep DEF Timely
<1> QED
  BY <1>1, <1>2, PTL DEF Spec

\* What the properties need of the types.
LEMMA Numbers ==
    ASSUME Timely
    PROVE  /\ now \in Int /\ start \in Int
           /\ cursor[1] \in Int /\ cursor[2] \in Int /\ period[1] \in Int /\ period[2] \in Int
           /\ \A w \in rows : w[1] \in Int /\ w[2] \in Int
           /\ \A s \in silenced : s[1] \in Int /\ s[2] \in Int
BY Times DEF Timely, TypeOK, Windows

-----------------------------------------------------------------------------
\* No instant is skipped

LEMMA CoverStep ==
    ASSUME Timely, NoInstantSkipped, [Next]_vars
    PROVE  NoInstantSkipped'
<1> USE DEF runVars, itemVars, sendVars, historyVars
<1>1. rows \subseteq rows' /\ silenced \subseteq silenced'
  BY DEF Next, Begin, Suppress, Enqueue, Advance, Fail, Send, Dead, Occur, StoreItem, SetKill,
         Tick, vars
<1>2. CASE UNCHANGED <<cursor, start>>
  BY <1>1, <1>2 DEF NoInstantSkipped
<1>3. ASSUME Suppress \/ Advance
      PROVE  NoInstantSkipped'
  <2>1. /\ cursor' = period /\ pc # "idle" /\ period \in rows' \cup silenced'
        /\ start' = IF cursor = NoWindow THEN period[1] ELSE start
    BY <1>3 DEF Suppress, Advance, SetCursor, Timely, TypeOK
  <2>2. cursor # NoWindow => period[1] = cursor[2]
    BY <2>1 DEF Timely, InTime, RunInTime
  <2> SUFFICES ASSUME NEW t \in Instants, start' <= t, t < period[2]
               PROVE  \E w \in rows' \cup silenced' : In(w, t)
    BY <2>1 DEF NoInstantSkipped
  <2>3. CASE period[1] <= t
    BY <2>1, <2>3 DEF In
  <2>4. CASE ~(period[1] <= t)
    <3>1. t \in Int
      BY Times
    <3>2. cursor # NoWindow /\ start <= t /\ t < cursor[2]
      BY <2>1, <2>2, <2>4, <3>1, Numbers
    <3> QED
      BY <1>1, <3>2 DEF NoInstantSkipped
  <2> QED
    BY <2>3, <2>4
<1> QED
  BY <1>2, <1>3
     DEF Next, Begin, Enqueue, Fail, Send, Dead, Occur, StoreItem, SetKill, Tick, vars

\* Up to the last cursor every instant since the first lies in the window of a
\* digest or in one the switch suppressed, for any faults and double fires.
THEOREM NothingSkipped == Spec => []NoInstantSkipped
<1>1. Init => NoInstantSkipped
  BY DEF Init, NoInstantSkipped
<1>2. Timely /\ NoInstantSkipped /\ [Next]_vars => NoInstantSkipped'
  BY CoverStep
<1> QED
  BY <1>1, <1>2, AlwaysTimely, PTL DEF Spec

-----------------------------------------------------------------------------
\* What was suppressed stays so

LEMMA SilenceStep ==
    ASSUME Timely, SilencedStaysSilent, [Next]_vars
    PROVE  SilencedStaysSilent'
<1> USE DEF runVars, itemVars, sendVars, historyVars
<1>1. CASE UNCHANGED <<rows, silenced>>
  BY <1>1 DEF SilencedStaysSilent, Overlap
<1>2. CASE Suppress
  <2>1. pc # "idle" /\ rows' = rows /\ silenced' = silenced \cup {period}
    BY <1>2 DEF Suppress
  <2>2. \A w \in rows : w[2] <= period[2]
    BY <2>1 DEF Timely, InTime, RunInTime
  <2> QED
    BY <2>1, <2>2 DEF SilencedStaysSilent, Overlap
<1>3. CASE Enqueue
  <2>1. pc # "idle" /\ rows' = rows \cup {period} /\ silenced' = silenced
    BY <1>3 DEF Enqueue
  <2>2. \A s \in silenced : ~Overlap(s, period)
    <3> SUFFICES ASSUME NEW s \in silenced
                 PROVE  ~(period[1] < s[2])
      BY DEF Overlap
    <3>1. cursor # NoWindow /\ s[2] <= cursor[2]
      BY DEF Timely, InTime, NoCursorYet, SilencedInTime
    <3>2. period[1] = cursor[2]
      BY <2>1, <3>1 DEF Timely, InTime, RunInTime
    <3> QED
      BY <3>1, <3>2, Numbers
  <2> QED
    BY <2>1, <2>2 DEF SilencedStaysSilent
<1> QED
  BY <1>1, <1>2, <1>3
     DEF Next, Begin, Advance, Fail, Send, Dead, Occur, StoreItem, SetKill, Tick, vars

\* No digest made after the kill switch suppressed a window reports on it.
THEOREM SilenceKept == Spec => []SilencedStaysSilent
<1>1. Init => SilencedStaysSilent
  BY DEF Init, SilencedStaysSilent
<1>2. Timely /\ SilencedStaysSilent /\ [Next]_vars => SilencedStaysSilent'
  BY SilenceStep
<1> QED
  BY <1>1, <1>2, AlwaysTimely, PTL DEF Spec

-----------------------------------------------------------------------------
\* Digests overlap only after a crash

OrphansPaid == IsFiniteSet(orphans) /\ Cardinality(orphans) <= faults

\* A row the cursor has not passed is the one just enqueued, or an orphan.
Passed ==
    \A w \in rows \ orphans :
        (pc = "enqueued" /\ w = period) \/ (cursor # NoWindow /\ w[2] <= cursor[2])

Apart(v, w) ==
    ~Overlap(v, w) /\ (v[2] - w[2] >= MinPeriod \/ w[2] - v[2] >= MinPeriod)

RowsApart == \A v, w \in rows \ orphans : v # w => Apart(v, w)

LEMMA ApartStep ==
    ASSUME Timely, OrphansPaid, Passed, RowsApart, [Next]_vars
    PROVE  OrphansPaid' /\ Passed' /\ RowsApart'
<1> USE DEF runVars, itemVars, sendVars, historyVars
<1>0. faults \in Nat
  BY BoundsAssumption DEF Timely, TypeOK
<1>1. CASE UNCHANGED <<rows, orphans, faults>> /\ UNCHANGED <<pc, period, cursor>>
  BY <1>1 DEF OrphansPaid, Passed, RowsApart, Apart, Overlap
<1>2. CASE Begin
  <2>1. UNCHANGED <<rows, orphans, faults, cursor>> /\ pc # "enqueued"
    BY <1>2 DEF Begin
  <2> QED
    BY <2>1 DEF OrphansPaid, Passed, RowsApart, Apart, Overlap
<1>3. CASE Suppress \/ Advance
  <2>1. cursor' = period /\ pc # "idle" /\ UNCHANGED <<rows, orphans, faults>>
    BY <1>3 DEF Suppress, Advance, SetCursor
  <2>2. period # NoWindow /\ \A w \in rows : w[2] <= period[2]
    BY <2>1 DEF Timely, InTime, RunInTime
  <2> QED
    BY <2>1, <2>2 DEF OrphansPaid, Passed, RowsApart, Apart, Overlap
<1>4. CASE Enqueue
  <2>1. /\ pc = "begun" /\ rows' = rows \cup {period} /\ UNCHANGED <<orphans, faults, cursor>>
        /\ period \notin rows => pc' = "enqueued" /\ period' = period
    BY <1>4 DEF Enqueue
  <2>2. CASE period \in rows
    <3>1. rows' = rows
      BY <2>1, <2>2
    <3> QED
      BY <2>1, <3>1 DEF OrphansPaid, Passed, RowsApart, Apart, Overlap
  <2>3. CASE period \notin rows
    <3>1. OrphansPaid' /\ Passed'
      BY <2>1, <2>3 DEF OrphansPaid, Passed
    <3>2. ASSUME NEW w \in rows \ orphans
          PROVE  Apart(w, period) /\ Apart(period, w)
      <4>1. cursor # NoWindow /\ w[2] <= cursor[2]
        BY <2>1, <3>2 DEF Passed
      <4>2. period[1] = cursor[2] /\ period[2] - period[1] >= MinPeriod
        BY <2>1, <4>1 DEF Timely, InTime, RunInTime
      <4>3. MinPeriod \in Nat
        BY PeriodAssumption
      <4> QED
        BY <4>1, <4>2, <4>3, Numbers DEF Apart, Overlap
    <3>3. RowsApart'
      BY <2>1, <3>2 DEF RowsApart, Apart, Overlap
    <3> QED
      BY <3>1, <3>3
  <2> QED
    BY <2>2, <2>3
<1>5. CASE Fail
  <2>1. /\ faults' = faults + 1 /\ UNCHANGED <<rows, cursor>>
        /\ orphans' = IF pc = "enqueued" THEN orphans \cup {period} ELSE orphans
    BY <1>5 DEF Fail
  <2>2. OrphansPaid'
    <3>1. IsFiniteSet(orphans) /\ Cardinality(orphans) <= faults
      BY DEF OrphansPaid
    <3>2. /\ IsFiniteSet(orphans \cup {period})
          /\ Cardinality(orphans \cup {period}) <= Cardinality(orphans) + 1
      BY <3>1, FS_AddElement, FS_CardinalityType
    <3> QED
      BY <1>0, <2>1, <3>1, <3>2, FS_CardinalityType DEF OrphansPaid
  <2>3. Passed' /\ RowsApart'
    BY <2>1 DEF Passed, RowsApart, Apart, Overlap
  <2> QED
    BY <2>2, <2>3
<1> QED
  BY <1>1, <1>2, <1>3, <1>4, <1>5
     DEF Next, Send, Dead, Occur, StoreItem, SetKill, Tick, vars

\* Every digest that reports on an instant of another, or comes less than
\* MIN_PERIOD after it, is paid for with a crash between enqueue and cursor.
THEOREM OverlapPaid == Spec => []DigestsOverlapOnlyAfterCrash
<1>1. Init => OrphansPaid /\ Passed /\ RowsApart
  BY FS_EmptySet DEF Init, OrphansPaid, Passed, RowsApart
<1>2. Timely /\ (OrphansPaid /\ Passed /\ RowsApart) /\ [Next]_vars
        => (OrphansPaid /\ Passed /\ RowsApart)'
  BY ApartStep
<1>3. OrphansPaid /\ Passed /\ RowsApart => DigestsOverlapOnlyAfterCrash
  BY DEF OrphansPaid, RowsApart, Apart, DigestsOverlapOnlyAfterCrash
<1> QED
  BY <1>1, <1>2, <1>3, AlwaysTimely, PTL DEF Spec

-----------------------------------------------------------------------------
\* Digests are complete

LEMMA CompleteStep ==
    ASSUME Timely, MissingOnlyIfLate, [Next]_vars
    PROVE  MissingOnlyIfLate'
<1> USE DEF runVars, itemVars, sendVars, historyVars
<1>0. /\ now \in Int /\ now < Never
      /\ \A w \in rows : w[2] \in Int /\ w[2] <= now
      /\ sent \subseteq rows /\ open \subseteq rows
      /\ occurred \in [Items -> Instants] /\ storedAt \in [Items -> Instants]
  <2>1. now \in Int /\ now < Never
    BY BoundsAssumption DEF Timely, TypeOK, Never
  <2>2. \A w \in rows : w[2] \in Int /\ w[2] <= now
    BY Numbers DEF Timely, InTime, RowsInTime
  <2> QED
    BY <2>1, <2>2 DEF Timely, TypeOK
<1>1. CASE UNCHANGED <<sent, shown, occurred, storedAt>>
  BY <1>1 DEF MissingOnlyIfLate, In
<1>2. ASSUME NEW w \in open, Send(w)
      PROVE  MissingOnlyIfLate'
  <2>1. /\ sent' = sent \cup {w} /\ shown' = shown \cup ({w} \X DigestData(w))
        /\ UNCHANGED <<occurred, storedAt>>
    BY <1>2 DEF Send
  <2>2. ASSUME NEW i \in Items, In(w, occurred[i]), storedAt[i] < w[2]
        PROVE  i \in DigestData(w)
    <3>1. storedAt[i] # Never
      <4>1. w[2] \in Int /\ w[2] < Never
        BY <1>0, BoundsAssumption DEF Never
      <4> QED
        BY <2>2, <4>1, BoundsAssumption DEF Never
    <3> QED
      BY <2>2, <3>1 DEF DigestData, KeyWindow
  <2> QED
    BY <2>1, <2>2 DEF MissingOnlyIfLate, In
<1>3. ASSUME NEW j \in Items, Occur(j)
      PROVE  MissingOnlyIfLate'
  <2>1. occurred' = [occurred EXCEPT ![j] = now] /\ UNCHANGED <<sent, shown, storedAt>>
    BY <1>3 DEF Occur
  <2>2. \A w \in sent : ~(now < w[2])
    BY <1>0
  <2> QED
    BY <1>0, <2>1, <2>2 DEF MissingOnlyIfLate, In
<1>4. ASSUME NEW j \in Items, StoreItem(j)
      PROVE  MissingOnlyIfLate'
  <2>1. storedAt' = [storedAt EXCEPT ![j] = now] /\ UNCHANGED <<sent, shown, occurred>>
    BY <1>4 DEF StoreItem
  <2>2. \A w \in sent : ~(now < w[2])
    BY <1>0
  <2> QED
    BY <1>0, <2>1, <2>2 DEF MissingOnlyIfLate, In
<1> QED
  BY <1>1, <1>2, <1>3, <1>4
     DEF Next, Begin, Suppress, Enqueue, Advance, Fail, Dead, SetKill, Tick, vars

\* In whatever order and however late the rows are sent, a digest lists what was
\* stored of its window before it was made.
THEOREM DigestsComplete == Spec => []MissingOnlyIfLate
<1>1. Init => MissingOnlyIfLate
  BY DEF Init, MissingOnlyIfLate
<1>2. Timely /\ MissingOnlyIfLate /\ [Next]_vars => MissingOnlyIfLate'
  BY CompleteStep
<1> QED
  BY <1>1, <1>2, AlwaysTimely, PTL DEF Spec
=============================================================================
