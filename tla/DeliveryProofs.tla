--------------------------- MODULE DeliveryProofs ---------------------------
(***************************************************************************)
(* Proofs about Delivery for every value of its constants.                 *)
(***************************************************************************)
EXTENDS Delivery, TLAPS, FiniteSetTheorems, SequenceTheorems

-----------------------------------------------------------------------------
\* Operators of the model

\* A backoff is a natural number and never more than the cap.
LEMMA BackoffBounded ==
    ASSUME NEW n
    PROVE  Backoff(BackoffBase, n, BackoffCap) \in 0 .. BackoffCap
BY LimitsAssumption, SMT DEF Backoff

\* A delay seen from inside a pass is no longer than the delay itself.
LEMMA AheadBounded ==
    ASSUME NEW delay \in Nat, lag \in Nat
    PROVE  Ahead(delay) \in 0 .. delay
BY SMT DEF Ahead

\* As many elements as a set of indices has can be dropped from a sequence.
LEMMA CountOfIndices ==
    ASSUME NEW ages \in Seq(Nat), NEW old \in SUBSET DOMAIN ages
    PROVE  Cardinality(old) \in 0 .. Len(ages)
<1>1. DOMAIN ages = 1 .. Len(ages) /\ Len(ages) \in Nat
  BY LenProperties
<1>2. \A n \in Nat : IsFiniteSet(1 .. n) /\ Cardinality(1 .. n) = n
  BY FS_Interval, SMT
<1>3. IsFiniteSet(old) /\ Cardinality(old) <= Len(ages)
  BY <1>1, <1>2, FS_Subset
<1>4. Cardinality(old) \in Nat
  BY <1>3, FS_CardinalityType
<1> QED
  BY <1>1, <1>3, <1>4, SMT

\* What is left of a sequence without its first elements.
LEMMA SuffixIs ==
    ASSUME NEW ages \in Seq(Nat), NEW dropped \in 0 .. Len(ages)
    PROVE  LET rest == SubSeq(ages, dropped + 1, Len(ages))
           IN  /\ rest \in Seq(Nat) /\ Len(rest) = Len(ages) - dropped
               /\ \A i \in 1 .. Len(rest) : rest[i] = ages[dropped + i]
<1> DEFINE rest == SubSeq(ages, dropped + 1, Len(ages))
<1> DEFINE size == Len(rest)
<1>1. ages \in [1 .. Len(ages) -> Nat] /\ Len(ages) \in Nat
  BY LenProperties
<1>2. \A i \in dropped + 1 .. Len(ages) : ages[i] \in Nat
  BY <1>1, SMT
<1>3. /\ rest \in Seq(Nat)
      /\ Len(rest) = IF dropped + 1 <= Len(ages) THEN Len(ages) - (dropped + 1) + 1 ELSE 0
      /\ \A i \in 1 .. Len(ages) - (dropped + 1) + 1 : rest[i] = ages[dropped + 1 + i - 1]
  BY <1>1, <1>2, SubSeqProperties, SMT
<1>4. size = Len(ages) - dropped
  <2>1. PICK n \in Nat : n = Len(ages)
    BY <1>1
  <2>2. dropped \in 0 .. n => (IF dropped + 1 <= n THEN n - (dropped + 1) + 1 ELSE 0) = n - dropped
    BY SMT
  <2> QED
    BY <1>3, <2>1, <2>2
<1>5. ASSUME NEW i \in 1 .. Len(ages) - dropped PROVE rest[i] = ages[dropped + i]
  <2>1. i \in 1 .. Len(ages) - (dropped + 1) + 1 /\ dropped + 1 + i - 1 = dropped + i
    BY <1>1, SMT
  <2> HIDE DEF rest
  <2> QED
    BY <1>3, <2>1
<1> QED
  BY <1>3, <1>4, <1>5

\* Popping expired stamps, and forgetting old hand-overs, leaves the later ones.
LEMMA LiveIs ==
    ASSUME NEW c \in Channels, window \in [Channels -> Seq(Nat)]
    PROVE  LET dropped == Cardinality(Expired(c))
           IN  /\ dropped \in 0 .. Len(window[c])
               /\ Live(c) \in Seq(Nat) /\ Len(Live(c)) = Len(window[c]) - dropped
               /\ \A i \in 1 .. Len(Live(c)) : Live(c)[i] = window[c][dropped + i]
<1>1. window[c] \in Seq(Nat) /\ Expired(c) \in SUBSET DOMAIN window[c]
  BY DEF Expired
<1>2. Cardinality(Expired(c)) \in 0 .. Len(window[c])
  BY <1>1, CountOfIndices
<1> QED
  BY <1>1, <1>2, SuffixIs DEF Live

LEMMA RecentIs ==
    ASSUME NEW ages \in Seq(Nat)
    PROVE  /\ Recent(ages) \in Seq(Nat)
           /\ \E dropped \in 0 .. Len(ages) :
                /\ Len(Recent(ages)) = Len(ages) - dropped
                /\ \A i \in 1 .. Len(Recent(ages)) : Recent(ages)[i] = ages[dropped + i]
<1>1. {i \in DOMAIN ages : ages[i] >= Window} \in SUBSET DOMAIN ages
  OBVIOUS
<1>2. Cardinality({i \in DOMAIN ages : ages[i] >= Window}) \in 0 .. Len(ages)
  BY <1>1, CountOfIndices
<1> QED
  BY <1>2, SuffixIs DEF Recent

-----------------------------------------------------------------------------
\* Types

\* Dropping a handled row keeps the batch a function from rows to attempts,
\* with nothing in flight, and leaves the pass idle or at the next row.
LEMMA RowHandledType ==
    ASSUME PassType, NEW r \in DOMAIN batch, NEW goOn \in PCs \ Sending,
           RowHandled(r, goOn)
    PROVE  PassType'
BY LimitsAssumption, SMT DEF PassType, RowHandled, Restrict, PCs, Sending

\* Waits, statuses and attempts after a write of the sender.
LEMMA DeferType ==
    ASSUME LedgerType, PassType, NEW r \in Rows, Defer(r)
    PROVE  LedgerType'
<1>1. Ahead(DeferDelay) \in 0 .. DeferDelay
  BY AheadBounded, LimitsAssumption DEF PassType
<1>2. Ahead(DeferDelay) \in 0 .. MaxWait
  BY <1>1, LimitsAssumption, SMT DEF MaxWait
<1> QED
  BY <1>2 DEF LedgerType, Defer

LEMMA BurnType ==
    ASSUME LedgerType, NEW r \in Rows, NEW newStatus \in Statuses, Burn(r, newStatus)
    PROVE  /\ status' \in [Rows -> Statuses]
           /\ attempts' \in [Rows -> Nat]
BY SMT DEF LedgerType, Burn

LEMMA OlderIs ==
    ASSUME NEW ages \in Seq(Nat)
    PROVE  /\ Older(ages) \in Seq(Nat) /\ Len(Older(ages)) = Len(ages)
           /\ \A i \in 1 .. Len(ages) :
                Older(ages)[i] = IF ages[i] < OldestAge THEN ages[i] + 1 ELSE ages[i]
<1>1. ages \in [1 .. Len(ages) -> Nat] /\ Len(ages) \in Nat
  BY LenProperties
<1>2. Older(ages) \in [1 .. Len(ages) -> Nat]
  BY <1>1, LimitsAssumption, SMT DEF Older, OldestAge
<1>3. Older(ages) \in Seq(Nat)
  BY <1>1, <1>2, SeqDef
<1>4. Len(Older(ages)) = Len(ages)
  BY <1>1, <1>2, <1>3, LenProperties, SMT
<1> QED
  BY <1>1, <1>3, <1>4 DEF Older

LEMMA TypeInit == Init => TypeOK
<1> SUFFICES ASSUME Init PROVE TypeOK
  OBVIOUS
<1> USE LimitsAssumption
<1>1. LedgerType
  BY SMT DEF Init, LedgerType, Statuses, MaxWait
<1>2. PassType
  BY SMT DEF Init, PassType, NoBatch, PCs, Sending
<1>3. LimiterType
  BY DEF Init, LimiterType, NoAges
<1>4. CountersType
  BY SMT DEF Init, CountersType
<1> QED
  BY <1>1, <1>2, <1>3, <1>4 DEF TypeOK

\* Next, with the row of each action named.
LEMMA Steps ==
    ASSUME TypeOK, [Next]_vars
    PROVE  \/ \E r \in Rows : Enqueue(r)
           \/ \E engaged \in BOOLEAN : SetKill(engaged)
           \/ Claim \/ CheckKill
           \/ \E r \in DOMAIN batch :
                /\ r \in Rows
                /\ DeferForKill(r) \/ EventMissing(r) \/ OverBudget(r) \/ BeginSend(r)
           \/ \E r \in inflight :
                /\ r \in Rows /\ r \in DOMAIN batch
                /\ \/ \E outcome \in Outcomes : SendEnds(r, outcome)
                   \/ RecordSent(r) \/ RecordDead(r) \/ RecordRetry(r)
           \/ Tick \/ Crash \/ PassError
           \/ UNCHANGED vars
<1>1. DOMAIN batch \subseteq Rows /\ inflight \subseteq DOMAIN batch
  BY DEF TypeOK, PassType
<1> QED
  BY <1>1 DEF Next, Pass, HandleRow, FinishRow

\* A backoff seen from inside the pass stays within the longest wait.
LEMMA RetryWait ==
    ASSUME PassType, NEW n
    PROVE  Ahead(Backoff(BackoffBase, n, BackoffCap)) \in 0 .. MaxWait
<1> DEFINE delay == Backoff(BackoffBase, n, BackoffCap)
<1>1. delay \in 0 .. BackoffCap
  BY BackoffBounded
<1>2. delay \in Nat /\ lag \in Nat
  BY <1>1, LimitsAssumption, SMT DEF PassType
<1>3. Ahead(delay) \in 0 .. delay
  BY <1>2, AheadBounded
<1> QED
  BY <1>1, <1>2, <1>3, LimitsAssumption, SMT DEF MaxWait

LEMMA LedgerTypeStep == TypeOK /\ [Next]_vars => LedgerType'
<1> SUFFICES ASSUME TypeOK, [Next]_vars PROVE LedgerType'
  OBVIOUS
<1> USE LimitsAssumption
<1>0. LedgerType /\ PassType
  BY DEF TypeOK
<1>1. ASSUME NEW r \in Rows, Enqueue(r) PROVE LedgerType'
  BY <1>0, <1>1, SMT DEF Enqueue, LedgerType, Statuses, MaxWait
<1>2. ASSUME NEW r \in Rows, DeferForKill(r) \/ OverBudget(r) PROVE LedgerType'
  BY <1>0, <1>2, DeferType DEF DeferForKill, OverBudget
<1>3. ASSUME NEW r \in Rows, EventMissing(r) \/ RecordSent(r) \/ RecordDead(r)
      PROVE  LedgerType'
  <2>1. PICK newStatus \in Statuses : Burn(r, newStatus)
    BY <1>3 DEF EventMissing, RecordSent, RecordDead, Statuses
  <2>2. wait' = wait
    BY <1>3 DEF EventMissing, RecordSent, RecordDead
  <2> QED
    BY <1>0, <2>1, <2>2, BurnType DEF LedgerType
<1>4. ASSUME NEW r \in Rows, RecordRetry(r) PROVE LedgerType'
  <2>1. Burn(r, "failed") /\ "failed" \in Statuses
    BY <1>4 DEF RecordRetry, Statuses
  <2>2. Ahead(Backoff(BackoffBase, batch[r], BackoffCap)) \in 0 .. MaxWait
    BY <1>0, RetryWait
  <2> QED
    BY <1>0, <1>4, <2>1, <2>2, BurnType DEF RecordRetry, LedgerType
<1>5. CASE Tick
  BY <1>0, <1>5, SMT DEF Tick, LedgerType, MaxWait
<1>6. ASSUME UNCHANGED ledgerVars PROVE LedgerType'
  BY <1>0, <1>6 DEF ledgerVars, LedgerType
<1>7. ASSUME NEW r, BeginSend(r) PROVE LedgerType'
  BY <1>6, <1>7 DEF BeginSend
<1>8. ASSUME NEW r, NEW outcome, SendEnds(r, outcome) PROVE LedgerType'
  BY <1>6, <1>8 DEF SendEnds
<1>9. ASSUME NEW engaged, SetKill(engaged) PROVE LedgerType'
  BY <1>6, <1>9 DEF SetKill
<1>10. CASE Claim \/ CheckKill \/ Crash \/ PassError \/ UNCHANGED vars
  BY <1>6, <1>10 DEF Claim, CheckKill, Crash, PassError, PassDropped, vars
<1> QED
  BY <1>1, <1>2, <1>3, <1>4, <1>5, <1>7, <1>8, <1>9, <1>10, Steps

LEMMA PassTypeStep == TypeOK /\ [Next]_vars => PassType'
<1> SUFFICES ASSUME TypeOK, [Next]_vars PROVE PassType'
  OBVIOUS
<1> USE LimitsAssumption
<1>0. PassType /\ LedgerType
  BY DEF TypeOK
<1>1. CASE Claim
  BY <1>0, <1>1, SMT DEF Claim, Due, PassType, LedgerType, PCs, Sending
<1>2. CASE CheckKill
  BY <1>0, <1>2, SMT DEF CheckKill, PassType, PCs, Sending
<1>3. ASSUME NEW r \in DOMAIN batch, BeginSend(r) PROVE PassType'
  BY <1>0, <1>3, SMT DEF BeginSend, PassType, PCs, Sending
<1>4. ASSUME NEW r \in DOMAIN batch, NEW goOn \in {"defer", "rows"}, RowHandled(r, goOn)
      PROVE PassType'
  <2>1. goOn \in PCs \ Sending
    BY DEF PCs, Sending
  <2> QED
    BY <1>0, <1>4, <2>1, RowHandledType
<1>5. ASSUME NEW r \in DOMAIN batch,
             \/ DeferForKill(r) \/ EventMissing(r) \/ OverBudget(r)
             \/ RecordSent(r) \/ RecordDead(r) \/ RecordRetry(r)
      PROVE PassType'
  BY <1>4, <1>5
     DEF DeferForKill, EventMissing, OverBudget, RecordSent, RecordDead, RecordRetry
<1>6. ASSUME NEW r, NEW outcome, SendEnds(r, outcome) PROVE PassType'
  BY <1>0, <1>6, SMT DEF SendEnds, PassType, PCs, Sending
<1>7. CASE Tick
  BY <1>0, <1>7, SMT DEF Tick, PassType
<1>8. ASSUME PassDropped PROVE PassType'
  BY <1>0, <1>8, SMT DEF PassDropped, PassType, NoBatch, PCs, Sending
<1>9. ASSUME UNCHANGED passVars PROVE PassType'
  BY <1>0, <1>9 DEF passVars, PassType
<1>10. ASSUME NEW r, Enqueue(r) PROVE PassType'
  BY <1>9, <1>10 DEF Enqueue
<1>11. ASSUME NEW engaged, SetKill(engaged) PROVE PassType'
  BY <1>9, <1>11 DEF SetKill
<1>12. CASE Crash \/ PassError \/ UNCHANGED vars
  BY <1>8, <1>9, <1>12 DEF Crash, PassError, vars
<1> QED
  BY <1>1, <1>2, <1>3, <1>5, <1>6, <1>7, <1>10, <1>11, <1>12, Steps

LEMMA LimiterTypeStep == TypeOK /\ [Next]_vars => LimiterType'
<1> SUFFICES ASSUME TypeOK, [Next]_vars PROVE LimiterType'
  OBVIOUS
<1> USE LimitsAssumption, RowsAssumption
<1>0. LimiterType /\ lag \in Nat /\ window \in [Channels -> Seq(Nat)]
  BY DEF TypeOK, PassType, LimiterType
<1>1. ASSUME NEW r \in Rows, OverBudget(r) PROVE LimiterType'
  <2>1. Live(ChannelOf[r]) \in Seq(Nat)
    BY <1>0, LiveIs
  <2> QED
    BY <1>0, <1>1, <2>1 DEF OverBudget, LimiterType, historyVars
<1>2. ASSUME NEW r \in Rows, BeginSend(r) PROVE LimiterType'
  <2>1. Append(Live(ChannelOf[r]), lag) \in Seq(Nat)
    BY <1>0, LiveIs, AppendProperties
  <2>2. window' \in [Channels -> Seq(Nat)]
    BY <1>0, <1>2, <2>1 DEF BeginSend
  <2>3. handed' \in [Channels -> Seq(Nat)]
    BY <1>0, <1>2, AppendProperties DEF BeginSend, LimiterType
  <2> QED
    BY <2>2, <2>3 DEF LimiterType
<1>3. CASE Tick
  <2>1. window' \in [Channels -> Seq(Nat)]
    BY <1>0, <1>3, OlderIs DEF Tick
  <2>2. handed' \in [Channels -> Seq(Nat)]
    BY <1>0, <1>3, OlderIs, RecentIs DEF Tick, LimiterType
  <2> QED
    BY <2>1, <2>2 DEF LimiterType
<1>4. CASE Crash
  BY <1>4 DEF Crash, LimiterType, NoAges
<1>5. ASSUME UNCHANGED <<window, handed>> PROVE LimiterType'
  BY <1>0, <1>5 DEF LimiterType
<1>6. ASSUME NEW r, DeferForKill(r) \/ EventMissing(r) PROVE LimiterType'
  BY <1>5, <1>6 DEF DeferForKill, EventMissing, historyVars
<1>7. ASSUME NEW r, RecordSent(r) \/ RecordDead(r) \/ RecordRetry(r) PROVE LimiterType'
  BY <1>5, <1>7 DEF RecordSent, RecordDead, RecordRetry, historyVars
<1>8. ASSUME NEW r, NEW outcome, SendEnds(r, outcome) PROVE LimiterType'
  BY <1>5, <1>8 DEF SendEnds
<1>9. ASSUME NEW r, Enqueue(r) PROVE LimiterType'
  BY <1>5, <1>9 DEF Enqueue, historyVars
<1>10. ASSUME NEW engaged, SetKill(engaged) PROVE LimiterType'
  BY <1>5, <1>10 DEF SetKill
<1>11. CASE Claim \/ CheckKill \/ PassError \/ UNCHANGED vars
  BY <1>5, <1>11 DEF Claim, CheckKill, PassError, vars, historyVars
<1> QED
  BY <1>1, <1>2, <1>3, <1>4, <1>6, <1>7, <1>8, <1>9, <1>10, <1>11, Steps

LEMMA CountersTypeStep == TypeOK /\ [Next]_vars => CountersType'
<1> SUFFICES ASSUME TypeOK, [Next]_vars PROVE CountersType'
  OBVIOUS
<1> USE LimitsAssumption
<1>0. CountersType
  BY DEF TypeOK
<1>1. ASSUME NEW r \in Rows, BeginSend(r) PROVE CountersType'
  BY <1>0, <1>1, SMT DEF BeginSend, CountersType
<1>2. ASSUME NEW r \in Rows, NEW outcome, SendEnds(r, outcome) PROVE CountersType'
  BY <1>0, <1>2, SMT DEF SendEnds, CountersType
<1>3. ASSUME NEW engaged \in BOOLEAN, SetKill(engaged) PROVE CountersType'
  BY <1>0, <1>3, SMT DEF SetKill, CountersType
<1>4. ASSUME PassDropped PROVE CountersType'
  BY <1>0, <1>4, SMT DEF PassDropped, CountersType
<1>5. ASSUME UNCHANGED <<kill, begun, delivered, leaked, faults>> PROVE CountersType'
  BY <1>0, <1>5 DEF CountersType
<1>6. ASSUME NEW r, DeferForKill(r) \/ EventMissing(r) \/ OverBudget(r) PROVE CountersType'
  BY <1>5, <1>6 DEF DeferForKill, EventMissing, OverBudget, historyVars
<1>7. ASSUME NEW r, RecordSent(r) \/ RecordDead(r) \/ RecordRetry(r) PROVE CountersType'
  BY <1>5, <1>7 DEF RecordSent, RecordDead, RecordRetry, historyVars
<1>8. ASSUME NEW r, Enqueue(r) PROVE CountersType'
  BY <1>5, <1>8 DEF Enqueue, historyVars
<1>9. CASE Crash \/ PassError
  BY <1>4, <1>9 DEF Crash, PassError
<1>10. CASE Claim \/ CheckKill \/ Tick \/ UNCHANGED vars
  BY <1>5, <1>10 DEF Claim, CheckKill, Tick, vars, historyVars
<1> QED
  BY <1>1, <1>2, <1>3, <1>6, <1>7, <1>8, <1>9, <1>10, Steps

LEMMA TypeStep == TypeOK /\ [Next]_vars => TypeOK'
BY LedgerTypeStep, PassTypeStep, LimiterTypeStep, CountersTypeStep DEF TypeOK

\* The types of TypeOK hold in every reachable state of every instance.
THEOREM TypeCorrect == Spec => []TypeOK
BY TypeInit, TypeStep, PTL DEF Spec
-----------------------------------------------------------------------------
\* The claims of a pass stay fresh: only the pass itself writes open rows.

\* A write of the sender to r leaves the other claimed rows as they were read.
LEMMA HandledFresh ==
    ASSUME TypeOK, ClaimsAreFresh, NEW r \in DOMAIN batch, NEW goOn,
           RowHandled(r, goOn),
           \A q \in Rows \ {r} : status'[q] = status[q] /\ attempts'[q] = attempts[q]
    PROVE  ClaimsAreFresh'
BY SMT DEF TypeOK, PassType, ClaimsAreFresh, RowHandled, Restrict, Open

LEMMA FreshStep == TypeOK /\ ClaimsAreFresh /\ [Next]_vars => ClaimsAreFresh'
<1> SUFFICES ASSUME TypeOK, ClaimsAreFresh, [Next]_vars PROVE ClaimsAreFresh'
  OBVIOUS
<1>0. LedgerType /\ PassType
  BY DEF TypeOK
<1>1. ASSUME NEW r \in Rows, Enqueue(r) PROVE ClaimsAreFresh'
  BY <1>0, <1>1, SMT
     DEF Enqueue, ClaimsAreFresh, LedgerType, PassType, passVars, Open
<1>2. CASE Claim
  BY <1>0, <1>2, SMT DEF Claim, Due, ClaimsAreFresh, ledgerVars, Open
<1>3. ASSUME NEW r \in DOMAIN batch, NEW newStatus, NEW goOn,
             Burn(r, newStatus), RowHandled(r, goOn)
      PROVE ClaimsAreFresh'
  <2>1. \A q \in Rows \ {r} : status'[q] = status[q] /\ attempts'[q] = attempts[q]
    BY <1>0, <1>3 DEF Burn, LedgerType
  <2> QED
    BY <1>3, <2>1, HandledFresh
<1>4. ASSUME NEW r \in DOMAIN batch, NEW goOn, Defer(r), RowHandled(r, goOn)
      PROVE ClaimsAreFresh'
  BY <1>4, HandledFresh DEF Defer
<1>5. ASSUME NEW r \in DOMAIN batch, DeferForKill(r) \/ EventMissing(r) \/ OverBudget(r)
      PROVE ClaimsAreFresh'
  BY <1>3, <1>4, <1>5 DEF DeferForKill, EventMissing, OverBudget
<1>6. ASSUME NEW r \in DOMAIN batch, RecordSent(r) \/ RecordDead(r) \/ RecordRetry(r)
      PROVE ClaimsAreFresh'
  BY <1>3, <1>6 DEF RecordSent, RecordDead, RecordRetry
<1>7. ASSUME PassDropped PROVE ClaimsAreFresh'
  BY <1>7 DEF PassDropped, ClaimsAreFresh, NoBatch
<1>8. ASSUME UNCHANGED <<status, attempts, batch>> PROVE ClaimsAreFresh'
  BY <1>8 DEF ClaimsAreFresh
<1>9. ASSUME NEW r, BeginSend(r) PROVE ClaimsAreFresh'
  BY <1>8, <1>9 DEF BeginSend, ledgerVars
<1>10. ASSUME NEW r, NEW outcome, SendEnds(r, outcome) PROVE ClaimsAreFresh'
  BY <1>8, <1>10 DEF SendEnds, ledgerVars
<1>11. ASSUME NEW engaged, SetKill(engaged) PROVE ClaimsAreFresh'
  BY <1>8, <1>11 DEF SetKill, ledgerVars, passVars
<1>12. CASE CheckKill \/ Tick \/ UNCHANGED vars
  BY <1>8, <1>12 DEF CheckKill, Tick, vars, ledgerVars, passVars
<1>13. CASE Crash \/ PassError
  BY <1>7, <1>13 DEF Crash, PassError
<1> QED
  BY <1>1, <1>2, <1>5, <1>6, <1>9, <1>10, <1>11, <1>12, <1>13, Steps

\* Whatever the other threads do between the claim and a row's turn, the row is
\* still open and has the attempts the claim read.
THEOREM ClaimsStayFresh == Spec => []ClaimsAreFresh
<1>1. Init => ClaimsAreFresh
  BY DEF Init, ClaimsAreFresh, NoBatch
<1> QED
  BY <1>1, FreshStep, TypeCorrect, PTL DEF Spec

-----------------------------------------------------------------------------
\* The attempts column accounts for the sends

Inv == TypeOK /\ ClaimsAreFresh /\ AttemptsAccount

LEMMA AccountStep == Inv /\ [Next]_vars => AttemptsAccount'
<1> SUFFICES ASSUME Inv, [Next]_vars PROVE AttemptsAccount'
  OBVIOUS
<1> USE LimitsAssumption, RowsAssumption DEF InFlight
<1>0. /\ AttemptsAccount
      /\ LedgerType /\ CountersType
      /\ \A r \in DOMAIN batch : r \in Rows /\ status[r] \in Open /\ batch[r] = attempts[r]
      /\ inflight \subseteq DOMAIN batch
      /\ pc \in PCs /\ ((inflight = {}) <=> (pc \notin Sending))
  BY DEF Inv, TypeOK, PassType, ClaimsAreFresh
<1>1. ASSUME NEW r \in Rows, Enqueue(r) PROVE AttemptsAccount'
  BY <1>0, <1>1, SMT
     DEF Enqueue, AttemptsAccount, LedgerType, passVars, historyVars, Open
<1>2. ASSUME NEW r \in DOMAIN batch, EventMissing(r) PROVE AttemptsAccount'
  <2>1. inflight = {} /\ inflight' = {} /\ pc' \in {"idle", "rows"}
    BY <1>0, <1>2 DEF EventMissing, RowHandled, Sending
  <2> QED
    BY <1>0, <1>2, <2>1, SMT
       DEF EventMissing, Burn, AttemptsAccount, LedgerType, CountersType, historyVars, Open
<1>3. ASSUME NEW r \in DOMAIN batch, BeginSend(r) PROVE AttemptsAccount'
  <2>1. inflight = {} /\ inflight' = {r} /\ pc = "rows" /\ pc' = "await"
    BY <1>0, <1>3 DEF BeginSend, Sending
  <2>2. r \in Rows /\ r \notin Unrenderable
    BY <1>0, <1>3 DEF BeginSend
  <2>3. /\ begun' = [begun EXCEPT ![r] = @ + 1]
        /\ UNCHANGED <<status, attempts, delivered, faults>>
    BY <1>3 DEF BeginSend, ledgerVars
  <2>4. ASSUME NEW q \in Rows
        PROVE  /\ q \notin Unrenderable => attempts'[q] + InFlight(q)' <= begun'[q]
               /\ begun'[q] <= attempts'[q] + InFlight(q)' + faults'
               /\ delivered'[q] + (IF pc' = "await" THEN InFlight(q)' ELSE 0) <= begun'[q]
    BY <1>0, <2>1, <2>2, <2>3, SMT DEF AttemptsAccount, LedgerType, CountersType
  <2>5. ASSUME NEW q \in Rows, status[q] = "absent" PROVE begun'[q] = 0
    BY <1>0, <2>2, <2>3, <2>5 DEF AttemptsAccount, Open
  <2> QED
    BY <1>0, <2>1, <2>2, <2>3, <2>4, <2>5 DEF AttemptsAccount
<1>4. ASSUME NEW r \in inflight, NEW outcome \in Outcomes, SendEnds(r, outcome)
      PROVE  AttemptsAccount'
  BY <1>0, <1>4, OutcomesAssumption, SMT
     DEF SendEnds, AttemptsAccount, LedgerType, CountersType, ledgerVars, NotifierOutcomes
<1>5. ASSUME NEW r \in inflight, NEW newStatus \in {"sent", "dead", "failed"},
             Burn(r, newStatus), RowHandled(r, "rows"), pc \in {"returned", "raised"},
             newStatus = "sent" => pc = "returned",
             newStatus = "dead" => LastAttempt(r),
             newStatus = "failed" => ~LastAttempt(r),
             UNCHANGED <<historyVars, faults>>
      PROVE  AttemptsAccount'
  <2>1. inflight = {r} /\ inflight' = {} /\ pc' \in {"idle", "rows"}
    BY <1>0, <1>5 DEF RowHandled, AttemptsAccount
  <2>2. r \in Rows /\ r \notin Unrenderable /\ attempts[r] < MaxAttempts /\ batch[r] = attempts[r]
    BY <1>0, <2>1 DEF AttemptsAccount
  <2> QED
    BY <1>0, <1>5, <2>1, <2>2, SMT
       DEF Burn, LastAttempt, AttemptsAccount, LedgerType, CountersType, historyVars, Open
<1>6. ASSUME NEW r \in inflight, RecordSent(r) \/ RecordDead(r) \/ RecordRetry(r)
      PROVE  AttemptsAccount'
  BY <1>5, <1>6 DEF RecordSent, RecordDead, RecordRetry
<1>7. ASSUME NEW r \in DOMAIN batch, DeferForKill(r) \/ OverBudget(r) PROVE AttemptsAccount'
  <2>1. inflight = {} /\ inflight' = {} /\ pc' \in {"idle", "rows", "defer"}
    BY <1>0, <1>7 DEF DeferForKill, OverBudget, RowHandled, Sending
  <2>2. UNCHANGED <<status, attempts, begun, delivered, faults>>
    BY <1>7 DEF DeferForKill, OverBudget, Defer, historyVars
  <2> QED
    BY <1>0, <2>1, <2>2 DEF AttemptsAccount
<1>8. ASSUME PassDropped PROVE AttemptsAccount'
  BY <1>0, <1>8, SMT
     DEF PassDropped, AttemptsAccount, LedgerType, CountersType, ledgerVars
<1>9. CASE Claim \/ CheckKill
  <2>1. inflight = {} /\ pc' \notin {"await", "returned"} /\ pc # "await"
    BY <1>0, <1>9 DEF Claim, CheckKill, Sending
  <2> QED
    BY <1>0, <1>9, <2>1 DEF Claim, CheckKill, AttemptsAccount, ledgerVars, historyVars
<1>10. ASSUME UNCHANGED <<status, attempts, begun, delivered, faults, inflight, pc>>
       PROVE  AttemptsAccount'
  BY <1>0, <1>10 DEF AttemptsAccount
<1>11. ASSUME NEW engaged, SetKill(engaged) PROVE AttemptsAccount'
  BY <1>10, <1>11 DEF SetKill, ledgerVars, passVars
<1>12. CASE Tick \/ UNCHANGED vars
  BY <1>10, <1>12 DEF Tick, vars, ledgerVars, passVars, historyVars
<1>13. CASE Crash \/ PassError
  BY <1>8, <1>13 DEF Crash, PassError
<1>14. TypeOK
  BY DEF Inv
<1> QED
  BY <1>1, <1>2, <1>3, <1>4, <1>6, <1>7, <1>9, <1>11, <1>12, <1>13, <1>14, Steps

LEMMA InvInit == Init => Inv
<1> SUFFICES ASSUME Init PROVE Inv
  OBVIOUS
<1>1. ClaimsAreFresh
  BY DEF Init, ClaimsAreFresh, NoBatch
<1>2. AttemptsAccount
  BY LimitsAssumption, SMT DEF Init, AttemptsAccount, InFlight, Open
<1> QED
  BY <1>1, <1>2, TypeInit DEF Inv

\* The inductive invariant of the sender.
LEMMA InvAlways == Spec => []Inv
<1>1. Inv /\ [Next]_vars => Inv'
  BY TypeStep, FreshStep, AccountStep DEF Inv
<1> QED
  BY <1>1, InvInit, PTL DEF Spec

\* A rate limit or a kill switch never costs a message: a row that can be
\* rendered dies only after MaxAttempts calls of notifier.send.
THEOREM DeadAfterTries == Spec => []DeadOnlyAfterTries
<1>1. Inv => DeadOnlyAfterTries
  BY LimitsAssumption, SMT
     DEF Inv, TypeOK, LedgerType, CountersType, AttemptsAccount, InFlight, DeadOnlyAfterTries
<1> QED
  BY <1>1, InvAlways, PTL

\* No more copies of a message than attempts the row is entitled to, plus faults.
THEOREM CopiesAreBounded == Spec => []CopiesBounded
<1>1. Inv => CopiesBounded
  <2> SUFFICES ASSUME Inv, NEW r \in Rows PROVE delivered[r] <= MaxAttempts + faults
    BY DEF CopiesBounded
  <2>1. r \in inflight => attempts[r] < MaxAttempts
    BY DEF Inv, TypeOK, PassType, ClaimsAreFresh, AttemptsAccount
  <2> QED
    BY <2>1, LimitsAssumption, SMT
       DEF Inv, TypeOK, LedgerType, CountersType, AttemptsAccount, InFlight
<1> QED
  BY <1>1, InvAlways, PTL


\* The attempts column agrees with the sends that were really made, up to the
\* send in flight and the faults.
THEOREM AttemptsAccounted == Spec => []AttemptsAccount
<1>1. Inv => AttemptsAccount
  BY DEF Inv
<1> QED
  BY <1>1, InvAlways, PTL

-----------------------------------------------------------------------------
\* The environment override freezes the ledger

\* With the override no pass gets beyond its deferrals.
Frozen ==
    EnvOverride =>
        /\ pc \in {"idle", "claimed", "defer"} /\ inflight = {}
        /\ \A r \in Rows : begun[r] = 0 /\ attempts[r] = 0 /\ status[r] \in {"absent", "pending"}

LEMMA FrozenStep == TypeOK /\ Frozen /\ [Next]_vars => Frozen'
<1> SUFFICES ASSUME TypeOK, Frozen, [Next]_vars, EnvOverride PROVE Frozen'
  BY DEF Frozen
<1> DEFINE Stays == UNCHANGED <<begun, attempts>> /\ inflight' = {}
<1>0. /\ LedgerType /\ CountersType /\ inflight = {}
      /\ pc \in {"idle", "claimed", "defer"}
      /\ \A r \in Rows : begun[r] = 0 /\ attempts[r] = 0 /\ status[r] \in {"absent", "pending"}
  BY DEF TypeOK, Frozen
<1>1. ASSUME NEW r \in Rows, Enqueue(r) PROVE Frozen'
  BY <1>0, <1>1 DEF Enqueue, Frozen, LedgerType, passVars, historyVars
<1>2. ASSUME NEW r \in DOMAIN batch, DeferForKill(r) PROVE Frozen'
  BY <1>0, <1>2 DEF DeferForKill, Defer, RowHandled, Frozen, historyVars
<1>3. ASSUME NEW r, EventMissing(r) \/ OverBudget(r) \/ BeginSend(r) PROVE Frozen'
  BY <1>0, <1>3 DEF EventMissing, OverBudget, BeginSend
<1>4. CASE Claim \/ CheckKill
  BY <1>0, <1>4 DEF Claim, CheckKill, Engaged, Frozen, ledgerVars, historyVars
<1>5. CASE \E engaged \in BOOLEAN : SetKill(engaged)
  BY <1>0, <1>5 DEF SetKill, Frozen, ledgerVars, passVars
<1>6. CASE Tick \/ UNCHANGED vars
  BY <1>0, <1>6 DEF Tick, Frozen, vars, ledgerVars, passVars, historyVars
<1>7. CASE Crash \/ PassError
  BY <1>0, <1>7 DEF Crash, PassError, PassDropped, Frozen, ledgerVars
<1> QED
  BY <1>0, <1>1, <1>2, <1>3, <1>4, <1>5, <1>6, <1>7, Steps

\* COSTANZA_KILL_SWITCH silences the channels by itself: whatever is enqueued
\* and however the stored switch is flipped, nothing is sent, no attempt is
\* charged and no row is settled.
THEOREM OverrideSilences == Spec => []OverrideFreezes
<1>1. Init => Frozen
  BY DEF Init, Frozen
<1>2. Frozen => OverrideFreezes
  BY DEF Frozen, OverrideFreezes
<1> QED
  BY <1>1, <1>2, FrozenStep, TypeCorrect, PTL DEF Spec

-----------------------------------------------------------------------------
\* What leaks through the kill switch

\* A batch is no larger than one claim, and while the switch is engaged the
\* sends that leaked and the rows still to come fit in one batch.
LeakInv ==
    /\ Cardinality(DOMAIN batch) <= BatchLimit
    /\ leaked <= BatchLimit
    /\ Engaged /\ pc \in {"rows"} \cup Sending =>
          leaked + Cardinality(DOMAIN batch \ inflight) <= BatchLimit

\* Removing a claimed row leaves one row less.
LEMMA OneRowLess ==
    ASSUME DOMAIN batch \subseteq Rows, NEW r \in DOMAIN batch
    PROVE  /\ IsFiniteSet(DOMAIN batch)
           /\ Cardinality(DOMAIN batch) \in Nat
           /\ Cardinality(DOMAIN batch \ {r}) \in Nat
           /\ Cardinality(DOMAIN batch \ {r}) + 1 = Cardinality(DOMAIN batch)
<1>1. IsFiniteSet(DOMAIN batch)
  BY FiniteAssumption, FS_Subset
<1>2. Cardinality(DOMAIN batch \ {r}) = Cardinality(DOMAIN batch) - 1
  BY <1>1, FS_RemoveElement
<1>3. Cardinality(DOMAIN batch) \in Nat /\ Cardinality(DOMAIN batch \ {r}) \in Nat
  BY <1>1, FS_CardinalityType, FS_Subset
<1> QED
  BY <1>1, <1>2, <1>3, SMT

LEMMA LeakStep == Inv /\ LeakInv /\ [Next]_vars => LeakInv'
<1> SUFFICES ASSUME Inv, LeakInv, [Next]_vars PROVE LeakInv'
  OBVIOUS
<1> DEFINE size == Cardinality(DOMAIN batch)
<1> USE LimitsAssumption
<1>0. /\ TypeOK /\ BatchLimit \in Nat /\ leaked \in Nat /\ leaked <= BatchLimit
      /\ size <= BatchLimit /\ size \in Nat
      /\ DOMAIN batch \subseteq Rows /\ inflight \subseteq DOMAIN batch
      /\ \A r \in inflight : inflight = {r}
      /\ pc \notin Sending => inflight = {}
      /\ Cardinality({}) = 0
  <2>1. DOMAIN batch \subseteq Rows /\ IsFiniteSet(DOMAIN batch)
    BY FiniteAssumption, FS_Subset DEF Inv, TypeOK, PassType
  <2> QED
    BY <2>1, FS_CardinalityType, FS_EmptySet
       DEF Inv, TypeOK, PassType, CountersType, AttemptsAccount, LeakInv
<1>1. ASSUME UNCHANGED <<batch, inflight, leaked, pc>>, Engaged' => Engaged PROVE LeakInv'
  BY <1>1 DEF LeakInv
<1>2. ASSUME NEW engaged \in BOOLEAN, SetKill(engaged) PROVE LeakInv'
  <2>1. UNCHANGED <<batch, inflight, pc>>
    BY <1>2 DEF SetKill, passVars
  <2>2. CASE engaged /\ ~kill
    <3>1. IsFiniteSet(DOMAIN batch)
      BY <1>0, FiniteAssumption, FS_Subset
    <3>2. Cardinality(DOMAIN batch \ inflight) \in Nat
          /\ Cardinality(DOMAIN batch \ inflight) <= size
      BY <3>1, FS_Subset, FS_CardinalityType
    <3>3. leaked' = 0
      BY <1>2, <2>2 DEF SetKill
    <3> QED
      BY <1>0, <2>1, <3>2, <3>3, SMT DEF LeakInv
  <2>3. CASE ~(engaged /\ ~kill)
    BY <1>1, <1>2, <2>1, <2>3 DEF SetKill, Engaged
  <2> QED
    BY <2>2, <2>3
<1>3. CASE Claim
  <2>1. PICK claimed \in SUBSET Due :
          WithinLimit(claimed) /\ batch' = [r \in claimed |-> attempts[r]]
    BY <1>3 DEF Claim
  <2>2. Cardinality(DOMAIN batch') <= BatchLimit
    BY <2>1 DEF WithinLimit
  <2>3. pc' = "claimed" /\ leaked' = leaked
    BY <1>3 DEF Claim, historyVars
  <2> QED
    BY <1>0, <2>2, <2>3 DEF LeakInv, Sending
<1>4. CASE CheckKill
  BY <1>0, <1>4 DEF CheckKill, LeakInv, Engaged, historyVars, Sending
<1>5. ASSUME NEW r \in DOMAIN batch, BeginSend(r) PROVE LeakInv'
  <2>1. /\ inflight = {} /\ inflight' = {r} /\ batch' = batch /\ pc = "rows"
        /\ kill' = kill /\ leaked' = IF Engaged THEN leaked + 1 ELSE leaked
    BY <1>0, <1>5 DEF BeginSend, Sending
  <2>2. Cardinality(DOMAIN batch \ {r}) + 1 = size /\ Cardinality(DOMAIN batch \ {r}) \in Nat
    BY <1>0, OneRowLess
  <2>3. CASE Engaged
    <3>1. leaked + size <= BatchLimit
      BY <2>1, <2>3 DEF LeakInv
    <3> QED
      BY <1>0, <2>1, <2>2, <2>3, <3>1, SMT DEF LeakInv
  <2>4. CASE ~Engaged
    BY <1>0, <2>1, <2>4 DEF LeakInv, Engaged
  <2> QED
    BY <2>3, <2>4
<1>6. ASSUME NEW r \in DOMAIN batch, NEW goOn \in PCs, RowHandled(r, goOn),
             UNCHANGED <<kill, leaked>>, inflight \in {{}, {r}},
             pc \in {"rows"} \cup Sending \/ goOn = "defer"
      PROVE  LeakInv'
  <2>1. DOMAIN batch' = DOMAIN batch \ {r} /\ inflight' = {} /\ pc' \in {"idle", goOn}
    BY <1>6 DEF RowHandled, Restrict
  <2>2. Cardinality(DOMAIN batch \ {r}) + 1 = size /\ Cardinality(DOMAIN batch \ {r}) \in Nat
    BY <1>0, OneRowLess
  <2>3. ASSUME Engaged, pc \in {"rows"} \cup Sending
        PROVE  leaked + Cardinality(DOMAIN batch \ {r}) <= BatchLimit
    <3>1. leaked + Cardinality(DOMAIN batch \ inflight) <= BatchLimit
      BY <2>3 DEF LeakInv
    <3>2. CASE inflight = {}
      <4>1. DOMAIN batch \ inflight = DOMAIN batch
        BY <3>2
      <4> QED
        BY <1>0, <2>2, <3>1, <4>1, SMT
    <3> QED
      BY <1>6, <3>1, <3>2
  <2>4. Cardinality(DOMAIN batch') <= BatchLimit
    BY <1>0, <2>1, <2>2, SMT
  <2>5. DOMAIN batch' \ inflight' = DOMAIN batch \ {r}
    BY <2>1
  <2> QED
    BY <1>0, <1>6, <2>1, <2>3, <2>4, <2>5 DEF LeakInv, Engaged, Sending
<1>7. ASSUME NEW r \in DOMAIN batch, DeferForKill(r) PROVE LeakInv'
  BY <1>0, <1>6, <1>7 DEF DeferForKill, historyVars, PCs, Sending
<1>8. ASSUME NEW r \in DOMAIN batch, EventMissing(r) \/ OverBudget(r) PROVE LeakInv'
  BY <1>0, <1>6, <1>8 DEF EventMissing, OverBudget, historyVars, PCs, Sending
<1>9. ASSUME NEW r \in inflight, RecordSent(r) \/ RecordDead(r) \/ RecordRetry(r) PROVE LeakInv'
  BY <1>0, <1>6, <1>9 DEF RecordSent, RecordDead, RecordRetry, historyVars, PCs, Sending
<1>10. ASSUME NEW r \in inflight, NEW outcome, SendEnds(r, outcome) PROVE LeakInv'
  BY <1>0, <1>10 DEF SendEnds, LeakInv, Engaged, Sending
<1>11. CASE \E r \in Rows : Enqueue(r)
  BY <1>1, <1>11 DEF Enqueue, Engaged, passVars, historyVars
<1>12. CASE Tick \/ UNCHANGED vars
  BY <1>1, <1>12 DEF Tick, Engaged, vars, passVars, historyVars
<1>13. CASE Crash \/ PassError
  <2>1. batch' = NoBatch /\ pc' = "idle" /\ leaked' = leaked
    BY <1>13 DEF Crash, PassError, PassDropped
  <2>2. DOMAIN batch' = {}
    BY <2>1 DEF NoBatch
  <2> QED
    BY <1>0, <2>1, <2>2 DEF LeakInv, Sending
<1> QED
  BY <1>0, <1>2, <1>3, <1>4, <1>5, <1>7, <1>8, <1>9, <1>10, <1>11, <1>12, <1>13, Steps

\* Whenever and however often the switch is flipped, no more sends than one
\* batch begin while it is engaged.
THEOREM LeakIsBounded == Spec => []KillLeakBounded
<1>1. Init => LeakInv
  <2> SUFFICES ASSUME Init PROVE LeakInv
    OBVIOUS
  <2>1. DOMAIN batch = {}
    BY DEF Init, NoBatch
  <2>2. Cardinality(DOMAIN batch) = 0
    BY <2>1, FS_EmptySet
  <2> QED
    BY <2>2, LimitsAssumption, SMT DEF Init, LeakInv, Sending
<1>2. LeakInv => KillLeakBounded
  BY DEF LeakInv, KillLeakBounded
<1> QED
  BY <1>1, <1>2, LeakStep, InvAlways, PTL DEF Spec

-----------------------------------------------------------------------------
\* The limiter holds the rate

\* Oldest first.
Ordered(ages) == \A i, j \in 1 .. Len(ages) : i <= j => ages[j] <= ages[i]

\* Counted from the end, each recent hand-over has its stamp, at most a pass
\* older than itself.
Covers(stamps, sent) ==
    \A j \in 0 .. Len(sent) - 1 :
        sent[Len(sent) - j] <= Window - MaxLag =>
            j < Len(stamps) /\ stamps[Len(stamps) - j] <= sent[Len(sent) - j] + MaxLag

\* No stamp is younger than the running pass, so the expired ones come first
\* and popping them loses none of a recent hand-over.
RateInv ==
    \A c \in Channels :
        /\ Len(window[c]) <= Budget
        /\ Ordered(window[c])
        /\ \A i \in 1 .. Len(window[c]) : lag <= window[c][i]
        /\ Covers(window[c], handed[c])

\* Places of a suffix, and places counted from the end.
LEMMA Places ==
    ASSUME NEW n \in Nat
    PROVE  /\ \A d \in 0 .. n : \A i \in 1 .. n - d : d + i \in 1 .. n
           /\ \A j \in 0 .. n - 1 : n - j \in 1 .. n
           /\ \A i \in 1 .. n : n - i \in 0 .. n - 1 /\ n - (n - i) = i
           /\ \A j \in Nat : j < n => n - j \in 1 .. n
BY SMT

\* What lies before an index is no more than the index less one.
LEMMA BeforeIndex ==
    ASSUME NEW i \in Nat \ {0}, NEW S \in SUBSET (1 .. i - 1)
    PROVE  Cardinality(S) < i
<1>1. IsFiniteSet(1 .. i - 1) /\ Cardinality(1 .. i - 1) = i - 1
  BY FS_Interval, SMT
<1>2. IsFiniteSet(S) /\ Cardinality(S) <= i - 1
  BY <1>1, FS_Subset
<1>3. Cardinality(S) \in Nat
  BY <1>2, FS_CardinalityType
<1> QED
  BY <1>2, <1>3, SMT

\* A stamp within the window survives the popping, at its place from the end.
LEMMA LiveKeeps ==
    ASSUME NEW c \in Channels, TypeOK, Ordered(window[c]),
           NEW i \in 1 .. Len(window[c]), window[c][i] <= Window
    PROVE  Cardinality(Expired(c)) < i
<1>1. /\ window[c] \in [1 .. Len(window[c]) -> Nat] /\ Len(window[c]) \in Nat
      /\ DOMAIN window[c] = 1 .. Len(window[c]) /\ lag \in Nat
  BY LenProperties DEF TypeOK, LimiterType, PassType
<1>2. ASSUME NEW k \in Expired(c) PROVE k \in 1 .. i - 1
  <2>1. k \in 1 .. Len(window[c]) /\ window[c][k] - lag > Window
    BY <1>1, <1>2 DEF Expired
  <2>2. ~(i <= k)
    <3>1. i <= k => window[c][k] <= window[c][i]
      BY <2>1 DEF Ordered
    <3> QED
      BY <1>1, <2>1, <3>1, LimitsAssumption, SMT
  <2> QED
    BY <1>1, <2>1, <2>2, SMT
<1>3. i \in Nat \ {0} /\ Expired(c) \in SUBSET (1 .. i - 1)
  BY <1>1, <1>2, SMT
<1> QED
  BY <1>3, BeforeIndex

\* Popping keeps what is known of the stamps.
LEMMA LiveRate ==
    ASSUME NEW c \in Channels, TypeOK, RateInv
    PROVE  /\ Live(c) \in Seq(Nat) /\ Len(Live(c)) <= Budget
           /\ Ordered(Live(c))
           /\ \A i \in 1 .. Len(Live(c)) : lag <= Live(c)[i]
           /\ Covers(Live(c), handed[c])
<1> DEFINE stamps == window[c]
           live == Live(c)
           sent == handed[c]
<1>1. PICK dropped \in 0 .. Len(stamps) :
        /\ dropped = Cardinality(Expired(c))
        /\ live \in Seq(Nat) /\ Len(live) = Len(stamps) - dropped
        /\ \A i \in 1 .. Len(live) : live[i] = stamps[dropped + i]
  BY LiveIs DEF TypeOK, LimiterType
<1>2. /\ stamps \in [1 .. Len(stamps) -> Nat] /\ Len(stamps) \in Nat
      /\ sent \in [1 .. Len(sent) -> Nat] /\ Len(sent) \in Nat
      /\ lag \in Nat
  BY LenProperties DEF TypeOK, LimiterType, PassType
<1>3. /\ Len(stamps) <= Budget /\ Ordered(stamps) /\ Covers(stamps, sent)
      /\ \A i \in 1 .. Len(stamps) : lag <= stamps[i]
  BY DEF RateInv
<1>4. ASSUME NEW i \in 1 .. Len(stamps), stamps[i] <= Window PROVE dropped < i
  BY <1>1, <1>3, <1>4, LiveKeeps
<1> HIDE DEF stamps, live, sent
<1>5. Len(live) <= Budget
  BY <1>1, <1>2, <1>3, LimitsAssumption, SMT
<1>a. \A i \in 1 .. Len(live) : dropped + i \in 1 .. Len(stamps) /\ live[i] = stamps[dropped + i]
  BY <1>1, <1>2, Places
<1>6. ASSUME NEW i \in 1 .. Len(live), NEW k \in 1 .. Len(live), i <= k PROVE live[k] <= live[i]
  <2>1. dropped + i <= dropped + k
    BY <1>6, <1>2, SMT
  <2> QED
    BY <1>3, <1>a, <2>1 DEF Ordered
<1>7. \A i \in 1 .. Len(live) : lag <= live[i]
  BY <1>3, <1>a
<1>8. ASSUME NEW j \in 0 .. Len(sent) - 1, sent[Len(sent) - j] <= Window - MaxLag
      PROVE  j < Len(live) /\ live[Len(live) - j] <= sent[Len(sent) - j] + MaxLag
  <2>1. j < Len(stamps) /\ stamps[Len(stamps) - j] <= sent[Len(sent) - j] + MaxLag
    BY <1>3, <1>8 DEF Covers
  <2>2. /\ Len(sent) - j \in 1 .. Len(sent) /\ Len(stamps) - j \in 1 .. Len(stamps)
        /\ sent[Len(sent) - j] \in Nat /\ stamps[Len(stamps) - j] \in Nat
    <3>1. j \in Nat /\ Len(sent) - j \in 1 .. Len(sent) /\ Len(stamps) - j \in 1 .. Len(stamps)
      BY <1>2, <2>1, Places
    <3> QED
      BY <1>2, <3>1
  <2>3. stamps[Len(stamps) - j] <= Window
    <3>1. PICK a \in Nat, b \in Nat : a = stamps[Len(stamps) - j] /\ b = sent[Len(sent) - j]
      BY <2>2
    <3> QED
      BY <1>8, <2>1, <3>1, LimitsAssumption, SMT
  <2>4. dropped < Len(stamps) - j
    BY <1>4, <2>2, <2>3
  <2>5. /\ j < Len(live) /\ Len(live) - j \in 1 .. Len(live)
        /\ dropped + (Len(live) - j) = Len(stamps) - j
    BY <1>1, <1>2, <2>4, SMT
  <2> QED
    BY <1>1, <2>1, <2>5
<1>9. Covers(live, sent)
  BY <1>8 DEF Covers
<1>10. Ordered(live)
  BY <1>6 DEF Ordered
<1> QED
  BY <1>1, <1>5, <1>7, <1>9, <1>10 DEF live, sent

\* A hand-over is stamped with the start of its pass.
LEMMA CoversAppend ==
    ASSUME NEW stamps \in Seq(Nat), NEW sent \in Seq(Nat), NEW stamp \in 0 .. MaxLag,
           Covers(stamps, sent)
    PROVE  Covers(Append(stamps, stamp), Append(sent, 0))
<1> DEFINE more == Append(stamps, stamp)
           moreSent == Append(sent, 0)
<1>1. /\ Len(more) = Len(stamps) + 1 /\ \A i \in 1 .. Len(stamps) : more[i] = stamps[i]
      /\ more[Len(stamps) + 1] = stamp
      /\ Len(moreSent) = Len(sent) + 1 /\ \A i \in 1 .. Len(sent) : moreSent[i] = sent[i]
      /\ moreSent[Len(sent) + 1] = 0
      /\ Len(stamps) \in Nat /\ Len(sent) \in Nat
  BY AppendProperties, LenProperties, LimitsAssumption
<1> HIDE DEF more, moreSent
<1>2. ASSUME NEW j \in 0 .. Len(moreSent) - 1, moreSent[Len(moreSent) - j] <= Window - MaxLag
      PROVE  j < Len(more) /\ more[Len(more) - j] <= moreSent[Len(moreSent) - j] + MaxLag
  <2>1. CASE j = 0
    BY <1>1, <2>1, LimitsAssumption, SMT
  <2>2. CASE j # 0
    <3>1. /\ j - 1 \in 0 .. Len(sent) - 1
          /\ Len(moreSent) - j = Len(sent) - (j - 1) /\ Len(sent) - (j - 1) \in 1 .. Len(sent)
          /\ Len(more) - j = Len(stamps) - (j - 1)
      BY <1>1, <2>2, SMT
    <3>2. sent[Len(sent) - (j - 1)] <= Window - MaxLag
      BY <1>1, <1>2, <3>1
    <3>3. /\ j - 1 < Len(stamps)
          /\ stamps[Len(stamps) - (j - 1)] <= sent[Len(sent) - (j - 1)] + MaxLag
      BY <3>1, <3>2 DEF Covers
    <3>4. j < Len(more) /\ Len(stamps) - (j - 1) \in 1 .. Len(stamps)
      BY <1>1, <3>1, <3>3, SMT
    <3> QED
      BY <1>1, <3>1, <3>3, <3>4
  <2> QED
    BY <2>1, <2>2
<1> QED
  BY <1>2 DEF Covers, more, moreSent

\* Forgetting the first hand-overs asks for less.
LEMMA CoversRecent ==
    ASSUME NEW stamps \in Seq(Nat), NEW sent \in Seq(Nat), Covers(stamps, sent)
    PROVE  Covers(stamps, Recent(sent))
<1> DEFINE rest == Recent(sent)
<1>1. PICK dropped \in 0 .. Len(sent) :
        /\ Len(rest) = Len(sent) - dropped
        /\ \A i \in 1 .. Len(rest) : rest[i] = sent[dropped + i]
  BY RecentIs
<1>2. Len(sent) \in Nat
  BY LenProperties
<1> HIDE DEF rest
<1>3. ASSUME NEW j \in 0 .. Len(rest) - 1
      PROVE  j \in 0 .. Len(sent) - 1 /\ rest[Len(rest) - j] = sent[Len(sent) - j]
  <2>1. /\ j \in 0 .. Len(sent) - 1 /\ Len(rest) - j \in 1 .. Len(rest)
        /\ dropped + (Len(rest) - j) = Len(sent) - j
    BY <1>1, <1>2, <1>3, SMT
  <2> QED
    BY <1>1, <2>1
<1> QED
  BY <1>3 DEF Covers, rest

\* Stamps and hand-overs grow old together.
LEMMA CoversOlder ==
    ASSUME NEW stamps \in Seq(Nat), NEW sent \in Seq(Nat), Covers(stamps, sent)
    PROVE  Covers(Older(stamps), Older(sent))
<1>1. /\ Len(Older(stamps)) = Len(stamps) /\ Len(Older(sent)) = Len(sent)
      /\ \A i \in 1 .. Len(stamps) :
            Older(stamps)[i] = IF stamps[i] < OldestAge THEN stamps[i] + 1 ELSE stamps[i]
      /\ \A i \in 1 .. Len(sent) :
            Older(sent)[i] = IF sent[i] < OldestAge THEN sent[i] + 1 ELSE sent[i]
      /\ stamps \in [1 .. Len(stamps) -> Nat] /\ sent \in [1 .. Len(sent) -> Nat]
      /\ Len(stamps) \in Nat /\ Len(sent) \in Nat
  BY OlderIs, LenProperties
<1>2. ASSUME NEW j \in 0 .. Len(sent) - 1, Older(sent)[Len(sent) - j] <= Window - MaxLag
      PROVE  /\ j < Len(stamps)
             /\ Older(stamps)[Len(stamps) - j] <= Older(sent)[Len(sent) - j] + MaxLag
  <2>1. PICK k \in 1 .. Len(sent) : k = Len(sent) - j
    BY <1>1, Places
  <2>2. PICK age \in Nat : age = sent[k]
    BY <1>1
  <2>3. Older(sent)[k] = IF age < OldestAge THEN age + 1 ELSE age
    BY <1>1, <2>2
  <2>4. age <= Window - MaxLag /\ Older(sent)[k] = age + 1
    BY <1>2, <2>1, <2>3, LimitsAssumption, SMT DEF OldestAge
  <2>5. j < Len(stamps) /\ stamps[Len(stamps) - j] <= age + MaxLag
    BY <1>2, <2>1, <2>2, <2>4 DEF Covers
  <2>6. PICK i \in 1 .. Len(stamps) : i = Len(stamps) - j
    <3>1. j \in Nat
      BY SMT
    <3> QED
      BY <1>1, <2>5, <3>1, Places
  <2>7. PICK stamp \in Nat : stamp = stamps[i] /\ stamp <= age + MaxLag
    BY <1>1, <2>5, <2>6
  <2>8. Older(stamps)[i] = IF stamp < OldestAge THEN stamp + 1 ELSE stamp
    BY <1>1, <2>7
  <2>9. Older(stamps)[i] <= age + 1 + MaxLag
    BY <2>7, <2>8, LimitsAssumption, SMT DEF OldestAge
  <2> QED
    BY <2>1, <2>4, <2>5, <2>6, <2>9
<1> QED
  BY <1>1, <1>2 DEF Covers

LEMMA EmptyRate ==
    /\ Len(<< >>) <= Budget /\ Ordered(<< >>) /\ Covers(<< >>, << >>)
    /\ \A n : \A i \in 1 .. Len(<< >>) : n <= << >>[i]
<1>1. Len(<< >>) = 0
  OBVIOUS
<1>2. 1 .. 0 = {} /\ 0 .. 0 - 1 = {}
  BY SMT
<1> QED
  BY <1>1, <1>2, LimitsAssumption, SMT DEF Ordered, Covers

LEMMA RateInvStep == TypeOK /\ RateInv /\ [Next]_vars => RateInv'
<1> SUFFICES ASSUME TypeOK, RateInv, [Next]_vars PROVE RateInv'
  OBVIOUS
<1> USE LimitsAssumption, RowsAssumption
<1>0. /\ window \in [Channels -> Seq(Nat)] /\ handed \in [Channels -> Seq(Nat)]
      /\ lag \in 0 .. MaxLag /\ lag' \in 0 .. MaxLag
      /\ \A c \in Channels : /\ window[c] \in [1 .. Len(window[c]) -> Nat]
                             /\ Len(window[c]) \in Nat
  <2>1. TypeOK'
    BY TypeStep
  <2> QED
    BY <2>1, LenProperties DEF TypeOK, LimiterType, PassType
<1>1. ASSUME UNCHANGED <<window, handed>>, lag' <= lag PROVE RateInv'
  BY <1>0, <1>1, SMT DEF RateInv
<1>2. ASSUME NEW r \in DOMAIN batch, NEW goOn, RowHandled(r, goOn) PROVE lag' <= lag
  BY <1>0, <1>2, SMT DEF RowHandled
<1>3. ASSUME NEW r \in Rows, r \in DOMAIN batch, OverBudget(r) PROVE RateInv'
  <2> DEFINE c == ChannelOf[r]
  <2>1. window' = [window EXCEPT ![c] = Live(c)] /\ handed' = handed /\ lag' <= lag
    BY <1>2, <1>3 DEF OverBudget, historyVars
  <2>2. /\ Live(c) \in Seq(Nat) /\ Len(Live(c)) <= Budget /\ Ordered(Live(c))
        /\ \A i \in 1 .. Len(Live(c)) : lag <= Live(c)[i]
        /\ Covers(Live(c), handed[c])
    BY LiveRate
  <2>3. \A i \in 1 .. Len(Live(c)) : lag' <= Live(c)[i]
    <3>1. Live(c) \in [1 .. Len(Live(c)) -> Nat]
      BY <2>2, LenProperties
    <3> QED
      BY <1>0, <2>1, <2>2, <3>1, SMT
  <2> HIDE DEF c
  <2>4. ASSUME NEW d \in Channels, d # c PROVE \A i \in 1 .. Len(window[d]) : lag' <= window[d][i]
    BY <1>0, <2>1, SMT DEF RateInv
  <2>5. \A d \in Channels : window'[d] = (IF d = c THEN Live(c) ELSE window[d]) /\ handed'[d] = handed[d]
    BY <1>0, <2>1
  <2> QED
    BY <2>2, <2>3, <2>4, <2>5 DEF RateInv
<1>4. ASSUME NEW r \in Rows, BeginSend(r) PROVE RateInv'
  <2> DEFINE c == ChannelOf[r]
             more == Append(Live(c), lag)
  <2>1. /\ window' = [window EXCEPT ![c] = more]
        /\ handed' = [handed EXCEPT ![c] = Append(@, 0)]
        /\ lag' = lag /\ Len(Live(c)) < Budget
    BY <1>4 DEF BeginSend
  <2>2. /\ Live(c) \in Seq(Nat) /\ Ordered(Live(c))
        /\ \A i \in 1 .. Len(Live(c)) : lag <= Live(c)[i]
        /\ Covers(Live(c), handed[c])
    BY LiveRate
  <2>3. Covers(more, Append(handed[c], 0))
    BY <1>0, <2>2, CoversAppend
  <2>4. /\ Len(more) = Len(Live(c)) + 1 /\ Len(Live(c)) \in Nat
        /\ \A i \in 1 .. Len(Live(c)) : more[i] = Live(c)[i] /\ Live(c)[i] \in Nat
        /\ more[Len(Live(c)) + 1] = lag
    BY <1>0, <2>2, AppendProperties, LenProperties
  <2> HIDE DEF c, more
  <2>a. PICK n \in Nat : n = Len(Live(c))
    BY <2>4
  <2>b. /\ Len(more) = n + 1 /\ Len(more) <= Budget /\ more[n + 1] = lag
        /\ \A i \in 1 .. n : lag <= more[i]
        /\ \A i, k \in 1 .. n : i <= k => more[k] <= more[i]
    <3>1. n + 1 <= Budget
      BY <2>1, <2>a, SMT
    <3> QED
      BY <2>2, <2>4, <2>a, <3>1 DEF Ordered
  <2>c. \A i \in 1 .. n + 1 : i \in 1 .. n \/ i = n + 1
    BY SMT
  <2>d. \A i \in 1 .. n + 1 : n + 1 <= i => i = n + 1
    BY SMT
  <2>e. lag <= lag
    BY <1>0, SMT
  <2>5. Len(more) <= Budget /\ Ordered(more) /\ \A i \in 1 .. Len(more) : lag <= more[i]
    <3>1. \A i \in 1 .. Len(more) : lag <= more[i]
      BY <2>b, <2>c, <2>e
    <3>2. ASSUME NEW i \in 1 .. n + 1, NEW k \in 1 .. n + 1, i <= k PROVE more[k] <= more[i]
      BY <2>b, <2>c, <2>d, <2>e, <3>2
    <3> QED
      BY <2>b, <3>1, <3>2 DEF Ordered
  <2>6. \A d \in Channels : /\ window'[d] = (IF d = c THEN more ELSE window[d])
                            /\ handed'[d] = (IF d = c THEN Append(handed[c], 0) ELSE handed[d])
    BY <1>0, <2>1
  <2> QED
    BY <2>1, <2>3, <2>5, <2>6 DEF RateInv
<1>5. CASE Tick
  <2>1. ASSUME NEW c \in Channels
        PROVE  /\ Len(window'[c]) <= Budget /\ Ordered(window'[c])
               /\ \A i \in 1 .. Len(window'[c]) : lag' <= window'[c][i]
               /\ Covers(window'[c], handed'[c])
    <3>1. window'[c] = Older(window[c]) /\ handed'[c] = Older(Recent(handed[c])) /\ lag' <= lag + 1
      BY <1>0, <1>5, SMT DEF Tick
    <3>2. /\ Len(window[c]) <= Budget /\ Ordered(window[c]) /\ Covers(window[c], handed[c])
          /\ \A i \in 1 .. Len(window[c]) : lag <= window[c][i]
      BY DEF RateInv
    <3>3. Covers(Older(window[c]), Older(Recent(handed[c])))
      BY <1>0, <3>2, CoversRecent, CoversOlder, RecentIs
    <3>4. /\ Len(Older(window[c])) = Len(window[c])
          /\ \A i \in 1 .. Len(window[c]) :
               Older(window[c])[i] =
                 IF window[c][i] < OldestAge THEN window[c][i] + 1 ELSE window[c][i]
      BY <1>0, OlderIs
    <3>5. ASSUME NEW i \in 1 .. Len(window[c]), NEW k \in 1 .. Len(window[c]), i <= k
          PROVE  Older(window[c])[k] <= Older(window[c])[i]
      <4>1. PICK a \in Nat, b \in Nat : a = window[c][i] /\ b = window[c][k]
        BY <1>0
      <4>2. b <= a
        BY <3>2, <3>5, <4>1 DEF Ordered
      <4>3. /\ Older(window[c])[i] = IF a < OldestAge THEN a + 1 ELSE a
            /\ Older(window[c])[k] = IF b < OldestAge THEN b + 1 ELSE b
        BY <3>4, <4>1
      <4> QED
        BY <4>2, <4>3, SMT DEF OldestAge
    <3>6. ASSUME NEW i \in 1 .. Len(window[c]) PROVE lag' <= Older(window[c])[i]
      <4>1. PICK a \in Nat : a = window[c][i]
        BY <1>0
      <4>2. lag <= a /\ Older(window[c])[i] = IF a < OldestAge THEN a + 1 ELSE a
        BY <3>2, <3>4, <4>1
      <4> QED
        BY <1>0, <3>1, <4>2, SMT DEF OldestAge
    <3>7. Ordered(Older(window[c]))
      BY <3>4, <3>5 DEF Ordered
    <3> QED
      BY <3>1, <3>2, <3>3, <3>4, <3>6, <3>7
  <2> QED
    BY <2>1 DEF RateInv
<1>6. CASE Crash
  <2>1. \A c \in Channels : window'[c] = << >> /\ handed'[c] = << >>
    BY <1>6 DEF Crash, NoAges
  <2> QED
    BY <2>1, EmptyRate DEF RateInv
<1>7. ASSUME NEW r \in DOMAIN batch,
             \/ DeferForKill(r) \/ EventMissing(r)
             \/ RecordSent(r) \/ RecordDead(r) \/ RecordRetry(r)
      PROVE  RateInv'
  BY <1>1, <1>2, <1>7
     DEF DeferForKill, EventMissing, RecordSent, RecordDead, RecordRetry, historyVars
<1>8. ASSUME UNCHANGED <<window, handed>>, lag' = lag \/ lag' = 0 PROVE RateInv'
  BY <1>0, <1>1, <1>8, SMT
<1>9. ASSUME NEW r, Enqueue(r) PROVE RateInv'
  BY <1>8, <1>9 DEF Enqueue, passVars, historyVars
<1>10. ASSUME NEW engaged, SetKill(engaged) PROVE RateInv'
  BY <1>8, <1>10 DEF SetKill, passVars
<1>11. ASSUME NEW r, NEW outcome, SendEnds(r, outcome) PROVE RateInv'
  BY <1>8, <1>11 DEF SendEnds
<1>12. CASE Claim \/ CheckKill \/ PassError \/ UNCHANGED vars
  BY <1>8, <1>12 DEF Claim, CheckKill, PassError, PassDropped, vars, historyVars, passVars
<1> QED
  BY <1>3, <1>4, <1>5, <1>6, <1>7, <1>9, <1>10, <1>11, <1>12, Steps

\* Each recent hand-over has a stamp of its own, and there are at most Budget.
LEMMA RateFollows == TypeOK /\ RateInv => RateHolds
<1> SUFFICES ASSUME TypeOK, RateInv, NEW c \in Channels
             PROVE  HandedWithin(c, Window - MaxLag) <= Budget
  BY DEF RateHolds
<1> DEFINE sent == handed[c]
           recent == {i \in DOMAIN sent : sent[i] <= Window - MaxLag}
<1>1. PICK n \in Nat, size \in Nat : n = Len(sent) /\ size = Len(window[c])
  BY LenProperties DEF TypeOK, LimiterType
<1>2. DOMAIN sent = 1 .. n /\ size <= Budget /\ Covers(window[c], sent)
  BY <1>1, LenProperties DEF TypeOK, LimiterType, RateInv
<1> HIDE DEF sent
<1>3. ASSUME NEW i \in recent PROVE i \in (n - size) + 1 .. n
  <2>1. i \in 1 .. n /\ sent[i] <= Window - MaxLag
    BY <1>2, <1>3
  <2>2. n - i \in 0 .. n - 1 /\ n - (n - i) = i
    BY <2>1, Places
  <2>3. n - i < size
    BY <1>1, <1>2, <2>1, <2>2 DEF Covers
  <2> QED
    BY <2>1, <2>3, SMT
<1> HIDE DEF recent
<1> DEFINE last == (n - size) + 1 .. n
<1>4. IsFiniteSet(last) /\ Cardinality(last) <= size
  <2>1. PICK first \in Int : first = (n - size) + 1
    OBVIOUS
  <2>2. /\ IsFiniteSet(first .. n)
        /\ Cardinality(first .. n) = IF first > n THEN 0 ELSE n - first + 1
    BY FS_Interval
  <2>3. (IF first > n THEN 0 ELSE n - first + 1) <= size
    BY <2>1, SMT
  <2> QED
    BY <2>1, <2>2, <2>3
<1>5. IsFiniteSet(recent) /\ Cardinality(recent) <= Cardinality(last)
  BY <1>3, <1>4, FS_Subset
<1>6. Cardinality(recent) <= Budget
  <2> HIDE DEF last
  <2>1. Cardinality(recent) \in Nat /\ Cardinality(last) \in Nat
    BY <1>4, <1>5, FS_CardinalityType
  <2> QED
    BY <1>2, <1>4, <1>5, <2>1, LimitsAssumption, SMT
<1> QED
  BY <1>6 DEF HandedWithin, recent, sent

\* For any budget, window and length of a pass, and whatever crashes and retries
\* come between: in any stretch of Window - MaxLag ticks the process hands at
\* most Budget messages to a channel.  A pass stamps its sends with its start, so
\* a stamp expires up to MaxLag early; that is where the stretch is shorter.
THEOREM RateIsHeld == Spec => []RateHolds
<1>1. Init => RateInv
  <2> SUFFICES ASSUME Init, NEW c \in Channels
               PROVE  window[c] = << >> /\ handed[c] = << >>
    BY EmptyRate DEF RateInv
  <2> QED
    BY DEF Init, NoAges
<1>2. TypeOK /\ RateInv /\ [Next]_vars => RateInv'
  BY RateInvStep
<1> QED
  BY <1>1, <1>2, TypeCorrect, RateFollows, PTL DEF Spec

-----------------------------------------------------------------------------
\* Settled rows are never touched again

LEMMA SettledStep ==
    ASSUME Inv, [Next]_vars, NEW q \in Rows, status[q] \in Settled
    PROVE  status'[q] = status[q] /\ attempts'[q] = attempts[q] /\ begun'[q] = begun[q]
<1> DEFINE Kept == status'[q] = status[q] /\ attempts'[q] = attempts[q] /\ begun'[q] = begun[q]
<1>0. /\ TypeOK /\ LedgerType /\ CountersType
      /\ \A r \in DOMAIN batch : r \in Rows /\ r # q
      /\ inflight \subseteq DOMAIN batch
      /\ status[q] # "absent"
  BY DEF Inv, TypeOK, PassType, ClaimsAreFresh, Open, Settled
<1>1. ASSUME NEW r \in Rows, Enqueue(r) PROVE Kept
  BY <1>0, <1>1 DEF Enqueue, LedgerType, historyVars
<1>2. ASSUME NEW r \in DOMAIN batch, NEW newStatus, Burn(r, newStatus), begun' = begun PROVE Kept
  BY <1>0, <1>2 DEF Burn, LedgerType
<1>3. ASSUME NEW r \in DOMAIN batch, BeginSend(r) PROVE Kept
  BY <1>0, <1>3 DEF BeginSend, ledgerVars, CountersType
<1>4. ASSUME NEW r \in DOMAIN batch,
             EventMissing(r) \/ RecordSent(r) \/ RecordDead(r) \/ RecordRetry(r)
      PROVE Kept
  BY <1>2, <1>4 DEF EventMissing, RecordSent, RecordDead, RecordRetry, historyVars
<1>5. ASSUME NEW r, DeferForKill(r) \/ OverBudget(r) PROVE Kept
  BY <1>5 DEF DeferForKill, OverBudget, Defer, historyVars
<1>6. ASSUME NEW r, NEW outcome, SendEnds(r, outcome) PROVE Kept
  BY <1>6 DEF SendEnds, ledgerVars
<1>7. ASSUME NEW engaged, SetKill(engaged) PROVE Kept
  BY <1>7 DEF SetKill, ledgerVars
<1>8. CASE Claim \/ CheckKill \/ Tick \/ Crash \/ PassError \/ UNCHANGED vars
  BY <1>8 DEF Claim, CheckKill, Tick, Crash, PassError, PassDropped, vars, ledgerVars, historyVars
<1> QED
  BY <1>0, <1>1, <1>3, <1>4, <1>5, <1>6, <1>7, <1>8, Steps

\* A sent or dead row keeps its status and its attempts and is never sent again,
\* whatever duplicates, stale claims and restarts follow.
THEOREM SettledForever == Spec => SettledStaySettled
<1>1. Inv /\ [Next]_vars =>
        [\A r \in Rows :
            status[r] \in Settled =>
                /\ status'[r] = status[r] /\ attempts'[r] = attempts[r]
                /\ begun'[r] = begun[r]]_vars
  BY SettledStep
<1> QED
  BY <1>1, InvAlways, PTL DEF Spec, SettledStaySettled
-----------------------------------------------------------------------------
\* Delivery implements Ledger

Life == [r \in Rows |-> IF status[r] \in Open THEN "open" ELSE status[r]]

\* Ledger sees nothing when neither lives, sends nor copies change.
LEMMA Unseen ==
    ASSUME UNCHANGED <<status, begun, delivered>>
    PROVE  UNCHANGED Promise!ledgerVars
BY DEF Promise!ledgerVars

\* The write of a settled status closes an open row.
LEMMA SettlingLife ==
    ASSUME LedgerType, NEW r \in Rows, NEW newStatus \in Settled, Burn(r, newStatus)
    PROVE  Life' = [Life EXCEPT ![r] = newStatus]
<1>1. status' = [status EXCEPT ![r] = newStatus] /\ newStatus \notin Open
  BY DEF Burn, Settled, Open
<1> QED
  BY <1>1 DEF Life, LedgerType

LEMMA PromiseStep == Inv /\ [Next]_vars => [Promise!Next]_(Promise!ledgerVars)
<1> SUFFICES ASSUME Inv, [Next]_vars PROVE [Promise!Next]_(Promise!ledgerVars)
  OBVIOUS
<1> USE LimitsAssumption, RowsAssumption
<1>0. /\ TypeOK /\ LedgerType /\ CountersType /\ AttemptsAccount
      /\ \A r \in DOMAIN batch : r \in Rows /\ status[r] \in Open /\ batch[r] = attempts[r]
      /\ inflight \subseteq DOMAIN batch
  BY DEF Inv, TypeOK, PassType, ClaimsAreFresh
<1>1. ASSUME NEW r \in Rows, Enqueue(r) PROVE Promise!Next
  <2>1. Life' = [Life EXCEPT ![r] = "open"] /\ Life[r] = "absent"
    BY <1>0, <1>1 DEF Enqueue, Life, LedgerType, Open
  <2>2. Promise!Create(r)
    BY <1>1, <2>1 DEF Enqueue, Promise!Create, Life, historyVars
  <2> QED
    BY <2>2 DEF Promise!Next
<1>2. ASSUME NEW r \in DOMAIN batch, BeginSend(r) PROVE Promise!Next
  <2>1. r \in Rows /\ Life[r] = "open"
    BY <1>0 DEF Life
  <2>2. Promise!Try(r)
    BY <1>2, <2>1 DEF BeginSend, Promise!Try, Life, ledgerVars
  <2> QED
    BY <2>1, <2>2 DEF Promise!Next
<1>3. ASSUME NEW r \in inflight, NEW outcome \in Outcomes, SendEnds(r, outcome)
      PROVE  [Promise!Next]_(Promise!ledgerVars)
  <2>1. CASE outcome = "refused"
    BY <1>3, <2>1, Unseen DEF SendEnds, ledgerVars
  <2>2. CASE outcome # "refused"
    <3>1. r \in Rows /\ Life[r] = "open"
      BY <1>0 DEF Life
    <3>2. delivered[r] < begun[r]
      BY <1>0, <1>3, <3>1, SMT DEF SendEnds, AttemptsAccount, InFlight, CountersType
    <3>3. Promise!Deliver(r)
      BY <1>3, <2>2, <3>1, <3>2 DEF SendEnds, Promise!Deliver, Life, ledgerVars
    <3> QED
      BY <3>1, <3>3 DEF Promise!Next
  <2> QED
    BY <2>1, <2>2
<1>4. ASSUME NEW r \in DOMAIN batch, Burn(r, "dead"), UNCHANGED <<begun, delivered>>,
             r \in Unrenderable \/ begun[r] >= MaxAttempts
      PROVE  Promise!Next
  <2>1. r \in Rows /\ Life[r] = "open"
    BY <1>0 DEF Life
  <2>2. Life' = [Life EXCEPT ![r] = "dead"]
    BY <1>0, <1>4, <2>1, SettlingLife DEF Settled
  <2>3. Promise!SettleDead(r)
    BY <1>4, <2>1, <2>2 DEF Promise!SettleDead, Life
  <2> QED
    BY <2>1, <2>3 DEF Promise!Next
<1>5. ASSUME NEW r \in DOMAIN batch, EventMissing(r) PROVE Promise!Next
  BY <1>4, <1>5 DEF EventMissing, historyVars
<1>6. ASSUME NEW r \in inflight, RecordDead(r) PROVE Promise!Next
  <2>1. r \in Rows /\ r \in DOMAIN batch
    BY <1>0
  <2>2. attempts[r] + 1 >= MaxAttempts
    BY <1>0, <1>6, <2>1 DEF RecordDead, LastAttempt
  <2>3. r \notin Unrenderable /\ attempts[r] + 1 <= begun[r]
    BY <1>0, <2>1 DEF AttemptsAccount, InFlight
  <2>4. begun[r] >= MaxAttempts
    BY <1>0, <2>1, <2>2, <2>3, SMT DEF LedgerType, CountersType
  <2> QED
    BY <1>4, <1>6, <2>1, <2>4 DEF RecordDead, historyVars
<1>7. ASSUME NEW r \in inflight, RecordSent(r) PROVE Promise!Next
  <2>1. r \in Rows /\ Life[r] = "open"
    BY <1>0 DEF Life
  <2>2. Life' = [Life EXCEPT ![r] = "sent"]
    BY <1>0, <1>7, <2>1, SettlingLife DEF RecordSent, Settled
  <2>3. delivered[r] > 0
    BY <1>0, <1>7, <2>1, SMT DEF RecordSent, AttemptsAccount, CountersType
  <2>4. Promise!SettleSent(r)
    BY <1>7, <2>1, <2>2, <2>3 DEF RecordSent, Promise!SettleSent, Life, historyVars
  <2> QED
    BY <2>1, <2>4 DEF Promise!Next
<1>8. ASSUME NEW r \in inflight, RecordRetry(r) PROVE UNCHANGED Promise!ledgerVars
  <2>1. Life' = Life
    BY <1>0, <1>8 DEF RecordRetry, Burn, Life, LedgerType, Open
  <2> QED
    BY <1>8, <2>1 DEF RecordRetry, Promise!ledgerVars, Life, historyVars
<1>9. ASSUME NEW r, DeferForKill(r) \/ OverBudget(r) PROVE UNCHANGED Promise!ledgerVars
  BY <1>9, Unseen DEF DeferForKill, OverBudget, Defer, historyVars
<1>10. ASSUME NEW engaged, SetKill(engaged) PROVE UNCHANGED Promise!ledgerVars
  BY <1>10, Unseen DEF SetKill, ledgerVars
<1>11. CASE Claim \/ CheckKill \/ Tick \/ Crash \/ PassError \/ UNCHANGED vars
  BY <1>11, Unseen
     DEF Claim, CheckKill, Tick, Crash, PassError, PassDropped, vars, ledgerVars, historyVars
<1> QED
  BY <1>0, <1>1, <1>2, <1>3, <1>5, <1>6, <1>7, <1>8, <1>9, <1>10, <1>11, Steps

\* The sender, its limiter, the kill switch and every fault implement the
\* abstract ledger: rows are created once, tried while open, settled once, and
\* settled as sent only with a copy in the channel.
THEOREM ImplementsLedger == Spec => KeepsPromise
<1>1. Init => Promise!Init
  <2> SUFFICES ASSUME Init PROVE Promise!Init
    OBVIOUS
  <2> QED
    BY DEF Init, Promise!Init, Open
<1> QED
  BY <1>1, PromiseStep, InvAlways, PTL DEF Spec, KeepsPromise, Promise!Spec
=============================================================================
