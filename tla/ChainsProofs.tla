---------------------------- MODULE ChainsProofs ----------------------------
(***************************************************************************)
(* Proofs about Chains, for any sets of requests, media and events.        *)
(*                                                                         *)
(* Part 1 holds for any number of appliers: the type invariant, and that   *)
(* the closing of a chain survives every race.  Part 2 is about a single   *)
(* applier, the case the code's comments describe: what the lookups read   *)
(* is still true at the write, so chains only move forward, and what was   *)
(* applied shows.  Part 3 says what a request with no chain of its own     *)
(* takes, again for any number; part 4, for one, that apply is the single  *)
(* step of Lifecycle.                                                      *)
(***************************************************************************)
EXTENDS Chains, TLAPS

LEMMA RankRange ==
    /\ \A s \in ChainStates \cup {"none"} : Rank(s) \in -1 .. 3
    /\ \A s \in Closing : Rank(s) = 3
    /\ \A s \in ChainStates : Rank(s) >= 0
    /\ Rank("none") = -1
<1>1. /\ Rank("none") = -1 /\ Rank("requested") = 0 /\ Rank("approved") = 1
      /\ Rank("partially_available") = 2 /\ Rank("available") = 3 /\ Rank("declined") = 3
  BY SMT DEF Rank, StateRank
<1> QED BY <1>1, SMT DEF ChainStates, Closing

-----------------------------------------------------------------------------
\* Part 1: any number of appliers

LEMMA TypeInit == Init => TypeOK
BY NoneAssumption, SMT DEF Init, TypeOK, NoRow, Row

LEMMA TypeStep == TypeOK /\ [Next]_vars => TypeOK'
<1> SUFFICES ASSUME TypeOK, [Next]_vars PROVE TypeOK'
  OBVIOUS
<1> USE NoneAssumption, EventsAssumption
<1>1. ASSUME NEW a \in Appliers, NEW e \in Events, Start(a, e) PROVE TypeOK'
  BY <1>1, SMT DEF Start, TypeOK, Exists
<1>2. ASSUME NEW a \in Appliers, Insert(a) PROVE TypeOK'
  <2>1. ev[a] \in Events /\ Key(ev[a]) \in Requests \X ChainStates
    BY <1>2, SMT DEF Insert, TypeOK, Key
  <2> QED BY <2>1, <1>2, SMT DEF Insert, TypeOK, Exists
<1>3. ASSUME NEW a \in Appliers, ByRequest(a) PROVE TypeOK'
  <2>1. ev[a] \in Events /\ ev[a].req \in Requests
    BY <1>3, SMT DEF ByRequest, TypeOK
  <2>2. CASE Exists(ev[a].req) /\ Found(a, ev[a].req)
    BY <2>1, <2>2, <1>3, SMT DEF ByRequest, Found, TypeOK, Exists
  <2>3. CASE FoundNothing(a, IF ev[a].media = None THEN "write" ELSE "byMedia")
    BY <2>1, <2>3, <1>3, SMT DEF ByRequest, FoundNothing, TypeOK, Exists, NoRow, Row
  <2> QED BY <2>2, <2>3, <1>3 DEF ByRequest
<1>4. ASSUME NEW a \in Appliers, ByMedia(a) PROVE TypeOK'
  <2>1. CASE \E r \in OpenFor(ev[a].media) : Found(a, r)
    <3>1. PICK r \in Requests : Exists(r) /\ Found(a, r)
      BY <2>1, SMT DEF OpenFor
    <3> QED BY <3>1, <1>4, SMT DEF ByMedia, Found, TypeOK, Exists
  <2>2. CASE FoundNothing(a, "write")
    BY <2>2, <1>4, SMT DEF ByMedia, FoundNothing, TypeOK, Exists, NoRow, Row
  <2> QED BY <2>1, <2>2, <1>4 DEF ByMedia
<1>5. ASSUME NEW a \in Appliers, Create(a) PROVE TypeOK'
  <2>1. ev[a] \in Events
    BY <1>5, SMT DEF Create, TypeOK
  <2>2. chain' \in [Requests -> Row] /\ \A r \in Requests : Exists(r) => Exists(r)'
    BY <2>1, <1>5, SMT DEF Create, TypeOK, Row, Exists, ChainStates
  <2> QED BY <2>1, <2>2, <1>5, SMT DEF Create, Applied, Returned, TypeOK, NoRow, Row
<1>6. ASSUME NEW a \in Appliers, Ignore(a) PROVE TypeOK'
  BY <1>6, SMT DEF Ignore, Applied, Returned, TypeOK, NoRow, Row, Exists
<1>7. ASSUME NEW a \in Appliers, Advance(a) PROVE TypeOK'
  <2>1. ev[a] \in Events /\ found[a] \in Requests
    BY <1>7, SMT DEF Advance, TypeOK
  <2>2. chain[found[a]] \in Row /\ seen[a] \in Row /\ ev[a].state \in ChainStates
    BY <2>1, SMT DEF TypeOK
  <2>3. Updated(chain[found[a]], ev[a], seen[a]) \in Row
    <3> DEFINE row == chain[found[a]]
    <3>1. (IF ev[a].state \in Closing THEN TRUE ELSE row.closed) \in BOOLEAN
      BY <2>2 DEF Row
    <3>2. (IF seen[a].media = None /\ ev[a].media # None THEN ev[a].media ELSE row.media)
             \in Media \cup {None}
      BY <2>1, <2>2, SMT DEF Row
    <3> QED BY <2>2, <3>1, <3>2, Zenon DEF Updated, Row
  <2>4. Updated(chain[found[a]], ev[a], seen[a]).state # "none"
    BY <2>1, <2>2, SMT DEF Updated, ChainStates
  <2>5. chain' = [chain EXCEPT ![found[a]] = Updated(chain[found[a]], ev[a], seen[a])]
    BY <1>7 DEF Advance
  <2>6. chain' \in [Requests -> Row] /\ \A r \in Requests : Exists(r) => Exists(r)'
    BY <2>1, <2>3, <2>4, <2>5, SMT DEF TypeOK, Exists
  <2> QED BY <2>1, <2>6, <1>7, SMT DEF Advance, Applied, Returned, TypeOK, NoRow, Row
<1>8. ASSUME NEW a \in Appliers, Fail(a) PROVE TypeOK'
  BY <1>8, SMT DEF Fail, Returned, TypeOK, NoRow, Row, Exists
<1>9. CASE UNCHANGED vars
  BY <1>9, SMT DEF vars, threadVars, TypeOK, Exists
<1> QED BY <1>1, <1>2, <1>3, <1>4, <1>5, <1>6, <1>7, <1>8, <1>9 DEF Next

\* The type invariant: above all, a row that an applier is about to write
\* exists, whatever the other applier did since it was read.
THEOREM TypeCorrect == Spec => []TypeOK
BY TypeInit, TypeStep, PTL DEF Spec

\* Events of one request agree on its media.
SameMedia == \A e, f \in Events : e.req = f.req => e.media = f.media \/ None \in {e.media, f.media}

\* The media of a chain comes from an event of the request that opened it, so
\* with SameMedia it is set once; an applier holds the chain of its own request
\* or one of the same media; and a chain once read as closed is closed.
MediaFromOwn ==
    \A r \in Requests :
        chain[r].media # None => \E e \in Events : e.req = r /\ e.media = chain[r].media

Linked(a) ==
    /\ \/ found[a] = ev[a].req
       \/ ev[a].media # None /\ seen[a].media = ev[a].media
                            /\ chain[found[a]].media = ev[a].media
    /\ seen[a].closed => chain[found[a]].closed
    /\ seen[a].state \in ChainStates
    /\ pc[a] = "write"
HeldIsLinked == \A a \in Appliers : found[a] # None => Linked(a)

ClosingInv == TypeOK /\ MediaFromOwn /\ HeldIsLinked /\ ClosingCloses

LEMMA MediaFromOwnStep ==
  ASSUME ClosingInv, [Next]_vars
  PROVE  MediaFromOwn'
<1> USE NoneAssumption, EventsAssumption DEF ClosingInv
<1>1. ASSUME NEW a \in Appliers, Create(a) PROVE MediaFromOwn'
  <2>1. ev[a] \in Events
    BY <1>1, SMT DEF Create, TypeOK
  <2>2. \A r \in Requests : chain'[r].media = IF r = ev[a].req THEN ev[a].media ELSE chain[r].media
    BY <2>1, <1>1, SMT DEF Create, TypeOK
  <2>3. ASSUME NEW r \in Requests, chain'[r].media # None
        PROVE  \E e \in Events : e.req = r /\ e.media = chain'[r].media
    <3>1. CASE r = ev[a].req
      BY <2>1, <2>2, <3>1
    <3>2. CASE r # ev[a].req
      BY <2>2, <2>3, <3>2 DEF MediaFromOwn
    <3> QED BY <3>1, <3>2
  <2> QED BY <2>3 DEF MediaFromOwn
<1>2. ASSUME NEW a \in Appliers, Advance(a) PROVE MediaFromOwn'
  <2>1. ev[a] \in Events /\ found[a] \in Requests
    BY <1>2, SMT DEF Advance, TypeOK
  <2>2. chain'[found[a]].media = chain[found[a]].media
        \/ (seen[a].media = None /\ ev[a].media # None /\ chain'[found[a]].media = ev[a].media)
    BY <2>1, <1>2, SMT DEF Advance, Updated, TypeOK
  <2>3. \A r \in Requests \ {found[a]} : chain'[r] = chain[r]
    BY <2>1, <1>2, SMT DEF Advance, TypeOK
  <2>4. seen[a].media = None /\ ev[a].media # None => found[a] = ev[a].req
    BY <1>2, SMT DEF Advance, HeldIsLinked, Linked
  <2> QED BY <2>1, <2>2, <2>3, <2>4, SMT DEF MediaFromOwn
<1>3. ASSUME UNCHANGED chain PROVE MediaFromOwn'
  BY <1>3, SMT DEF MediaFromOwn
<1> QED BY <1>1, <1>2, <1>3 DEF Next, vars, Start, Insert, ByRequest, ByMedia, Ignore, Fail

\* What a write does to any row: it stays closed, it keeps its media once it has
\* one, and it goes on to exist.
LEMMA RowsPersist ==
  ASSUME ClosingInv, SameMedia, [Next]_vars, NEW r \in Requests, Exists(r)
  PROVE  /\ Exists(r)'
         /\ chain[r].closed => chain'[r].closed
         /\ chain[r].media # None => chain'[r].media = chain[r].media
<1> USE NoneAssumption, EventsAssumption DEF ClosingInv
<1>1. ASSUME NEW a \in Appliers, Create(a) PROVE chain'[r] = chain[r]
  BY <1>1, SMT DEF Create, Exists, TypeOK
<1>2. ASSUME NEW a \in Appliers, Advance(a), r = found[a]
      PROVE  /\ Exists(r)'
             /\ chain[r].closed => chain'[r].closed
             /\ chain[r].media # None => chain'[r].media = chain[r].media
  <2>1. ev[a] \in Events /\ chain'[r] = Updated(chain[r], ev[a], seen[a])
    BY <1>2, SMT DEF Advance, TypeOK
  <2>a. ev[a].state \in ChainStates /\ chain[r] \in Row
    BY <2>1, SMT DEF TypeOK
  <2>b. /\ chain'[r].state = ev[a].state
        /\ chain'[r].closed = IF ev[a].state \in Closing THEN TRUE ELSE chain[r].closed
    BY <2>1, SMT DEF Updated
  <2>2. Exists(r)' /\ (chain[r].closed => chain'[r].closed)
    BY <2>a, <2>b, SMT DEF Exists, ChainStates
  <2>3. ASSUME chain[r].media # None, seen[a].media = None, ev[a].media # None
        PROVE  ev[a].media = chain[r].media
    <3>1. r = ev[a].req
      BY <2>3, <1>2, SMT DEF Advance, HeldIsLinked, Linked
    <3>2. PICK e \in Events : e.req = r /\ e.media = chain[r].media
      BY <2>3 DEF MediaFromOwn
    <3> QED BY <2>1, <2>3, <3>1, <3>2, SMT DEF SameMedia
  <2> QED BY <2>1, <2>2, <2>3, SMT DEF Updated
<1>3. ASSUME NEW a \in Appliers, Advance(a), r # found[a] PROVE chain'[r] = chain[r]
  BY <1>3, SMT DEF Advance, TypeOK
<1>4. ASSUME UNCHANGED chain PROVE chain'[r] = chain[r]
  BY <1>4
<1>5. ASSUME chain'[r] = chain[r]
      PROVE  /\ Exists(r)'
             /\ chain[r].closed => chain'[r].closed
             /\ chain[r].media # None => chain'[r].media = chain[r].media
  BY <1>5 DEF Exists
<1> QED BY <1>1, <1>2, <1>3, <1>4, <1>5
        DEF Next, vars, Start, Insert, ByRequest, ByMedia, Ignore, Fail

LEMMA HeldIsLinkedStep ==
  ASSUME ClosingInv, SameMedia, [Next]_vars
  PROVE  HeldIsLinked'
<1> USE NoneAssumption, EventsAssumption DEF ClosingInv
<1> SUFFICES ASSUME NEW b \in Appliers, found'[b] # None PROVE Linked(b)'
  BY DEF HeldIsLinked
<1>1. ASSUME UNCHANGED <<pc[b], ev[b], found[b], seen[b]>> PROVE Linked(b)'
  <2>1. found[b] \in Requests /\ Exists(found[b]) /\ Linked(b)
    BY <1>1, SMT DEF TypeOK, HeldIsLinked
  <2>2. /\ chain[found[b]].closed => chain'[found[b]].closed
        /\ chain[found[b]].media # None => chain'[found[b]].media = chain[found[b]].media
    BY <2>1, RowsPersist
  <2> QED BY <1>1, <2>1, <2>2 DEF Linked
<1>2. ASSUME ByRequest(b) PROVE Linked(b)'
  <2>1. ev[b].req \in Requests /\ Exists(ev[b].req) /\ Found(b, ev[b].req)
    BY <1>2, SMT DEF ByRequest, TypeOK, FoundNothing
  <2>2. chain[ev[b].req] \in Row /\ UNCHANGED <<chain, ev>>
    BY <2>1, <1>2, SMT DEF ByRequest, TypeOK
  <2> QED BY <2>1, <2>2, SMT DEF Linked, Found, TypeOK, Exists, Row
<1>3. ASSUME ByMedia(b) PROVE Linked(b)'
  <2>1. PICK r \in Requests :
          Exists(r) /\ chain[r].media = ev[b].media /\ Found(b, r)
    BY <1>3, SMT DEF ByMedia, TypeOK, FoundNothing, OpenFor
  <2>2. ev[b].media # None /\ UNCHANGED <<chain, ev>> /\ chain[r] \in Row
    BY <1>3, SMT DEF ByMedia, TypeOK, HeldIsLinked
  <2> QED BY <2>1, <2>2, SMT DEF Linked, Found, TypeOK, Exists, Row
<1>4. ASSUME Returned(b) PROVE FALSE
  BY <1>4, SMT DEF Returned, TypeOK
<1>5. ASSUME NEW e \in Events, Start(b, e) PROVE FALSE
  BY <1>5, SMT DEF Start, HeldIsLinked, Linked, TypeOK
<1>6. ASSUME Insert(b) PROVE FALSE
  BY <1>6, SMT DEF Insert, HeldIsLinked, Linked, TypeOK
<1>7. ASSUME NEW a \in Appliers, a # b, Returned(a) PROVE UNCHANGED <<pc[b], ev[b], found[b], seen[b]>>
  BY <1>7, SMT DEF Returned, TypeOK
<1>8. ASSUME NEW a \in Appliers, a # b,
             ByRequest(a) \/ ByMedia(a) \/ Insert(a) \/ \E e \in Events : Start(a, e)
      PROVE  UNCHANGED <<pc[b], ev[b], found[b], seen[b]>>
  BY <1>8, SMT DEF ByRequest, ByMedia, Insert, Start, Found, FoundNothing, TypeOK
<1> QED BY <1>1, <1>2, <1>3, <1>4, <1>5, <1>6, <1>7, <1>8
        DEF Next, Create, Ignore, Advance, Applied, Fail, vars, threadVars

\* The chain an event was linked to closed with it.
LEMMA ClosingClosesStep ==
  ASSUME ClosingInv, SameMedia, [Next]_vars
  PROVE  ClosingCloses'
<1> USE NoneAssumption, EventsAssumption DEF ClosingInv
<1> DEFINE ClosedFor(e) == \E r \in LinkedTo(e) : Exists(r) /\ chain[r].closed
<1>1. ASSUME NEW e \in applied, e.state \in Closing PROVE ClosedFor(e)'
  <2>1. PICK r \in LinkedTo(e) : Exists(r) /\ chain[r].closed
    BY <1>1 DEF ClosingCloses
  <2>2. Exists(r)' /\ chain'[r].closed /\ r \in LinkedTo(e)'
    BY <2>1, RowsPersist DEF LinkedTo
  <2> QED BY <2>2
<1>2. ASSUME NEW a \in Appliers, NEW e, e = ev[a], Create(a), e.state \in Closing
      PROVE  ClosedFor(e)'
  <2>1. e \in Events /\ e.req \in Requests
    BY <1>2, SMT DEF Create, TypeOK
  <2>2. chain'[e.req].state = e.state /\ chain'[e.req].closed = (e.state \in Closing)
    BY <2>1, <1>2, SMT DEF Create, TypeOK
  <2>3. e.req \in LinkedTo(e)' /\ Exists(e.req)'
    BY <2>1, <2>2, SMT DEF LinkedTo, Exists, ChainStates
  <2> QED BY <2>2, <2>3, <1>2
<1>3. ASSUME NEW a \in Appliers, NEW e, e = ev[a], Ignore(a) \/ Advance(a), e.state \in Closing
      PROVE  ClosedFor(e)'
  <2> PICK r : r = found[a]
    OBVIOUS
  <2>1. e \in Events /\ r \in Requests /\ r # None /\ Exists(r) /\ Linked(a)
    BY <1>3, SMT DEF Ignore, Advance, TypeOK, HeldIsLinked
  <2>2. /\ Exists(r)'
        /\ chain[r].closed => chain'[r].closed
        /\ chain[r].media # None => chain'[r].media = chain[r].media
    BY <2>1, RowsPersist
  <2>3. r \in LinkedTo(e)'
    BY <2>1, <2>2, <1>3 DEF Linked, LinkedTo
  <2>4. CASE Ignore(a)
    <3>1. seen[a].closed
      BY <2>1, <2>4, <1>3, RankRange, SMT DEF Ignore, Stale, Linked
    <3>2. chain'[r].closed
      BY <3>1, <2>1, <2>2 DEF Linked
    <3> QED BY <2>2, <2>3, <3>2
  <2>5. CASE Advance(a)
    <3>1. chain'[r] = Updated(chain[r], e, seen[a])
      BY <2>1, <2>5, <1>3, SMT DEF Advance, TypeOK
    <3>2. chain'[r].closed = IF e.state \in Closing THEN TRUE ELSE chain[r].closed
      BY <3>1, SMT DEF Updated
    <3>3. chain'[r].closed
      BY <3>2, <1>3
    <3> QED BY <2>2, <2>3, <3>3
  <2> QED BY <1>3, <2>4, <2>5
<1>4. applied' \subseteq applied
      \/ \E a \in Appliers : /\ Create(a) \/ Ignore(a) \/ Advance(a)
                            /\ applied' = applied \cup {ev[a]}
  BY DEF Next, vars, Start, Insert, ByRequest, ByMedia, Create, Ignore, Advance, Applied, Fail
<1> QED
  <2>1. ASSUME NEW e \in applied', e.state \in Closing PROVE ClosedFor(e)'
    <3> HIDE DEF ClosedFor
    <3>1. CASE e \in applied
      BY <3>1, <2>1, <1>1
    <3>2. CASE e \notin applied
      BY <3>2, <2>1, <1>2, <1>3, <1>4
    <3> QED BY <3>1, <3>2
  <2> QED BY <2>1 DEF ClosingCloses

\* However many threads are in apply: when the events of a request agree on its
\* media, then once a decline or an availability was applied, a chain the event
\* belongs to is closed, and no stale write of another thread reopens it.
THEOREM ClosingSurvives == ASSUME SameMedia PROVE Spec => []ClosingCloses
<1>1. Init => ClosingInv
  <2>1. Init => MediaFromOwn /\ HeldIsLinked /\ ClosingCloses
    BY SMT DEF Init, MediaFromOwn, HeldIsLinked, ClosingCloses, NoRow
  <2> QED BY <2>1, TypeInit DEF ClosingInv
<1>2. ClosingInv /\ [Next]_vars => ClosingInv'
  <2>1. ASSUME ClosingInv, [Next]_vars PROVE ClosingInv'
    BY <2>1, TypeStep, MediaFromOwnStep, HeldIsLinkedStep, ClosingClosesStep DEF ClosingInv
  <2> QED BY <2>1
<1>3. ClosingInv => ClosingCloses
  BY DEF ClosingInv
<1> QED BY <1>1, <1>2, <1>3, PTL DEF Spec

-----------------------------------------------------------------------------
\* Part 2: one applier

OneApplier == \A a, b \in Appliers : a = b

\* What the lookups returned is the row as it is.
SeenIsFresh == \A a \in Appliers : found[a] # None => seen[a] = chain[found[a]]

SingleInv == TypeOK /\ SeenIsFresh /\ ClosedAgrees

LEMMA SingleInit == Init => SingleInv
<1>1. Init => SeenIsFresh /\ ClosedAgrees
  BY SMT DEF Init, SeenIsFresh, ClosedAgrees, NoRow, Closing
<1> QED BY <1>1, TypeInit DEF SingleInv

\* With one applier every write advances a chain that is open and not beyond.
LEMMA SingleWrite ==
  ASSUME SingleInv, NEW a \in Appliers, Advance(a)
  PROVE  /\ found[a] \in Requests /\ ev[a] \in Events
         /\ ~chain[found[a]].closed
         /\ Rank(chain[found[a]].state) <= Rank(ev[a].state)
         /\ chain'[found[a]] = Updated(chain[found[a]], ev[a], seen[a])
         /\ \A r \in Requests \ {found[a]} : chain'[r] = chain[r]
<1>1. found[a] \in Requests /\ ev[a] \in Events /\ seen[a] = chain[found[a]]
  BY SMT DEF Advance, SingleInv, SeenIsFresh, TypeOK
<1>2. ~chain[found[a]].closed /\ ~(Rank(ev[a].state) < Rank(chain[found[a]].state))
  BY <1>1 DEF Advance, Stale
<1>3. Rank(ev[a].state) \in Int /\ Rank(chain[found[a]].state) \in Int
  BY <1>1, RankRange, EventsAssumption, SMT DEF SingleInv, TypeOK, Row
<1>4. /\ chain'[found[a]] = Updated(chain[found[a]], ev[a], seen[a])
      /\ \A r \in Requests \ {found[a]} : chain'[r] = chain[r]
  BY <1>1, SMT DEF Advance, SingleInv, TypeOK
<1> QED BY <1>1, <1>2, <1>3, <1>4, SMT

LEMMA SingleStep ==
  ASSUME SingleInv, OneApplier, [Next]_vars
  PROVE  SingleInv'
<1>1. TypeOK'
  BY TypeStep DEF SingleInv
<1>2. SeenIsFresh'
  <2> USE NoneAssumption DEF SingleInv
  <2>1. ASSUME NEW a \in Appliers, ByRequest(a) \/ ByMedia(a) PROVE SeenIsFresh'
    BY <2>1, SMT DEF ByRequest, ByMedia, Found, FoundNothing, OpenFor, SeenIsFresh, TypeOK
  <2>2. ASSUME NEW a \in Appliers, Returned(a) PROVE SeenIsFresh'
    BY <2>2, SMT DEF Returned, SeenIsFresh, TypeOK, OneApplier
  <2>3. ASSUME UNCHANGED <<found, seen, chain>> PROVE SeenIsFresh'
    BY <2>3 DEF SeenIsFresh
  <2> QED BY <2>1, <2>2, <2>3
          DEF Next, vars, threadVars, Start, Insert, Create, Ignore, Advance, Applied, Fail
<1>3. ClosedAgrees'
  <2>1. ASSUME NEW a \in Appliers, Create(a) PROVE ClosedAgrees'
    <3>1. ev[a] \in Events
      BY <2>1, SMT DEF Create, SingleInv, TypeOK
    <3>2. ev[a].req \in Requests
      BY <3>1, EventsAssumption, SMT
    <3>3. /\ chain'[ev[a].req].state = ev[a].state
          /\ chain'[ev[a].req].closed = (ev[a].state \in Closing)
          /\ \A r \in Requests \ {ev[a].req} : chain'[r] = chain[r]
      BY <3>2, <2>1, SMT DEF Create, SingleInv, TypeOK
    <3> QED BY <3>3 DEF ClosedAgrees, SingleInv
  <2>2. ASSUME NEW a \in Appliers, Advance(a) PROVE ClosedAgrees'
    <3>0. chain'[found[a]] = Updated(chain[found[a]], ev[a], seen[a]) /\ ~chain[found[a]].closed
      BY <2>2, SingleWrite
    <3>1. chain'[found[a]].state = ev[a].state
      BY <3>0, SMT DEF Updated
    <3>2. chain'[found[a]].closed = IF ev[a].state \in Closing THEN TRUE ELSE chain[found[a]].closed
      BY <3>0, SMT DEF Updated
    <3>3. \A r \in Requests \ {found[a]} : chain'[r] = chain[r]
      BY <2>2, SingleWrite
    <3>4. chain'[found[a]].closed <=> chain'[found[a]].state \in Closing
      BY <3>0, <3>1, <3>2
    <3> QED BY <3>3, <3>4 DEF ClosedAgrees, SingleInv
  <2>3. ASSUME UNCHANGED chain PROVE ClosedAgrees'
    BY <2>3 DEF ClosedAgrees, SingleInv
  <2> QED BY <2>1, <2>2, <2>3 DEF Next, vars, Start, Insert, ByRequest, ByMedia, Ignore, Fail
<1> QED BY <1>1, <1>2, <1>3 DEF SingleInv

\* With one applier, closed_at is set exactly for the states that end a request.
THEOREM ClosedAgreesAlways == ASSUME OneApplier PROVE Spec => []ClosedAgrees
<1>1. SingleInv /\ [Next]_vars => SingleInv'
  BY SingleStep
<1>2. SingleInv => ClosedAgrees
  BY DEF SingleInv
<1> QED BY SingleInit, <1>1, <1>2, PTL DEF Spec

LEMMA SingleForward ==
  ASSUME SingleInv, [Next]_vars, NEW r \in Requests
  PROVE  Rank(chain[r].state) <= Rank(chain'[r].state)
<1> USE DEF SingleInv
<1>1. Rank(chain[r].state) \in Int /\ Rank(chain[r].state) >= -1
  BY RankRange, SMT DEF TypeOK, Row
<1>2. ASSUME NEW a \in Appliers, Create(a) PROVE Rank(chain[r].state) <= Rank(chain'[r].state)
  <2>1. CASE r = ev[a].req
    <3>1. chain[r].state = "none" /\ chain'[r].state = ev[a].state /\ ev[a] \in Events
      BY <1>2, <2>1, SMT DEF Create, Exists, TypeOK
    <3>2. ev[a].state \in ChainStates
      BY <3>1, EventsAssumption, SMT
    <3> QED BY <3>1, <3>2, RankRange, SMT
  <2>2. CASE r # ev[a].req
    BY <1>1, <1>2, <2>2, SMT DEF Create, TypeOK
  <2> QED BY <2>1, <2>2
<1>3. ASSUME NEW a \in Appliers, Advance(a) PROVE Rank(chain[r].state) <= Rank(chain'[r].state)
  <2>1. r = found[a] => chain'[r].state = ev[a].state
    <3>1. chain'[found[a]] = Updated(chain[found[a]], ev[a], seen[a])
      BY <1>3, SingleWrite
    <3> QED BY <3>1, SMT DEF Updated
  <2>2. r # found[a] => chain'[r] = chain[r]
    BY <1>3, SingleWrite
  <2> QED BY <1>1, <1>3, <2>1, <2>2, SingleWrite, SMT
<1>4. ASSUME UNCHANGED chain PROVE Rank(chain[r].state) <= Rank(chain'[r].state)
  BY <1>1, <1>4, SMT
<1> QED BY <1>2, <1>3, <1>4
        DEF Next, vars, Start, Insert, ByRequest, ByMedia, Ignore, Fail

\* With one applier, a chain only moves forward, in whatever order the events
\* come and however often.
THEOREM ChainsMoveForward == ASSUME OneApplier PROVE Spec => ForwardOnly
<1>1. SingleInv /\ [Next]_vars => SingleInv'
  BY SingleStep
<1>2. SingleInv /\ [Next]_vars =>
        [\A r \in Requests : Rank(chain[r].state) <= Rank(chain'[r].state)]_vars
  BY SingleForward
<1> QED BY SingleInit, <1>1, <1>2, PTL DEF Spec, ForwardOnly

LEMMA SingleFinal ==
  ASSUME SingleInv, [Next]_vars, NEW r \in Requests, chain[r].closed
  PROVE  chain'[r] = chain[r]
<1> USE DEF SingleInv
<1>1. ASSUME NEW a \in Appliers, Create(a) PROVE chain'[r] = chain[r]
  <2>1. chain[ev[a].req].state = "none" /\ ev[a].req \in Requests
    BY <1>1, EventsAssumption, SMT DEF Create, Exists, TypeOK
  <2>2. ~chain[ev[a].req].closed
    BY <2>1, SMT DEF ClosedAgrees, Closing
  <2> QED BY <1>1, <2>2, SMT DEF Create, TypeOK
<1>2. ASSUME NEW a \in Appliers, Advance(a) PROVE chain'[r] = chain[r]
  BY <1>2, SingleWrite, SMT DEF TypeOK
<1>3. ASSUME UNCHANGED chain PROVE chain'[r] = chain[r]
  BY <1>3
<1> QED BY <1>1, <1>2, <1>3
        DEF Next, vars, Start, Insert, ByRequest, ByMedia, Ignore, Fail

\* With one applier, a closed chain is never written again.
THEOREM ClosedForever == ASSUME OneApplier PROVE Spec => ClosedIsFinal
<1>1. SingleInv /\ [Next]_vars => SingleInv'
  BY SingleStep
<1>2. SingleInv /\ [Next]_vars => [\A r \in Requests : chain[r].closed => chain'[r] = chain[r]]_vars
  BY SingleFinal
<1> QED BY SingleInit, <1>1, <1>2, PTL DEF Spec, ClosedIsFinal

-----------------------------------------------------------------------------
\* With one applier, what was applied is reflected

\* The chain the lookups returned is one its event belongs to.
HeldBelongs ==
    \A a \in Appliers : found[a] # None => pc[a] = "write" /\ found[a] \in LinkedTo(ev[a])

ReflectedInv == SingleInv /\ HeldBelongs /\ AppliedIsReflected

\* A chain keeps its media once it has one, whatever the events say of it.
LEMMA SinglePersists ==
  ASSUME SingleInv, [Next]_vars, NEW r \in Requests, Exists(r)
  PROVE  Exists(r)' /\ (chain[r].media # None => chain'[r].media = chain[r].media)
<1> USE DEF SingleInv
<1>1. ASSUME NEW a \in Appliers, Create(a) PROVE chain'[r] = chain[r]
  BY <1>1, SMT DEF Create, Exists, TypeOK
<1>2. ASSUME NEW a \in Appliers, Advance(a), r = found[a]
      PROVE  Exists(r)' /\ (chain[r].media # None => chain'[r].media = chain[r].media)
  <2>1. /\ chain'[r] = Updated(chain[r], ev[a], seen[a]) /\ seen[a] = chain[r]
        /\ ev[a].state \in ChainStates
    <3>1. ev[a] \in Events
      BY <1>2, SingleWrite
    <3>2. chain'[r] = Updated(chain[r], ev[a], seen[a])
      BY <1>2, SingleWrite
    <3> QED BY <1>2, <3>1, <3>2, EventsAssumption, SMT DEF Advance, SeenIsFresh
  <2>2. chain'[r].state = ev[a].state
    BY <2>1, SMT DEF Updated
  <2>3. chain[r].media # None => chain'[r].media = chain[r].media
    BY <2>1, SMT DEF Updated
  <2> QED BY <2>1, <2>2, <2>3, SMT DEF Exists, ChainStates
<1>3. ASSUME NEW a \in Appliers, Advance(a), r # found[a] PROVE chain'[r] = chain[r]
  BY <1>3, SingleWrite
<1>4. ASSUME chain'[r] = chain[r]
      PROVE  Exists(r)' /\ (chain[r].media # None => chain'[r].media = chain[r].media)
  BY <1>4 DEF Exists
<1> QED BY <1>1, <1>2, <1>3, <1>4
        DEF Next, vars, Start, Insert, ByRequest, ByMedia, Ignore, Fail

LEMMA LinkPersists ==
  ASSUME SingleInv, [Next]_vars, NEW e, NEW r \in LinkedTo(e), Exists(r)
  PROVE  r \in LinkedTo(e)' /\ Exists(r)'
<1>1. r \in Requests
  BY DEF LinkedTo
<1> QED BY <1>1, SinglePersists DEF LinkedTo

LEMMA HeldBelongsStep ==
  ASSUME ReflectedInv, OneApplier, [Next]_vars
  PROVE  HeldBelongs'
<1> USE NoneAssumption, EventsAssumption DEF ReflectedInv, SingleInv
<1> SUFFICES ASSUME NEW b \in Appliers, found'[b] # None
             PROVE  /\ pc'[b] = "write" /\ found'[b] \in Requests
                    /\ \/ found'[b] = ev'[b].req
                       \/ ev'[b].media # None /\ chain'[found'[b]].media = ev'[b].media
  BY DEF HeldBelongs, LinkedTo
<1>1. CASE ByRequest(b)
  <2>1. ev[b].req \in Requests /\ Found(b, ev[b].req)
    BY <1>1, SMT DEF ByRequest, TypeOK, FoundNothing
  <2> QED BY <2>1, <1>1, SMT DEF ByRequest, Found, TypeOK
<1>2. CASE ByMedia(b)
  <2>1. PICK r \in Requests : chain[r].media = ev[b].media /\ Found(b, r)
    BY <1>2, SMT DEF ByMedia, TypeOK, FoundNothing, OpenFor
  <2>2. ev[b].media # None /\ UNCHANGED <<chain, ev>>
    BY <1>2, SMT DEF ByMedia, TypeOK
  <2> QED BY <2>1, <2>2, SMT DEF Found, TypeOK
<1>3. CASE UNCHANGED <<pc, ev, found, seen>>
  <2>1. pc[b] = "write" /\ found[b] \in LinkedTo(ev[b]) /\ Exists(found[b])
    BY <1>3 DEF HeldBelongs, TypeOK
  <2>2. PICK e, r : e = ev[b] /\ r = found[b]
    OBVIOUS
  <2>3. r \in LinkedTo(e)'
    BY <2>1, <2>2, LinkPersists
  <2> QED BY <1>3, <2>1, <2>2, <2>3 DEF LinkedTo
<1>4. ASSUME Returned(b) PROVE FALSE
  BY <1>4, SMT DEF Returned, TypeOK
<1>5. ASSUME NEW e \in Events, Start(b, e) PROVE FALSE
  BY <1>5, SMT DEF Start, HeldBelongs, TypeOK
<1>6. ASSUME Insert(b) PROVE FALSE
  BY <1>6, SMT DEF Insert, HeldBelongs, TypeOK
<1>7. \A a \in Appliers : a = b
  BY DEF OneApplier
<1> QED BY <1>1, <1>2, <1>3, <1>4, <1>5, <1>6, <1>7
        DEF Next, Create, Ignore, Advance, Applied, Fail, vars, threadVars

\* A chain that shows the event shows it for good: what follows ignores it or
\* moves it on.
Reflects(r, e) ==
    /\ Exists(r)
    /\ \/ chain[r].closed
       \/ e.state \notin Closing /\ Rank(e.state) <= Rank(chain[r].state)

LEMMA ReflectionPersists ==
  ASSUME SingleInv, [Next]_vars, NEW e \in Events, NEW r \in LinkedTo(e), Reflects(r, e)
  PROVE  r \in LinkedTo(e)' /\ Reflects(r, e)'
<1>1. r \in Requests /\ Exists(r)
  BY DEF LinkedTo, Reflects
<1>2. r \in LinkedTo(e)' /\ Exists(r)'
  BY <1>1, LinkPersists
<1>3. chain[r].closed => chain'[r].closed
  BY <1>1, SingleFinal
<1>4. ASSUME Rank(e.state) <= Rank(chain[r].state) PROVE Rank(e.state) <= Rank(chain'[r].state)
  <2>1. TypeOK /\ TypeOK'
    BY TypeStep DEF SingleInv
  <2>2. chain[r].state \in ChainStates \cup {"none"} /\ chain'[r].state \in ChainStates \cup {"none"}
    BY <1>1, <2>1, SMT DEF TypeOK, Row
  <2>3. Rank(e.state) \in Int /\ Rank(chain[r].state) \in Int /\ Rank(chain'[r].state) \in Int
    BY <2>2, RankRange, EventsAssumption, SMT
  <2> QED BY <1>1, <1>4, <2>3, SingleForward, SMT
<1> QED BY <1>2, <1>3, <1>4 DEF Reflects

\* The event that is applied now.
LEMMA WriteReflects ==
  ASSUME ReflectedInv, [Next]_vars, NEW a \in Appliers, NEW e, e = ev[a],
         Create(a) \/ Ignore(a) \/ Advance(a)
  PROVE  \E r \in LinkedTo(e)' : Reflects(r, e)'
<1> USE NoneAssumption, EventsAssumption DEF ReflectedInv, SingleInv
<1>1. e = ev[a] /\ e \in Events
  BY SMT DEF Create, Ignore, Advance, TypeOK
<1>2. e.req \in Requests /\ e.state \in ChainStates /\ Rank(e.state) \in 0 .. 3
      /\ (e.state \in Closing => Rank(e.state) = 3)
  BY <1>1, RankRange, SMT
<1>3. CASE Create(a)
  <2>1. chain'[e.req].state = e.state /\ chain'[e.req].closed = (e.state \in Closing)
    BY <1>1, <1>2, <1>3, SMT DEF Create, TypeOK
  <2>2. e.req \in LinkedTo(e)'
    BY <1>2 DEF LinkedTo
  <2>3. Exists(e.req)'
    BY <1>2, <2>1, SMT DEF Exists, ChainStates
  <2>4. Rank(e.state) <= Rank(chain'[e.req].state)
    BY <1>2, <2>1, SMT
  <2>5. Reflects(e.req, e)'
    BY <2>1, <2>3, <2>4 DEF Reflects
  <2> QED BY <1>1, <2>2, <2>5
<1>4. CASE Ignore(a) \/ Advance(a)
  <2>1. PICK r \in Requests : r = found[a] /\ Exists(r) /\ seen[a] = chain[r] /\ r \in LinkedTo(e)
    BY <1>1, <1>4 DEF Ignore, Advance, TypeOK, SeenIsFresh, HeldBelongs
  <2>2. r \in LinkedTo(e)' /\ Exists(r)'
    BY <2>1, LinkPersists
  <2>3. CASE Ignore(a)
    <3>1. chain[r].closed \/ Rank(e.state) < Rank(chain[r].state)
      BY <1>1, <2>1, <2>3 DEF Ignore, Stale
    <3>2. chain[r].state \in ChainStates \cup {"none"} /\ Rank(chain[r].state) \in -1 .. 3
      BY RankRange, SMT DEF TypeOK, Row
    <3>3. Reflects(r, e)
      BY <1>2, <2>1, <3>1, <3>2, SMT DEF Reflects
    <3> QED BY <1>1, <2>1, <3>3, ReflectionPersists
  <2>4. CASE Advance(a)
    <3>1. chain'[r] = Updated(chain[r], e, seen[a])
      BY <1>1, <2>1, <2>4, SingleWrite
    <3>2. chain'[r].state = e.state
      BY <3>1, SMT DEF Updated
    <3>3. e.state \in Closing => chain'[r].closed
      BY <3>1, SMT DEF Updated
    <3>4. Rank(e.state) <= Rank(chain'[r].state)
      BY <1>2, <3>2, SMT
    <3>5. Reflects(r, e)'
      BY <2>2, <3>3, <3>4 DEF Reflects
    <3> QED BY <1>1, <2>2, <3>5
  <2> QED BY <1>4, <2>3, <2>4
<1> QED BY <1>3, <1>4

\* With one applier no event is lost on the way to its chain: after apply, a
\* chain the event belongs to is closed if the event ends a request, and
\* otherwise closed or at the event's stage or beyond, whatever is duplicated,
\* reordered or cut short.
THEOREM NothingIsLost == ASSUME OneApplier PROVE Spec => []AppliedIsReflected
<1>1. Init => ReflectedInv
  <2>1. Init => HeldBelongs /\ AppliedIsReflected
    BY SMT DEF Init, HeldBelongs, AppliedIsReflected
  <2> QED BY <2>1, SingleInit DEF ReflectedInv
<1>2. ReflectedInv /\ [Next]_vars => ReflectedInv'
  <2>1. SUFFICES ASSUME ReflectedInv, [Next]_vars PROVE AppliedIsReflected'
    BY SingleStep, HeldBelongsStep DEF ReflectedInv
  <2>2. ASSUME NEW e \in applied PROVE \E r \in LinkedTo(e)' : Reflects(r, e)'
    <3>1. e \in Events
      BY <2>1 DEF ReflectedInv, SingleInv, TypeOK
    <3>2. PICK r \in LinkedTo(e) : Reflects(r, e)
      BY <2>1 DEF ReflectedInv, AppliedIsReflected, Reflects
    <3> QED BY <2>1, <3>1, <3>2, ReflectionPersists DEF ReflectedInv
  <2>3. \A e \in applied' \ applied :
          \E a \in Appliers : e = ev[a] /\ (Create(a) \/ Ignore(a) \/ Advance(a))
    BY <2>1 DEF Next, vars, Start, Insert, ByRequest, ByMedia, Create, Ignore, Advance, Applied, Fail
  <2>4. ASSUME NEW e \in applied' PROVE \E r \in LinkedTo(e)' : Reflects(r, e)'
    <3>1. CASE e \in applied
      BY <2>2, <3>1
    <3>2. CASE e \notin applied
      <4>1. PICK a \in Appliers : e = ev[a] /\ (Create(a) \/ Ignore(a) \/ Advance(a))
        BY <2>3, <3>2
      <4> QED BY <2>1, <4>1, WriteReflects
    <3> QED BY <3>1, <3>2
  <2> QED BY <2>4 DEF AppliedIsReflected, Reflects
<1>3. ReflectedInv => AppliedIsReflected
  BY DEF ReflectedInv
<1> QED BY <1>1, <1>2, <1>3, PTL DEF Spec
-----------------------------------------------------------------------------
\* Part 3: what keeps the chains of two requests apart, for any number of appliers

\* No two requests are for the same media.
OwnMedia == \A e, f \in Events : e.media # None /\ e.media = f.media => e.req = f.req

HeldIsOwn == \A a \in Appliers : found[a] # None => found[a] = ev[a].req /\ pc[a] = "write"

OwnInv == TypeOK /\ MediaFromOwn /\ HeldIsOwn

LEMMA OwnWrite ==
  ASSUME OwnInv, NEW a \in Appliers, Create(a) \/ Advance(a)
  PROVE  LET e == ev[a] IN
         /\ e \in Events /\ e.req \in Requests /\ e.state \in ChainStates
         /\ \A r \in Requests \ {e.req} : chain'[r] = chain[r]
         /\ chain'[e.req].state = e.state
         /\ chain'[e.req].media \in {e.media, chain[e.req].media}
<1> DEFINE e == ev[a]
<1>1. e \in Events /\ e.req \in Requests /\ e.state \in ChainStates
  <2>1. e \in Events
    BY SMT DEF Create, Advance, OwnInv, TypeOK
  <2> QED BY <2>1, EventsAssumption, SMT
<1>2. CASE Create(a)
  BY <1>1, <1>2, SMT DEF Create, OwnInv, TypeOK
<1>3. CASE Advance(a)
  <2>1. found[a] = e.req
    BY <1>3 DEF Advance, OwnInv, HeldIsOwn
  <2>2. chain' = [chain EXCEPT ![e.req] = Updated(chain[e.req], e, seen[a])]
    BY <1>3, <2>1 DEF Advance
  <2>3. /\ \A r \in Requests \ {e.req} : chain'[r] = chain[r]
        /\ chain'[e.req] = Updated(chain[e.req], e, seen[a])
    BY <1>1, <2>2, SMT DEF OwnInv, TypeOK
  <2>4. /\ Updated(chain[e.req], e, seen[a]).state = e.state
        /\ Updated(chain[e.req], e, seen[a]).media \in {e.media, chain[e.req].media}
    BY SMT DEF Updated
  <2> QED BY <1>1, <2>3, <2>4
<1> QED BY <1>2, <1>3

LEMMA OwnStep ==
  ASSUME OwnInv, OwnMedia, [Next]_vars
  PROVE  OwnInv'
<1> USE NoneAssumption, EventsAssumption
<1>1. TypeOK'
  BY TypeStep DEF OwnInv
<1>2. MediaFromOwn'
  <2>1. ASSUME NEW a \in Appliers, Create(a) \/ Advance(a), NEW r \in Requests,
               chain'[r].media # None
        PROVE  \E e \in Events : e.req = r /\ e.media = chain'[r].media
    <3>1. CASE chain'[r].media = chain[r].media
      BY <2>1, <3>1 DEF OwnInv, MediaFromOwn
    <3>2. CASE chain'[r].media # chain[r].media
      BY <2>1, <3>2, OwnWrite
    <3> QED BY <3>1, <3>2
  <2>2. ASSUME UNCHANGED chain PROVE MediaFromOwn'
    BY <2>2, SMT DEF OwnInv, MediaFromOwn
  <2>3. CASE \E a \in Appliers : Create(a) \/ Advance(a)
    BY <2>1, <2>3 DEF MediaFromOwn
  <2> QED BY <2>2, <2>3 DEF Next, vars, Start, Insert, ByRequest, ByMedia, Ignore, Fail
<1>3. HeldIsOwn'
  <2> SUFFICES ASSUME NEW b \in Appliers, found'[b] # None
               PROVE  found'[b] = ev'[b].req /\ pc'[b] = "write"
    BY DEF HeldIsOwn
  <2>1. CASE ByRequest(b)
    BY <2>1, SMT DEF ByRequest, Found, FoundNothing, OwnInv, TypeOK
  <2>2. CASE ByMedia(b)
    <3>1. PICK r \in Requests : chain[r].media = ev[b].media /\ Found(b, r)
      BY <2>2, SMT DEF ByMedia, FoundNothing, OpenFor, OwnInv, TypeOK
    <3>2. ev[b] \in Events /\ ev[b].media # None /\ UNCHANGED ev
      BY <2>2, SMT DEF ByMedia, OwnInv, TypeOK
    <3>3. PICK e \in Events : e.req = r /\ e.media = chain[r].media
      BY <3>1, <3>2 DEF OwnInv, MediaFromOwn
    <3>4. r = ev[b].req
      BY <3>1, <3>2, <3>3 DEF OwnMedia
    <3> QED BY <3>1, <3>2, <3>4, SMT DEF Found, OwnInv, TypeOK
  <2>3. CASE UNCHANGED <<pc[b], ev[b], found[b], seen[b]>>
    BY <2>3 DEF OwnInv, HeldIsOwn
  <2>4. ASSUME Returned(b) PROVE FALSE
    BY <2>4, SMT DEF Returned, OwnInv, TypeOK
  <2>5. ASSUME NEW e \in Events, Start(b, e) PROVE FALSE
    BY <2>5, SMT DEF Start, OwnInv, HeldIsOwn, TypeOK
  <2>6. ASSUME Insert(b) PROVE FALSE
    BY <2>6, SMT DEF Insert, OwnInv, HeldIsOwn, TypeOK
  <2>7. ASSUME NEW a \in Appliers, a # b, Returned(a)
        PROVE  UNCHANGED <<pc[b], ev[b], found[b], seen[b]>>
    BY <2>7, SMT DEF Returned, OwnInv, TypeOK
  <2>8. ASSUME NEW a \in Appliers, a # b,
               ByRequest(a) \/ ByMedia(a) \/ Insert(a) \/ \E e \in Events : Start(a, e)
        PROVE  UNCHANGED <<pc[b], ev[b], found[b], seen[b]>>
    BY <2>8, SMT DEF ByRequest, ByMedia, Insert, Start, Found, FoundNothing, OwnInv, TypeOK
  <2>9. CASE UNCHANGED vars
    BY <2>3, <2>9 DEF vars, threadVars
  <2> QED BY <2>1, <2>2, <2>3, <2>4, <2>5, <2>6, <2>7, <2>8, <2>9
          DEF Next, Create, Ignore, Advance, Applied, Fail
<1> QED BY <1>1, <1>2, <1>3 DEF OwnInv

LEMMA OwnApplied ==
  ASSUME OwnInv, OneChainPerRequest, [Next]_vars
  PROVE  OneChainPerRequest'
<1> SUFFICES ASSUME NEW e \in applied' PROVE Exists(e.req)'
  BY DEF OneChainPerRequest
<1> USE NoneAssumption, EventsAssumption
<1>1. ASSUME NEW r \in Requests, Exists(r) PROVE Exists(r)'
  <2>1. CASE \E a \in Appliers : Create(a) \/ Advance(a)
    <3>1. PICK a \in Appliers : Create(a) \/ Advance(a)
      BY <2>1
    <3>2. CASE r = ev[a].req
      BY <3>1, <3>2, OwnWrite, SMT DEF Exists, ChainStates
    <3>3. CASE r # ev[a].req
      BY <1>1, <3>1, <3>3, OwnWrite DEF Exists
    <3> QED BY <3>2, <3>3
  <2>2. CASE UNCHANGED chain
    BY <1>1, <2>2 DEF Exists
  <2> QED BY <2>1, <2>2 DEF Next, vars, Start, Insert, ByRequest, ByMedia, Ignore, Fail
<1>2. CASE e \in applied
  <2>1. e.req \in Requests /\ Exists(e.req)
    BY <1>2, SMT DEF OneChainPerRequest, OwnInv, TypeOK
  <2> QED BY <1>1, <2>1
<1>3. CASE e \notin applied
  <2>1. PICK a \in Appliers : e = ev[a] /\ (Create(a) \/ Ignore(a) \/ Advance(a))
    BY <1>3 DEF Next, vars, Start, Insert, ByRequest, ByMedia, Create, Ignore, Advance, Applied,
                Fail
  <2>2. CASE Create(a) \/ Advance(a)
    BY <2>1, <2>2, OwnWrite, SMT DEF Exists, ChainStates
  <2>3. CASE Ignore(a)
    <3>1. found[a] # None /\ found[a] = e.req
      BY <2>1, <2>3 DEF Ignore, OwnInv, HeldIsOwn
    <3>2. e.req \in Requests /\ Exists(e.req)
      BY <3>1, SMT DEF OwnInv, TypeOK
    <3> QED BY <1>1, <3>2
  <2> QED BY <2>1, <2>2, <2>3
<1> QED BY <1>2, <1>3

\* "One chain per Seerr request lifecycle" (0001_initial.sql:67), where no two
\* requests are for the same media, and then however many threads are in apply: the
\* lookup by media is all that lets a request go without a chain of its own.
THEOREM OwnChains == ASSUME OwnMedia PROVE Spec => []OneChainPerRequest
<1>1. Init => OwnInv /\ OneChainPerRequest
  <2>1. Init => MediaFromOwn /\ HeldIsOwn /\ OneChainPerRequest
    BY SMT DEF Init, MediaFromOwn, HeldIsOwn, OneChainPerRequest, NoRow
  <2> QED BY <2>1, TypeInit DEF OwnInv
<1>2. OwnInv /\ [Next]_vars => OwnInv'
  BY OwnStep
<1>3. OwnInv /\ OneChainPerRequest /\ [Next]_vars => OneChainPerRequest'
  BY OwnApplied
<1> QED BY <1>1, <1>2, <1>3, PTL DEF Spec

-----------------------------------------------------------------------------
\* Part 4: with one applier, apply is atomic

\* What the lookups said, and did not find, is so until the write.
LookupsHold ==
    \A a \in Appliers :
        /\ pc[a] \in {"byRequest", "byMedia", "write"} => Key(ev[a]) \in stored
        /\ pc[a] = "byMedia" => ~Exists(ev[a].req)
        /\ pc[a] = "write" /\ found[a] = None =>
              ~Exists(ev[a].req) /\ (ev[a].media = None \/ OpenFor(ev[a].media) = {})
        /\ found[a] # None =>
              /\ pc[a] = "write"
              /\ \/ found[a] = ev[a].req
                 \/ /\ ~Exists(ev[a].req) /\ ev[a].media # None
                    /\ found[a] \in OpenFor(ev[a].media)

AbsentIsBlank == \A r \in Requests : ~Exists(r) => chain[r] = NoRow

AtomicInv == SingleInv /\ AbsentIsBlank /\ LookupsHold

LEMMA AbsentStep ==
  ASSUME SingleInv, AbsentIsBlank, [Next]_vars
  PROVE  AbsentIsBlank'
<1> USE NoneAssumption, EventsAssumption DEF SingleInv
<1> SUFFICES ASSUME NEW r \in Requests, ~Exists(r)' PROVE chain'[r] = chain[r] /\ ~Exists(r)
  BY DEF AbsentIsBlank
<1>1. ~Exists(r)
  BY SinglePersists
<1>2. ASSUME NEW a \in Appliers, Create(a) PROVE chain'[r] = chain[r]
  <2>1. ev[a].req \in Requests /\ ev[a].state \in ChainStates
    <3>1. ev[a] \in Events
      BY <1>2, SMT DEF Create, TypeOK
    <3> QED BY <3>1, SMT
  <2>2. r # ev[a].req
    BY <1>2, <2>1, SMT DEF Create, TypeOK, Exists, ChainStates
  <2> QED BY <1>2, <2>2, SMT DEF Create, TypeOK
<1>3. ASSUME NEW a \in Appliers, Advance(a) PROVE chain'[r] = chain[r]
  <2>1. r # found[a]
    BY <1>1, <1>3 DEF Advance, TypeOK
  <2> QED BY <1>3, <2>1, SingleWrite
<1>4. ASSUME UNCHANGED chain PROVE chain'[r] = chain[r]
  BY <1>4
<1> QED BY <1>1, <1>2, <1>3, <1>4
        DEF Next, vars, Start, Insert, ByRequest, ByMedia, Ignore, Fail

LEMMA LookupsHoldStep ==
  ASSUME AtomicInv, OneApplier, [Next]_vars
  PROVE  LookupsHold'
<1> USE NoneAssumption, EventsAssumption DEF AtomicInv, SingleInv
<1> SUFFICES ASSUME NEW b \in Appliers
             PROVE  /\ pc'[b] \in {"byRequest", "byMedia", "write"} => Key(ev'[b]) \in stored'
                    /\ pc'[b] = "byMedia" => ~Exists(ev[b].req)'
                    /\ pc'[b] = "write" /\ found'[b] = None =>
                          ~Exists(ev[b].req)'
                          /\ (ev'[b].media = None \/ OpenFor(ev[b].media)' = {})
                    /\ found'[b] # None =>
                          /\ pc'[b] = "write"
                          /\ \/ found'[b] = ev'[b].req
                             \/ /\ ~Exists(ev[b].req)' /\ ev'[b].media # None
                                /\ found'[b] \in OpenFor(ev[b].media)'
  BY DEF LookupsHold
<1>1. CASE \E e \in Events : Start(b, e)
  BY <1>1, SMT DEF Start, LookupsHold, TypeOK
<1>2. CASE Insert(b)
  BY <1>2, SMT DEF Insert, LookupsHold, TypeOK
<1>3. CASE ByRequest(b)
  <2>1. UNCHANGED <<stored, chain, ev>> /\ Key(ev[b]) \in stored
    BY <1>3 DEF ByRequest, LookupsHold
  <2>2. CASE Exists(ev[b].req)
    BY <1>3, <2>1, <2>2, SMT DEF ByRequest, Found, TypeOK
  <2>3. CASE ~Exists(ev[b].req)
    <3>1. FoundNothing(b, IF ev[b].media = None THEN "write" ELSE "byMedia")
      BY <1>3, <2>3 DEF ByRequest
    <3>2. found'[b] = None /\ pc'[b] = IF ev[b].media = None THEN "write" ELSE "byMedia"
      BY <3>1, SMT DEF FoundNothing, TypeOK
    <3> QED BY <2>1, <2>3, <3>2 DEF Exists
  <2> QED BY <2>2, <2>3
<1>4. CASE ByMedia(b)
  <2>1. /\ UNCHANGED <<stored, chain, ev>> /\ Key(ev[b]) \in stored
        /\ ev[b].media # None /\ ~Exists(ev[b].req)
    BY <1>4 DEF ByMedia, LookupsHold, TypeOK
  <2>2. CASE \E r \in OpenFor(ev[b].media) : Found(b, r)
    <3>1. PICK r \in OpenFor(ev[b].media) : Found(b, r)
      BY <2>2
    <3>2. found'[b] = r /\ pc'[b] = "write" /\ r # None
      BY <3>1, SMT DEF Found, TypeOK, OpenFor
    <3> QED BY <2>1, <3>1, <3>2 DEF Exists, OpenFor
  <2>3. CASE OpenFor(ev[b].media) = {} /\ FoundNothing(b, "write")
    <3>1. found'[b] = None /\ pc'[b] = "write"
      BY <2>3, SMT DEF FoundNothing, TypeOK
    <3> QED BY <2>1, <2>3, <3>1 DEF Exists, OpenFor
  <2> QED BY <1>4, <2>2, <2>3 DEF ByMedia
<1>5. CASE Returned(b)
  BY <1>5, SMT DEF Returned, TypeOK
<1>6. CASE UNCHANGED vars
  BY <1>6 DEF vars, threadVars, LookupsHold, Exists, OpenFor
<1>7. \A a \in Appliers : a = b
  BY DEF OneApplier
<1> QED BY <1>1, <1>2, <1>3, <1>4, <1>5, <1>6, <1>7
        DEF Next, Create, Ignore, Advance, Applied, Fail

\* A chain that is there, in both vocabularies.
LEMMA ThereExists ==
  ASSUME TypeOK, NEW r \in Requests
  PROVE  Timeline!There(r) <=> Exists(r)
<1>1. chain[r].state \in ChainStates \cup {"none"}
  BY SMT DEF TypeOK, Row
<1>2. chain[r].state \in ChainStates => StateRank[chain[r].state] >= 0
  BY RankRange DEF Rank
<1>3. "none" \notin ChainStates /\ StateRank["none"] = -1
  BY RankRange DEF ChainStates, Rank
<1> QED BY <1>1, <1>2, <1>3, SMT DEF Timeline!There, Exists

LEMMA WaitingOpen ==
  ASSUME TypeOK, NEW m
  PROVE  Timeline!Waiting(m) = OpenFor(m)
BY ThereExists DEF Timeline!Waiting, OpenFor

\* An open chain is closed by the states that close.
LEMMA StaysOpen ==
  ASSUME NEW closing, closing \in BOOLEAN, NEW open, open = FALSE
  PROVE  (IF closing THEN TRUE ELSE open) = closing
<1>1. CASE closing = TRUE
  BY <1>1
<1>2. CASE closing = FALSE
  BY <1>2
<1> QED BY <1>1, <1>2

\* Where apply returns, it has told the timeline its event.
LEMMA WriteTells ==
  ASSUME AtomicInv, NEW a \in Appliers, Create(a) \/ Ignore(a) \/ Advance(a)
  PROVE  ev[a] \in Events /\ Timeline!Tell(ev[a])
<1> USE NoneAssumption DEF AtomicInv, SingleInv
<1> DEFINE e == ev[a]
           r == IF found[a] = None THEN e.req ELSE found[a]
<1>1. e \in Events /\ e.req \in Requests /\ e.state \in ChainStates
      /\ e.media \in Media \cup {None}
  <2>1. pc[a] = "write"
    BY DEF Create, Ignore, Advance
  <2>2. e \in Events
    BY <2>1 DEF TypeOK
  <2> QED BY <2>2, EventsAssumption, SMT
<1>2. /\ <<e.req, e.state>> \in stored
      /\ applied' = applied \cup {e} /\ UNCHANGED stored
  BY DEF Create, Ignore, Advance, Applied, LookupsHold, Key
<1>3. r \in Requests
  BY <1>1, SMT DEF TypeOK
<1>4. r \in Timeline!Target(e)
  <2>1. Timeline!There(e.req) <=> Exists(e.req)
    BY <1>1, ThereExists
  <2>2. Timeline!Waiting(e.media) = OpenFor(e.media)
    BY WaitingOpen
  <2>3. CASE found[a] = None
    BY <2>1, <2>2, <2>3 DEF Timeline!Target, LookupsHold, Create, Ignore, Advance
  <2>4. CASE found[a] # None /\ found[a] = e.req
    <3>1. Exists(e.req)
      BY <2>4 DEF TypeOK
    <3> QED BY <2>1, <2>4, <3>1 DEF Timeline!Target
  <2>5. CASE found[a] # None /\ found[a] # e.req
    BY <2>1, <2>2, <2>5 DEF Timeline!Target, LookupsHold
  <2> QED BY <2>3, <2>4, <2>5
<1>5. chain' = [chain EXCEPT ![r] = Timeline!Moved(chain[r], e)]
  <2>1. chain[r] \in Row /\ chain \in [Requests -> Row]
    BY <1>3 DEF TypeOK
  <2>2. CASE Create(a)
    <3>1. r = e.req /\ ~Exists(r)
      BY <2>2 DEF Create
    <3>2. chain[r].state = "none" /\ ~chain[r].closed /\ chain[r].media = None
      BY <1>3, <3>1 DEF AbsentIsBlank, NoRow
    <3>3. ~(StateRank[e.state] < StateRank[chain[r].state])
      BY <1>1, <3>2, RankRange, SMT DEF Rank
    <3> QED BY <2>2, <3>1, <3>2, <3>3 DEF Create, Timeline!Moved
  <2>3. CASE Ignore(a)
    <3>1. r = found[a] /\ seen[a] = chain[r]
      BY <2>3 DEF Ignore, SeenIsFresh
    <3>2. Timeline!Moved(chain[r], e) = chain[r]
      BY <2>3, <3>1 DEF Ignore, Stale, Rank, Timeline!Moved
    <3>3. chain' = chain
      BY <2>3 DEF Ignore
    <3> QED BY <2>1, <3>2, <3>3
  <2>4. CASE Advance(a)
    <3>1. r = found[a] /\ seen[a] = chain[r]
      BY <2>4 DEF Advance, SeenIsFresh
    <3>2. ~chain[r].closed /\ ~(StateRank[e.state] < StateRank[chain[r].state])
      BY <2>4, <3>1 DEF Advance, Stale, Rank
    <3>3. Updated(chain[r], e, seen[a]) = Timeline!Moved(chain[r], e)
      <4>0. chain[r].closed = FALSE
        BY <2>1, <3>2, SMT DEF Row
      <4>1. (IF e.state \in Closing THEN TRUE ELSE chain[r].closed) = (e.state \in Closing)
        <5> DEFINE closing == e.state \in Closing
                   open == chain[r].closed
        <5>1. closing \in BOOLEAN /\ open = FALSE
          BY <4>0
        <5> HIDE DEF closing, open
        <5>2. (IF closing THEN TRUE ELSE open) = closing
          BY <5>1, StaysOpen
        <5> QED BY <5>2 DEF closing, open
      <4>2. (IF seen[a].media = None /\ e.media # None THEN e.media ELSE chain[r].media)
                = IF chain[r].media = None THEN e.media ELSE chain[r].media
        BY <3>1
      <4> QED BY <3>2, <4>1, <4>2 DEF Updated, Timeline!Moved
    <3> QED BY <2>4, <3>1, <3>3 DEF Advance
  <2> QED BY <2>2, <2>3, <2>4
<1> QED BY <1>1, <1>2, <1>4, <1>5 DEF Timeline!Tell

\* The four transactions of one applier implement the one step of Lifecycle; where
\* apply fails in between, the timeline has only its event.
THEOREM AppliesAsOne == ASSUME OneApplier PROVE Spec => AppliesAtomically
<1>1. Init => AtomicInv /\ Timeline!Init
  <2>1. Init => LookupsHold /\ AbsentIsBlank
    <3> SUFFICES ASSUME Init PROVE LookupsHold /\ AbsentIsBlank
      OBVIOUS
    <3>1. \A a \in Appliers : pc[a] = "idle" /\ found[a] = None
      BY DEF Init
    <3>2. \A r \in Requests : chain[r] = NoRow
      BY DEF Init
    <3> QED BY <3>1, <3>2 DEF LookupsHold, AbsentIsBlank
  <2>2. Init => Timeline!Init
    BY DEF Init, NoRow, Timeline!Init
  <2> QED BY <2>1, <2>2, SingleInit DEF AtomicInv
<1>2. AtomicInv /\ [Next]_vars => AtomicInv'
  BY SingleStep, AbsentStep, LookupsHoldStep DEF AtomicInv
<1>3. AtomicInv /\ [Next]_vars => [Timeline!Next]_(Timeline!timeline)
  <2> SUFFICES ASSUME AtomicInv, [Next]_vars
               PROVE  Timeline!Next \/ UNCHANGED Timeline!timeline
    OBVIOUS
  <2>1. ASSUME NEW a \in Appliers, Insert(a) PROVE Timeline!Next
    <3>1. ev[a] \in Events
      BY <2>1 DEF Insert, AtomicInv, SingleInv, TypeOK
    <3>2. Timeline!Store(ev[a])
      BY <2>1 DEF Insert, Key, Timeline!Store
    <3> QED BY <3>1, <3>2 DEF Timeline!Next
  <2>2. ASSUME NEW a \in Appliers, Create(a) \/ Ignore(a) \/ Advance(a) PROVE Timeline!Next
    BY <2>2, WriteTells DEF Timeline!Next
  <2>3. ASSUME NEW a \in Appliers,
               ByRequest(a) \/ ByMedia(a) \/ Fail(a) \/ \E e \in Events : Start(a, e)
        PROVE  UNCHANGED Timeline!timeline
    BY <2>3 DEF ByRequest, ByMedia, Fail, Start, Timeline!timeline
  <2>4. CASE UNCHANGED vars
    BY <2>4 DEF vars, Timeline!timeline
  <2> QED BY <2>1, <2>2, <2>3, <2>4 DEF Next
<1> QED BY <1>1, <1>2, <1>3, PTL DEF Spec, AppliesAtomically, Timeline!Spec
=============================================================================
