---------------------------- MODULE CaptureProofs ----------------------------
(***************************************************************************)
(* Theorems about Capture, for any facts, refs and delays.                 *)
(*                                                                         *)
(* Capture uses the media table as Media says (MediaStep, UsesMedia), so   *)
(* that what MediaProofs shows of the table holds here too.  On top of it, *)
(* what an event, or the item a run looked up, points at is AtHome: every  *)
(* new pointer is fresh from a lookup (NewPoints), and no later lookup     *)
(* takes that away (StaysHome).                                            *)
(*                                                                         *)
(* That two facts are never one event rests on the layouts of the keys: a  *)
(* key can be read back (ReadOnce), and what is read is of its own fact    *)
(* (KeysApart).                                                            *)
(*                                                                         *)
(* That a fact is one event rests on its names and on the lookups.  The    *)
(* two derivations of Keys agree on every fact that has one name           *)
(* (OneName); then the key, which is unique (KeysUnique), is enough.  The  *)
(* other two kinds have several: the records of a pack end with its        *)
(* download id, by which the job finds what is stored (PackNames); a       *)
(* delete is found by the row of its title, which is the only one with its *)
(* tmdb id (TmdbInv, NearFinds).  OnceInv says of both what the lookups    *)
(* keep true as long as the webhook is not behind the job.                 *)
(*                                                                         *)
(* That a lookup finds nothing else rests on where events come from        *)
(* (AllTold): no key but that of a grab or an import begins and ends like  *)
(* theirs (OtherPrefix), and the deletes that are at home in a row are of  *)
(* one title, as rows are pure (NearSibling).                              *)
(***************************************************************************)
EXTENDS Capture, MediaProofs, SequenceTheorems, FiniteSetTheorems

Looked(ref, m) == m \in RowsFor(ref) /\ FindOrCreate(ref, m)

\* What points into the media table, and for which ref.
Points ==
    {<<e.media, e.ref>> : e \in events}
        \cup {<<c[2], c[1].event.ref>> : c \in {d \in cur : d[2] # NoRow}}

AtHome(m, ref) == ref # None /\ HasId(ref) => m \in DOMAIN media /\ ShareId(media[m], ref)

CurIsItem == \A c \in cur : \E f \in Facts : c[1] \in Items[f]

PointsHome == \A q \in Points : AtHome(q[1], q[2])

RowsExist == \A q \in Points : q[1] = NoRow \/ q[1] \in DOMAIN media

Home == MediaType /\ CurIsItem /\ PointsHome /\ RowsExist

-----------------------------------------------------------------------------
\* The media table

LEMMA RowNumbers ==
    ASSUME MediaType, NEW ref, NEW m \in RowsFor(ref)
    PROVE  m # NoRow
<1>1. m \in DOMAIN media \/ m = Len(media) + 1
  BY Matching DEF RowsFor
<1> QED
  BY <1>1 DEF MediaType, NoRow

LEMMA ResolvedIsLooked ==
    ASSUME NEW ref, NEW m \in MediaFor(ref), Resolved(ref, m)
    PROVE  \/ m = NoRow /\ UNCHANGED media
           \/ Names(ref) /\ Looked(ref, m)
BY DEF MediaFor, Resolved, Looked

LEMMA LookedIsNext ==
    ASSUME NEW ref \in Refs, NEW m, Looked(ref, m)
    PROVE  MediaNext
BY DEF Looked, MediaNext

LEMMA MediaStep ==
    ASSUME CurIsItem, [Next]_vars
    PROVE  [MediaNext]_media
<1>1. ASSUME NEW f \in Facts, Deliver(f)
      PROVE  [MediaNext]_media
  <2>1. PICK m \in MediaFor(Main[f].ref) : Resolved(Main[f].ref, m)
    BY <1>1 DEF Deliver
  <2> QED
    BY <2>1, ResolvedIsLooked, LookedIsNext, FactsAssumption
<1>2. ASSUME NEW f \in Facts, NEW x \in Items[f], LookNear(x)
      PROVE  [MediaNext]_media
  <2>1. PICK m \in RowsFor(x.event.ref) : FindOrCreate(x.event.ref, m)
    BY <1>2 DEF LookNear
  <2>2. x.event.ref \in Refs
    BY <1>2, FactsAssumption DEF LookNear
  <2> QED
    BY <2>1, <2>2, LookedIsNext DEF Looked
<1>3. ASSUME NEW f \in Facts, NEW x \in Items[f], Skip(x) \/ Look(x)
      PROVE  UNCHANGED media
  BY <1>3 DEF Skip, Look
<1>4. ASSUME NEW c \in cur, Apply(c[1], c[2])
      PROVE  [MediaNext]_media
  <2>1. PICK f \in Facts : c[1] \in Items[f]
    BY DEF CurIsItem
  <2>2. CASE c[2] # NoRow
    BY <1>4, <2>2 DEF Apply
  <2>3. CASE c[2] = NoRow
    <3>1. PICK m \in MediaFor(c[1].event.ref) : Resolved(c[1].event.ref, m)
      BY <1>4, <2>3 DEF Apply
    <3> QED
      BY <2>1, <3>1, ResolvedIsLooked, LookedIsNext, FactsAssumption
  <2> QED
    BY <2>2, <2>3
<1>5. CASE RunDies \/ UNCHANGED vars
  BY <1>5 DEF RunDies, vars
<1> QED
  BY <1>1, <1>2, <1>3, <1>4, <1>5 DEF Next

\* No lookup takes a row away from what points at it.
LEMMA StaysHome ==
    ASSUME MediaType, [MediaNext]_media, NEW n, NEW r, AtHome(n, r)
    PROVE  AtHome(n, r)'
<1>1. CASE UNCHANGED media
  BY <1>1 DEF AtHome
<1>2. ASSUME NEW ref \in Refs, NEW m \in RowsFor(ref), FindOrCreate(ref, m),
             r # None, HasId(r)
      PROVE  n \in DOMAIN media' /\ ShareId(media'[n], r)
  <2>1. n \in DOMAIN media /\ ShareId(media[n], r) /\ media[n] \in Rows /\ ref \in Rows
    BY <1>2, RefsAreRows DEF AtHome, MediaType
  <2>2. n \in DOMAIN media'
    BY <1>2, <2>1, GrowStep DEF Grown
  <2>3. CASE media'[n] = media[n]
    BY <2>1, <2>2, <2>3
  <2>4. CASE media'[n] = Filled(media[n], ref)
    BY <2>1, <2>2, <2>4, FilledRow DEF ShareId, Same, Backfilled
  <2> QED
    BY <1>2, <2>1, <2>3, <2>4, Step DEF Filling, Appending
<1> QED
  BY <1>1, <1>2 DEF MediaNext, AtHome

\* What a lookup returns is home.
LEMMA LookedHome ==
    ASSUME MediaType, NEW ref \in Refs, NEW m, Looked(ref, m)
    PROVE  AtHome(m, ref)' /\ m \in DOMAIN media'
<1>1. CASE Filling(ref, m)
  <2>1. AtHome(m, ref) /\ m \in DOMAIN media
    BY <1>1, Matching DEF Filling, AtHome
  <2>2. AtHome(m, ref)'
    BY <2>1, StaysHome, LookedIsNext
  <2> QED
    BY <1>1, <2>1, <2>2, Step DEF Looked, Filling, MediaType
<1>2. CASE Appending(ref, m)
  <2>1. MediaType' /\ m = Len(media')
    BY <1>2, Step DEF Looked, Appending
  <2>2. m \in DOMAIN media'
    BY <1>2, <2>1 DEF MediaType, Appending
  <2> QED
    BY <1>2, <2>2 DEF Appending, AtHome, ShareId, HasId, Same
<1> QED
  BY <1>1, <1>2, Step DEF Looked

-----------------------------------------------------------------------------
\* The events

\* A body makes one event; the stop of a playback past the threshold makes two.
LEMMA HookShape ==
    ASSUME NEW f \in Facts
    PROVE  \/ \E x : Hook[f] = <<x>>
           \/ Hook[f] = << Playback(HookOf[f], "playback.stopped"), Watched(HookOf[f]) >>
<1> DEFINE p == HookOf[f]
<1>1. Hook[f] = Normalized(p)
  BY DEF Hook
<1>2. CASE p.source \in {"radarr", "sonarr"}
  BY <1>1, <1>2 DEF Normalized, ArrHook
<1>3. CASE p.source = "seerr"
  BY <1>1, <1>3 DEF Normalized, SeerrHook
<1>4. CASE p.source = "tautulli"
  <2>1. Normalized(p) = TautulliHook(p)
    BY <1>4 DEF Normalized
  <2> QED
    BY <1>1, <2>1 DEF TautulliHook
<1> QED
  BY <1>2, <1>3, <1>4, FactsAssumption

\* The events of one body are about one title, and have two keys.
LEMMA HookEvents ==
    ASSUME NEW f \in Facts
    PROVE  /\ \A i \in DOMAIN Hook[f] : Hook[f][i].ref = Main[f].ref
           /\ \A i, j \in DOMAIN Hook[f] : Hook[f][i].key = Hook[f][j].key => i = j
<1> DEFINE p == HookOf[f]
<1>1. Main[f] = Hook[f][Len(Hook[f])]
  BY DEF Main
<1>2. CASE \E x : Hook[f] = <<x>>
  BY <1>1, <1>2
<1>3. CASE Hook[f] = << Playback(p, "playback.stopped"), Watched(p) >>
  <2>1. Playback(p, "playback.stopped").ref = Watched(p).ref
    BY DEF Playback, Watched, Event
  <2>2. Playback(p, "playback.stopped").key[2] # Watched(p).key[2]
    BY DEF Playback, Watched, Event
  <2> QED
    BY <1>1, <1>3, <2>1, <2>2
<1> QED
  BY <1>2, <1>3, HookShape

LEMMA InsertedRows ==
    ASSUME NEW seq, NEW m, NEW at, NEW e \in Inserted(seq, m, at)
    PROVE  \E i \in DOMAIN seq :
              /\ ~Stored(seq[i].key)
              /\ e.key = seq[i].key /\ e.type = seq[i].type /\ e.ref = seq[i].ref
              /\ e.media = m /\ e.at = at /\ e = Row(seq[i], m, at)
BY DEF Inserted, Row

Fresh(q) ==
    \/ q[1] = NoRow /\ ~Names(q[2])
    \/ q[2] \in Refs /\ Looked(q[2], q[1])

LEMMA ResolvedIsFresh ==
    ASSUME MediaType, NEW ref, Names(ref) => ref \in Refs, NEW m \in MediaFor(ref),
           Resolved(ref, m)
    PROVE  Fresh(<<m, ref>>)
<1>1. CASE Names(ref)
  <2>1. m # NoRow
    BY <1>1, RowNumbers DEF MediaFor
  <2> QED
    BY <1>1, <2>1, ResolvedIsLooked DEF Fresh
<1>2. CASE ~Names(ref)
  BY <1>2 DEF MediaFor, Fresh
<1> QED
  BY <1>1, <1>2

\* A step points at what a lookup of the step returned, or nothing new.
LEMMA NewPoints ==
    ASSUME MediaType, CurIsItem, [Next]_vars, NEW q \in Points'
    PROVE  q \in Points \/ Fresh(q)
<1>0. /\ \A e \in events : <<e.media, e.ref>> \in Points
      /\ \A c \in cur : c[2] # NoRow => <<c[2], c[1].event.ref>> \in Points
  BY DEF Points
<1>1. \/ \E e \in events' : q = <<e.media, e.ref>>
      \/ \E c \in cur' : c[2] # NoRow /\ q = <<c[2], c[1].event.ref>>
  BY DEF Points
<1>2. ASSUME NEW f \in Facts, Deliver(f)
      PROVE  q \in Points \/ Fresh(q)
  <2>1. PICK m \in MediaFor(Main[f].ref), delay \in Delays[f] :
            /\ Resolved(Main[f].ref, m)
            /\ events' = events \cup Inserted(Hook[f], m, AtOf[f] + delay)
    BY <1>2 DEF Deliver
  <2>2. UNCHANGED cur
    BY <1>2 DEF Deliver
  <2>3. \A e \in Inserted(Hook[f], m, AtOf[f] + delay) : e.media = m /\ e.ref = Main[f].ref
    BY InsertedRows, HookEvents
  <2>4. Fresh(<<m, Main[f].ref>>)
    BY <2>1, ResolvedIsFresh, FactsAssumption
  <2> QED
    BY <1>0, <1>1, <2>1, <2>2, <2>3, <2>4
<1>3. ASSUME NEW f \in Facts, NEW x \in Items[f], LookNear(x)
      PROVE  q \in Points \/ Fresh(q)
  <2>1. PICK m \in RowsFor(x.event.ref) :
            FindOrCreate(x.event.ref, m) /\ (UNCHANGED cur \/ cur' = {<<x, m>>})
    BY <1>3 DEF LookNear
  <2>2. x.event.ref \in Refs /\ UNCHANGED events
    BY <1>3, FactsAssumption DEF LookNear
  <2>3. Fresh(<<m, x.event.ref>>)
    BY <2>1, <2>2 DEF Looked, Fresh
  <2> QED
    BY <1>0, <1>1, <2>1, <2>2, <2>3
<1>4. ASSUME NEW f \in Facts, NEW x \in Items[f], Skip(x) \/ Look(x)
      PROVE  q \in Points \/ Fresh(q)
  <2>1. UNCHANGED events /\ (UNCHANGED cur \/ cur' = {<<x, NoRow>>})
    BY <1>4 DEF Skip, Look
  <2> QED
    BY <1>0, <1>1, <2>1
<1>5. ASSUME NEW c \in cur, Apply(c[1], c[2])
      PROVE  q \in Points \/ Fresh(q)
  <2> DEFINE ref == c[1].event.ref
  <2>1. PICK f \in Facts : c[1] \in Items[f]
    BY DEF CurIsItem
  <2>2. PICK m : /\ m \in IF c[2] # NoRow THEN {c[2]} ELSE MediaFor(ref)
                 /\ IF c[2] # NoRow THEN UNCHANGED media ELSE Resolved(ref, m)
                 /\ events' = events \cup Inserted(<<c[1].event>>, m, AtOf[c[1].fact])
    BY <1>5 DEF Apply
  <2>3. cur' = {}
    BY <1>5 DEF Apply
  <2>4. <<m, ref>> \in Points \/ Fresh(<<m, ref>>)
    <3>1. CASE c[2] # NoRow
      BY <1>0, <2>2, <3>1
    <3>2. CASE c[2] = NoRow
      <4>1. Names(ref) => ref \in Refs
        BY <2>1, FactsAssumption
      <4> QED
        BY <2>2, <3>2, <4>1, ResolvedIsFresh
    <3> QED
      BY <3>1, <3>2
  <2>5. \A e \in Inserted(<<c[1].event>>, m, AtOf[c[1].fact]) : e.media = m /\ e.ref = ref
    BY InsertedRows
  <2> QED
    BY <1>0, <1>1, <2>2, <2>3, <2>4, <2>5
<1>6. CASE RunDies \/ UNCHANGED vars
  BY <1>0, <1>1, <1>6 DEF RunDies, vars
<1> QED
  BY <1>2, <1>3, <1>4, <1>5, <1>6 DEF Next

LEMMA CurStep ==
    ASSUME CurIsItem, [Next]_vars
    PROVE  CurIsItem'
<1>1. ASSUME NEW f \in Facts, NEW x \in Items[f], Skip(x) \/ LookNear(x) \/ Look(x)
      PROVE  CurIsItem'
  <2>1. UNCHANGED cur \/ \E m : cur' = {<<x, m>>}
    BY <1>1 DEF Skip, LookNear, Look
  <2> QED
    BY <2>1 DEF CurIsItem
<1>2. ASSUME cur' \in {cur, {}}
      PROVE  CurIsItem'
  BY <1>2 DEF CurIsItem
<1> QED
  BY <1>1, <1>2 DEF Next, Deliver, Apply, RunDies, vars

LEMMA HomeStep ==
    ASSUME Home, [Next]_vars
    PROVE  Home'
<1>1. [MediaNext]_media /\ MediaType /\ CurIsItem
  BY MediaStep DEF Home
<1>2. MediaType' /\ DOMAIN media \subseteq DOMAIN media'
  BY <1>1, Step DEF MediaNext, MediaType, Filling, Appending
<1>3. PointsHome'
  <2> SUFFICES ASSUME NEW q \in Points'
               PROVE  AtHome(q[1], q[2])'
    BY DEF PointsHome
  <2>1. CASE q \in Points
    BY <1>1, <2>1, StaysHome DEF Home, PointsHome
  <2>2. CASE Fresh(q)
    BY <1>1, <2>2, LookedHome DEF Fresh, Names, AtHome
  <2> QED
    BY <1>1, <2>1, <2>2, NewPoints
<1>4. RowsExist'
  <2> SUFFICES ASSUME NEW q \in Points'
               PROVE  q[1] = NoRow \/ q[1] \in DOMAIN media'
    BY DEF RowsExist
  <2>1. CASE q \in Points
    BY <1>2, <2>1 DEF Home, RowsExist
  <2>2. CASE Fresh(q)
    BY <1>1, <2>2, LookedHome DEF Fresh
  <2> QED
    BY <1>1, <2>1, <2>2, NewPoints
<1> QED
  BY <1>1, <1>2, <1>3, <1>4, CurStep DEF Home

LEMMA AlwaysHome == Spec => []Home
<1>1. Init => Home
  BY DEF Init, MediaInit, MediaType, Home, CurIsItem, Points, PointsHome, RowsExist
<1> QED
  BY <1>1, HomeStep, PTL DEF Spec

-----------------------------------------------------------------------------

\* The worker and the reconcile job, with webhooks late, twice or lost and runs
\* that die, use the media table only as Media says.
THEOREM UsesMedia == Spec => MediaSpec
<1>1. Init => MediaInit
  BY DEF Init
<1>2. Home /\ [Next]_vars => [MediaNext]_media
  BY MediaStep DEF Home
<1> QED
  BY <1>1, <1>2, AlwaysHome, PTL DEF Spec, MediaSpec

\* An event points at the row of its own title, by whichever path and with
\* whichever of its ids it came, and however much its row was filled since.
THEOREM PointHome == Spec => []EventsPointHome
<1>1. Home => EventsPointHome
  <2> SUFFICES ASSUME Home, NEW e \in events, e.ref # None, HasId(e.ref)
               PROVE  e.media # NoRow /\ ShareId(media[e.media], e.ref)
    BY DEF EventsPointHome
  <2>1. <<e.media, e.ref>> \in Points
    BY DEF Points
  <2>2. e.media \in DOMAIN media /\ ShareId(media[e.media], e.ref)
    BY <2>1 DEF Home, PointsHome, AtHome
  <2> QED
    BY <2>2 DEF Home, MediaType, NoRow
<1> QED
  BY <1>1, AlwaysHome, PTL

\* The two paths together still keep one row per tmdb id, and pure ones.
THEOREM CaptureKeepsRows == Spec => [](TmdbUnique /\ RowsArePure)
BY UsesMedia, OneRowPerTmdbId, PureRows, PTL

-----------------------------------------------------------------------------
\* One event per key

KeysUnique == \A d, e \in events : d.key = e.key => d = e

LEMMA UniqueInserted ==
    ASSUME KeysUnique, NEW seq, NEW m, NEW at,
           events' = events \cup Inserted(seq, m, at),
           \A i, j \in DOMAIN seq : seq[i].key = seq[j].key => i = j
    PROVE  KeysUnique'
<1>1. ASSUME NEW d \in events, NEW e \in Inserted(seq, m, at)
      PROVE  d.key # e.key
  BY <1>1, InsertedRows DEF Stored
<1>2. ASSUME NEW d \in Inserted(seq, m, at), NEW e \in Inserted(seq, m, at), d.key = e.key
      PROVE  d = e
  <2>1. PICK i \in DOMAIN seq : d.key = seq[i].key /\ d = Row(seq[i], m, at)
    BY InsertedRows
  <2>2. PICK j \in DOMAIN seq : e.key = seq[j].key /\ e = Row(seq[j], m, at)
    BY InsertedRows
  <2> QED
    BY <1>2, <2>1, <2>2
<1> QED
  BY <1>1, <1>2 DEF KeysUnique

Delivered(f, m, delay) ==
    /\ events' = events \cup Inserted(Hook[f], m, AtOf[f] + delay)
    /\ late' = IF ~Stored(Main[f].key) /\ (delay > 1 \/ BehindJob(f))
                THEN late \cup {f} ELSE late
    /\ UNCHANGED cur

\* Only the worker and the job's apply store anything.
LEMMA EventsChange ==
    ASSUME [Next]_vars
    PROVE  \/ UNCHANGED events
           \/ \E f \in Facts : \E m : \E delay \in Delays[f] : Delivered(f, m, delay)
           \/ \E c \in cur : \E m :
                 /\ Apply(c[1], c[2])
                 /\ events' = events \cup Inserted(<<c[1].event>>, m, AtOf[c[1].fact])
<1>1. ASSUME NEW f \in Facts, Deliver(f)
      PROVE  \E m : \E delay \in Delays[f] : Delivered(f, m, delay)
  BY <1>1 DEF Deliver, Delivered
<1>2. ASSUME NEW c \in cur, Apply(c[1], c[2])
      PROVE  \E m : events' = events \cup Inserted(<<c[1].event>>, m, AtOf[c[1].fact])
  BY <1>2 DEF Apply
<1>3. ASSUME NEW f \in Facts, NEW x \in Items[f], Skip(x) \/ LookNear(x) \/ Look(x)
      PROVE  UNCHANGED events
  BY <1>3 DEF Skip, LookNear, Look
<1> QED
  BY <1>1, <1>2, <1>3 DEF Next, RunDies, vars

LEMMA UniqueKeysStep ==
    ASSUME KeysUnique, [Next]_vars
    PROVE  KeysUnique'
<1>1. CASE UNCHANGED events
  BY <1>1 DEF KeysUnique
<1>2. ASSUME NEW f \in Facts, NEW m, NEW at, events' = events \cup Inserted(Hook[f], m, at)
      PROVE  KeysUnique'
  BY <1>2, HookEvents, UniqueInserted
<1>3. ASSUME NEW c \in cur, NEW m, NEW at, events' = events \cup Inserted(<<c[1].event>>, m, at)
      PROVE  KeysUnique'
  <2> DEFINE seq == <<c[1].event>>
  <2>1. \A i, j \in DOMAIN seq : seq[i].key = seq[j].key => i = j
    OBVIOUS
  <2> QED
    BY <1>3, <2>1, UniqueInserted
<1> QED
  BY <1>1, <1>2, <1>3, EventsChange DEF Delivered

LEMMA HistoryStep ==
    ASSUME CurIsItem, late \subseteq Facts, passed \subseteq UNION {Items[f] : f \in Facts}, [Next]_vars
    PROVE  late' \subseteq Facts /\ passed' \subseteq UNION {Items[f] : f \in Facts}
<1>1. ASSUME NEW f \in Facts, Deliver(f)
      PROVE  late' \in {late, late \cup {f}} /\ UNCHANGED passed
  BY <1>1 DEF Deliver
<1>2. ASSUME NEW f \in Facts, NEW x \in Items[f], Skip(x) \/ LookNear(x) \/ Look(x)
      PROVE  passed' \in {passed, passed \cup {x}} /\ UNCHANGED late
  BY <1>2 DEF Skip, LookNear, Look, PassOver
<1>3. ASSUME NEW c \in cur, Apply(c[1], c[2])
      PROVE  UNCHANGED <<late, passed>>
  BY <1>3 DEF Apply
<1>4. ASSUME RunDies \/ UNCHANGED vars
      PROVE  UNCHANGED <<late, passed>>
  BY <1>4 DEF RunDies, vars
<1> QED
  BY <1>1, <1>2, <1>3, <1>4 DEF Next

\* The key of an event stays unique, and what points into the media table points
\* at a row of it, whichever path stores, looks up or dies in between.
THEOREM CaptureTypes == Spec => []TypeOK
<1> DEFINE Known == UNION {Items[f] : f \in Facts}
           Inv == KeysUnique /\ late \subseteq Facts /\ passed \subseteq Known
<1>1. Init => Inv
  BY DEF Init, KeysUnique
<1>2. Home /\ Inv /\ [Next]_vars => Inv'
  BY UniqueKeysStep, HistoryStep DEF Home
<1>3. Home /\ Inv => TypeOK
  <2> SUFFICES ASSUME Home, Inv
               PROVE  TypeOK
    OBVIOUS
  <2>1. PICK n \in Nat : n = Len(media)
    BY DEF Home, MediaType
  <2>2. DOMAIN media = 1 .. n
    BY <2>1 DEF Home, MediaType
  <2>3. ASSUME NEW c \in cur
        PROVE  c[1] \in Known /\ c[2] \in 0 .. n
    <3>1. c[1] \in Known
      BY DEF Home, CurIsItem
    <3>2. c[2] # NoRow => <<c[2], c[1].event.ref>> \in Points
      BY DEF Points
    <3>3. c[2] = 0 \/ c[2] \in 1 .. n
      BY <2>2, <3>2 DEF Home, RowsExist, NoRow
    <3> QED
      BY <3>1, <3>3
  <2>4. ASSUME NEW e \in events
        PROVE  e.media \in 0 .. n
    <3>1. <<e.media, e.ref>> \in Points
      BY DEF Points
    <3>2. e.media = 0 \/ e.media \in 1 .. n
      BY <2>2, <3>1 DEF Home, RowsExist, NoRow
    <3> QED
      BY <3>2
  <2> QED
    BY <2>1, <2>3, <2>4 DEF TypeOK, KeysUnique
<1> QED
  BY <1>1, <1>2, <1>3, AlwaysHome, PTL DEF Spec

-----------------------------------------------------------------------------
\* Keys as sequences

\* A sequence is what it has at each place.
LEMMA Tuples ==
    ASSUME NEW S, NEW s \in Seq(S)
    PROVE  /\ Len(s) = 3 => s = <<s[1], s[2], s[3]>>
           /\ Len(s) = 4 => s = <<s[1], s[2], s[3], s[4]>>
           /\ Len(s) = 5 => s = <<s[1], s[2], s[3], s[4], s[5]>>
<1>1. Len(s) = 3 => s = <<s[1], s[2], s[3]>>
  OBVIOUS
<1>2. Len(s) = 4 => s = <<s[1], s[2], s[3], s[4]>>
  OBVIOUS
<1>3. Len(s) = 5 => s = <<s[1], s[2], s[3], s[4], s[5]>>
  OBVIOUS
<1> QED
  BY <1>1, <1>2, <1>3

\* The segments of a key, put together as the normalizers and the job do.
LEMMA TwoAndOne ==
    ASSUME NEW a, NEW b, NEW c
    PROVE  <<a, b>> \o <<c>> = <<a, b, c>>
<1> DEFINE S == {a, b, c}
           s == <<a, b>> \o <<c>>
<1>1. <<a, b>> \in Seq(S) /\ <<c>> \in Seq(S)
  OBVIOUS
<1>2. s \in Seq(S) /\ Len(s) = 3 /\ s[1] = a /\ s[2] = b /\ s[3] = c
  BY <1>1
<1> HIDE DEF s, S
<1>3. s = <<a, b, c>>
  BY <1>2, Tuples
<1> QED
  BY <1>3 DEF s

LEMMA ThreeAndOne ==
    ASSUME NEW a, NEW b, NEW c, NEW d
    PROVE  <<a, b, c>> \o <<d>> = <<a, b, c, d>>
<1> DEFINE S == {a, b, c, d}
           s == <<a, b, c>> \o <<d>>
<1>1. <<a, b, c>> \in Seq(S) /\ <<d>> \in Seq(S)
  OBVIOUS
<1>2. s \in Seq(S) /\ Len(s) = 4 /\ s[1] = a /\ s[2] = b /\ s[3] = c /\ s[4] = d
  BY <1>1
<1> HIDE DEF s, S
<1>3. s = <<a, b, c, d>>
  BY <1>2, Tuples
<1> QED
  BY <1>3 DEF s

LEMMA FourAndOne ==
    ASSUME NEW a, NEW b, NEW c, NEW q, NEW d
    PROVE  <<a, b, c, q>> \o <<d>> = <<a, b, c, q, d>>
<1> DEFINE S == {a, b, c, q, d}
           s == <<a, b, c, q>> \o <<d>>
<1>1. <<a, b, c, q>> \in Seq(S) /\ <<d>> \in Seq(S)
  OBVIOUS
<1>2. s \in Seq(S) /\ Len(s) = 5
      /\ s[1] = a /\ s[2] = b /\ s[3] = c /\ s[4] = q /\ s[5] = d
  BY <1>1
<1> HIDE DEF s, S
<1>3. s = <<a, b, c, q, d>>
  BY <1>2, Tuples
<1> QED
  BY <1>3 DEF s

LEMMA Prefix ==
    ASSUME NEW S, NEW s \in Seq(S), Len(s) >= 3
    PROVE  SubSeq(s, 1, 3) = <<s[1], s[2], s[3]>>
<1> DEFINE t == SubSeq(s, 1, 3)
<1>1. \A i \in 1 .. 3 : s[i] \in S
  OBVIOUS
<1>2. t \in Seq(S) /\ Len(t) = 3 /\ (\A i \in 1 .. 3 : t[i] = s[1 + i - 1])
  BY <1>1, SubSeqProperties
<1> HIDE DEF t
<1>3. t[1] = s[1] /\ t[2] = s[2] /\ t[3] = s[3]
  BY <1>2
<1>4. t = <<s[1], s[2], s[3]>>
  BY <1>2, <1>3, Tuples
<1> QED
  BY <1>4 DEF t

LEMMA EndsOfFour ==
    ASSUME NEW a, NEW b, NEW c, NEW d
    PROVE  LET key == <<a, b, c, d>> IN
           SubSeq(key, 1, 3) = <<a, b, c>> /\ key[Len(key)] = d
<1> DEFINE S == {a, b, c, d}
           key == <<a, b, c, d>>
<1>1. key \in Seq(S) /\ Len(key) = 4 /\ key[1] = a /\ key[2] = b /\ key[3] = c /\ key[4] = d
  OBVIOUS
<1> HIDE DEF S, key
<1>2. SubSeq(key, 1, 3) = <<key[1], key[2], key[3]>>
  <2>1. key \in Seq(S) /\ Len(key) >= 3
    BY <1>1
  <2> QED
    BY <2>1, Prefix
<1>3. SubSeq(key, 1, 3) = <<a, b, c>> /\ key[Len(key)] = d
  BY <1>1, <1>2
<1> QED
  BY <1>3 DEF key

LEMMA EndsOfFive ==
    ASSUME NEW a, NEW b, NEW c, NEW q, NEW d
    PROVE  LET key == <<a, b, c, q, d>> IN
           SubSeq(key, 1, 3) = <<a, b, c>> /\ key[Len(key)] = d
<1> DEFINE S == {a, b, c, q, d}
           key == <<a, b, c, q, d>>
<1>1. key \in Seq(S) /\ Len(key) = 5 /\ key[1] = a /\ key[2] = b /\ key[3] = c /\ key[5] = d
  OBVIOUS
<1> HIDE DEF S, key
<1>2. SubSeq(key, 1, 3) = <<key[1], key[2], key[3]>>
  <2>1. key \in Seq(S) /\ Len(key) >= 3
    BY <1>1
  <2> QED
    BY <2>1, Prefix
<1>3. SubSeq(key, 1, 3) = <<a, b, c>> /\ key[Len(key)] = d
  BY <1>1, <1>2
<1> QED
  BY <1>3 DEF key

\* The empty scope of a key that is no delete.
LEMMA NoScope ==
    ASSUME NEW a, NEW b, NEW c
    PROVE  <<a, b>> \o << >> \o <<c>> = <<a, b, c>>
<1>1. <<a, b>> \o << >> = <<a, b>>
  OBVIOUS
<1>2. <<a, b>> \o <<c>> = <<a, b, c>>
  BY TwoAndOne
<1> QED
  BY <1>1, <1>2

-----------------------------------------------------------------------------
\* What the two paths call a fact

LEMMA ItemFields ==
    ASSUME NEW f \in Facts, NEW x \in Items[f]
    PROVE  /\ x.fact = f
           /\ \E r \in RecordsOf[f] :
                 /\ Agrees(r, HookOf[f]) /\ x.download = r.download
                 /\ \E i \in DOMAIN Recorded(r) : x.event = Recorded(r)[i]
<1>1. PICK r \in RecordsOf[f] :
          \E i \in DOMAIN Recorded(r) :
              x = [fact |-> f, download |-> r.download, event |-> Recorded(r)[i]]
  BY DEF Items
<1> QED
  BY <1>1, RecordsAssumption

LEMMA ArrItems ==
    ASSUME NEW f \in Facts, NEW x \in Items[f], Arr(HookOf[f])
    PROVE  LET p == HookOf[f] IN
           /\ p.event \in {"Grab", "Download", "FileDelete"}
           /\ \E r \in RecordsOf[f] :
                 /\ Agrees(r, p) /\ x.download = r.download
                 /\ r.event \in HistoryOf(p.event)
                 /\ x.event = ArrRecord(r)[1] /\ ArrRecordType(r) # None
<1> DEFINE p == HookOf[f]
<1>1. PICK r \in RecordsOf[f] :
          /\ Agrees(r, p) /\ x.download = r.download
          /\ \E i \in DOMAIN Recorded(r) : x.event = Recorded(r)[i]
  BY ItemFields
<1>2. r.source = p.source /\ r.event \in HistoryOf(p.event)
  BY <1>1 DEF Agrees, Arr
<1>3. p.event \in {"Grab", "Download", "FileDelete"}
  BY <1>2 DEF HistoryOf
<1>4. Recorded(r) = ArrRecord(r)
  BY <1>2 DEF Arr, Recorded
<1>5. PICK i \in DOMAIN ArrRecord(r) : x.event = ArrRecord(r)[i]
  BY <1>1, <1>4
<1>6. CASE ArrRecordType(r) = None
  <2>1. ArrRecord(r) = << >>
    BY <1>6 DEF ArrRecord
  <2> QED
    BY <1>5, <2>1
<1>7. CASE ArrRecordType(r) # None
  <2>1. \E y : ArrRecord(r) = <<y>>
    BY <1>7 DEF ArrRecord
  <2>2. i = 1
    BY <2>1
  <2> QED
    BY <1>1, <1>2, <1>3, <1>5, <1>7, <2>2
<1> QED
  BY <1>6, <1>7

TypeFor(p) ==
    IF p.event = "Grab" THEN "media.grabbed"
    ELSE IF p.event = "FileDelete" THEN "media.deleted"
    ELSE IF p.upgrade THEN "media.upgraded" ELSE "media.imported"

\* A record of an arr has the type and the kind of its webhook, and no other ids.
LEMMA ArrItemType ==
    ASSUME NEW f \in Facts, NEW x \in Items[f], Arr(HookOf[f])
    PROVE  LET p == HookOf[f] IN
           /\ x.event.type = TypeFor(p)
           /\ x.event.ref.kind = ArrHookRef(p).kind
           /\ \/ None \in {x.event.ref.tmdb, ArrHookRef(p).tmdb}
              \/ x.event.ref.tmdb = ArrHookRef(p).tmdb
<1> DEFINE p == HookOf[f]
<1>1. PICK r \in RecordsOf[f] :
          /\ Agrees(r, p) /\ r.event \in HistoryOf(p.event)
          /\ x.event = ArrRecord(r)[1] /\ ArrRecordType(r) # None
  BY ArrItems
<1>2. p.event \in {"Grab", "Download", "FileDelete"}
  BY ArrItems
<1>3. r.source = p.source /\ SameIds(r.t, p.t) /\ r.upgrade = p.upgrade
  BY <1>1 DEF Agrees, Arr
<1>4. ArrRecordType(r) = TypeFor(p)
  BY <1>1, <1>2, <1>3 DEF HistoryOf, ArrRecordType, TypeFor
<1>5. x.event.type = ArrRecordType(r) /\ x.event.ref = ArrRecordRef(r)
  BY <1>1 DEF ArrRecord, Event
<1>6. /\ ArrRecordRef(r).kind = ArrHookRef(p).kind
      /\ ArrRecordRef(r).tmdb = r.t.tmdb /\ ArrHookRef(p).tmdb = p.t.tmdb
  BY <1>3 DEF ArrRecordRef, ArrHookRef, Ref
<1>7. None \in {r.t.tmdb, p.t.tmdb} \/ r.t.tmdb = p.t.tmdb
  BY <1>3 DEF SameIds
<1> QED
  BY <1>4, <1>5, <1>6, <1>7

LEMMA ArrMain ==
    ASSUME NEW f \in Facts, Arr(HookOf[f])
    PROVE  LET p == HookOf[f] IN
           /\ Hook[f] = << Main[f] >>
           /\ p.event = "Grab" => Main[f] = ArrGrab(p)
           /\ p.event = "Download" => Main[f] = ArrImport(p)
           /\ p.event = "FileDelete" => Main[f] = ArrFileDelete(p)
           /\ p.event \in {"Grab", "Download", "FileDelete"} =>
                 Main[f].type = TypeFor(p) /\ Main[f].ref = ArrHookRef(p)
<1> DEFINE p == HookOf[f]
<1>1. Hook[f] = ArrHook(p) /\ Main[f] = Hook[f][Len(Hook[f])]
  BY DEF Hook, Main, Normalized, Arr
<1>2. \E y : ArrHook(p) = <<y>>
  BY DEF ArrHook
<1>3. Hook[f] = << Main[f] >>
  BY <1>1, <1>2
<1>4. ArrHook(p)[1] = Main[f]
  BY <1>1, <1>3
<1>5. /\ p.event = "Grab" => Main[f] = ArrGrab(p)
      /\ p.event = "Download" => Main[f] = ArrImport(p)
      /\ p.event = "FileDelete" => Main[f] = ArrFileDelete(p)
  BY <1>4 DEF ArrHook
<1>6. p.event \in {"Grab", "Download", "FileDelete"} =>
          Main[f].type = TypeFor(p) /\ Main[f].ref = ArrHookRef(p)
  BY <1>5 DEF TypeFor, ArrGrab, ArrImport, ArrFileDelete, Event
<1> QED
  BY <1>3, <1>5, <1>6

\* The keys of a grab or an import: title first, download last.
GrabKey(p, episodes, last) ==
    <<p.source, TypeFor(p), TitleKey(p)>> \o Parts(p.source, episodes) \o <<last>>

LEMMA GrabKeys ==
    ASSUME NEW f \in Facts, Arr(HookOf[f]), HookOf[f].event \in {"Grab", "Download"}
    PROVE  LET p == HookOf[f] IN
           /\ \E last \in {p.body, p.file} :
                 Main[f].key = GrabKey(p, p.episodes, Or(p.download, last))
           /\ \A x \in Items[f] :
                 /\ x.download = p.download
                 /\ \E r \in RecordsOf[f] :
                       /\ x.event.key = GrabKey(p, r.episodes, Or(p.download, r.id))
                       /\ Len(p.episodes) <= 1 => r.episodes = p.episodes
<1> DEFINE p == HookOf[f]
<1>1. \E last \in {p.body, p.file} :
          Main[f].key = GrabKey(p, p.episodes, Or(p.download, last))
  <2>2. CASE p.event = "Grab"
    <3>1. Main[f] = ArrGrab(p) /\ TypeFor(p) = "media.grabbed"
      BY <2>2, ArrMain DEF TypeFor
    <3> QED
      BY <3>1 DEF ArrGrab, Event, GrabKey
  <2>3. CASE p.event = "Download"
    <3>1. Main[f] = ArrImport(p)
          /\ TypeFor(p) = IF p.upgrade THEN "media.upgraded" ELSE "media.imported"
      BY <2>3, ArrMain DEF TypeFor
    <3> QED
      BY <3>1 DEF ArrImport, Event, GrabKey
  <2> QED
    BY <2>2, <2>3
<1>2. ASSUME NEW x \in Items[f]
      PROVE  /\ x.download = p.download
             /\ \E r \in RecordsOf[f] :
                   /\ x.event.key = GrabKey(p, r.episodes, Or(p.download, r.id))
                   /\ Len(p.episodes) <= 1 => r.episodes = p.episodes
  <2>1. PICK r \in RecordsOf[f] :
            /\ Agrees(r, p) /\ x.download = r.download /\ r.event \in HistoryOf(p.event)
            /\ x.event = ArrRecord(r)[1] /\ ArrRecordType(r) # None
    BY ArrItems
  <2>2. /\ r.source = p.source /\ TitleKey(r) = TitleKey(p)
        /\ r.upgrade = p.upgrade /\ r.download = p.download
        /\ Len(p.episodes) <= 1 => r.episodes = p.episodes
    BY <2>1 DEF Agrees, Arr
  <2>3. ArrRecordType(r) = TypeFor(p) /\ TypeFor(p) # "media.deleted"
    BY <2>1, <2>2 DEF HistoryOf, ArrRecordType, TypeFor
  <2>5. x.event.key = <<r.source, ArrRecordType(r)>> \o << >> \o <<TitleKey(r)>>
                          \o Parts(r.source, r.episodes) \o <<Or(r.download, r.id)>>
    BY <2>1, <2>3 DEF ArrRecord, Event
  <2>6. <<r.source, ArrRecordType(r)>> \o << >> \o <<TitleKey(r)>>
            = <<p.source, TypeFor(p), TitleKey(p)>>
    BY <2>2, <2>3, NoScope
  <2>7. x.event.key = GrabKey(p, r.episodes, Or(p.download, r.id))
    BY <2>2, <2>5, <2>6 DEF GrabKey
  <2> QED
    BY <2>1, <2>2, <2>7
<1> QED
  BY <1>1, <1>2

LEMMA GrabKeyEnds ==
    ASSUME NEW p, NEW episodes, NEW last, NEW key, key = GrabKey(p, episodes, last)
    PROVE  /\ SubSeq(key, 1, 3) = <<p.source, TypeFor(p), TitleKey(p)>>
           /\ key[Len(key)] = last
<1> DEFINE parts == Parts(p.source, episodes)
           a == p.source
           b == TypeFor(p)
           c == TitleKey(p)
<1>1. parts = << >> \/ \E q : parts = <<q>>
  BY DEF Parts
<1>2. key = <<a, b, c>> \o parts \o <<last>>
  BY DEF GrabKey
<1> HIDE DEF parts, a, b, c
<1>3. CASE parts = << >>
  <2>1. <<a, b, c>> \o parts = <<a, b, c>>
    BY <1>3
  <2>2. <<a, b, c>> \o <<last>> = <<a, b, c, last>>
    BY ThreeAndOne
  <2>3. key = <<a, b, c, last>>
    BY <1>2, <2>1, <2>2
  <2>4. LET k == <<a, b, c, last>> IN SubSeq(k, 1, 3) = <<a, b, c>> /\ k[Len(k)] = last
    BY EndsOfFour
  <2> QED
    BY <2>3, <2>4 DEF a, b, c
<1>4. ASSUME NEW q, parts = <<q>>
      PROVE  SubSeq(key, 1, 3) = <<a, b, c>> /\ key[Len(key)] = last
  <2>1. <<a, b, c>> \o <<q>> = <<a, b, c, q>>
    BY ThreeAndOne
  <2>2. <<a, b, c, q>> \o <<last>> = <<a, b, c, q, last>>
    BY FourAndOne
  <2>3. key = <<a, b, c, q, last>>
    BY <1>2, <1>4, <2>1, <2>2
  <2>4. LET k == <<a, b, c, q, last>> IN SubSeq(k, 1, 3) = <<a, b, c>> /\ k[Len(k)] = last
    BY EndsOfFive
  <2> QED
    BY <2>3, <2>4
<1> QED
  BY <1>1, <1>3, <1>4 DEF a, b, c

\* Whatever is stored of a pack, a record of it finds it by its download.
LEMMA PackNames ==
    ASSUME NEW f \in Facts, Pack(f), NEW x \in Items[f]
    PROVE  /\ x.event.type # "media.deleted"
           /\ EventsOf(f) # {} => Found(x)
<1> DEFINE p == HookOf[f]
<1>1. Arr(p) /\ p.event \in {"Grab", "Download"} /\ p.download # None
  BY DEF Pack
<1>2. x.event.type # "media.deleted"
  BY <1>1, ArrItemType DEF TypeFor
<1>3. ASSUME NEW key \in KeysOf[f]
      PROVE  \E episodes : key = GrabKey(p, episodes, p.download)
  BY <1>1, GrabKeys DEF KeysOf, Or
<1>4. ASSUME NEW e \in EventsOf(f)
      PROVE  Like(x)
  <2>1. PICK episodes : e.key = GrabKey(p, episodes, p.download)
    BY <1>3 DEF EventsOf
  <2>2. PICK others : x.event.key = GrabKey(p, others, p.download)
    BY <1>1, GrabKeys DEF Or
  <2>3. x.download = p.download
    BY <1>1, GrabKeys
  <2>4. e \in events
    BY DEF EventsOf
  <2>5. /\ SubSeq(e.key, 1, 3) = <<p.source, TypeFor(p), TitleKey(p)>>
        /\ e.key[Len(e.key)] = p.download
    BY <2>1, GrabKeyEnds
  <2>6. SubSeq(x.event.key, 1, 3) = <<p.source, TypeFor(p), TitleKey(p)>>
    BY <2>2, GrabKeyEnds
  <2> QED
    BY <1>1, <2>3, <2>4, <2>5, <2>6 DEF Like
<1> QED
  BY <1>2, <1>4 DEF Found

\* What the request list says of a request, step by step.
LEMMA SeerrItem ==
    ASSUME NEW f \in Facts, HookOf[f].source = "seerr", NEW x \in Items[f]
    PROVE  LET p == HookOf[f] IN
           /\ x.event.type \in {"request.created", "request.approved", "request.declined",
                                "request.available"}
           /\ \E r \in RecordsOf[f] :
                 /\ Agrees(r, p)
                 /\ x.event.key = IF x.event.type = "request.available"
                                  THEN <<p.source, x.event.type, p.request, StatusLabel(r)>>
                                  ELSE <<p.source, x.event.type, p.request>>
<1> DEFINE p == HookOf[f]
<1>1. PICK r \in RecordsOf[f] :
          Agrees(r, p) /\ \E i \in DOMAIN Recorded(r) : x.event = Recorded(r)[i]
  BY ItemFields
<1>2. r.source = p.source /\ r.request = p.request
  BY <1>1 DEF Agrees
<1>3. /\ x.event.type \in {"request.created", "request.approved", "request.declined",
                            "request.available"}
      /\ x.event.key = IF x.event.type = "request.available"
                       THEN <<p.source, x.event.type, p.request, StatusLabel(r)>>
                       ELSE <<p.source, x.event.type, p.request>>
  <2> DEFINE ref == Ref(Kind(r.t), r.t.tmdb, r.t.tvdb, None, None, None)
             Step0(t) == Event(t, <<r.source, t, r.request>>, ref)
             available == Event("request.available",
                                <<r.source, "request.available", r.request, StatusLabel(r)>>, ref)
             S == {Step0("request.created"), Step0("request.approved"),
                   Step0("request.declined"), available}
             decided == CASE r.event = "approved" -> << Step0("request.approved") >>
                          [] r.event = "declined" -> << Step0("request.declined") >>
                          [] OTHER -> << >>
             there == IF r.status \in {"available", "partial"} THEN << available >> ELSE << >>
  <2>1. Recorded(r) = (<< Step0("request.created") >> \o decided) \o there
    BY <1>2 DEF Recorded, SeerrExpected
  <2>2. << Step0("request.created") >> \in Seq(S)
    <3> HIDE DEF Step0, available
    <3> QED
      OBVIOUS
  <2>3. decided \in {<< Step0("request.approved") >>, << Step0("request.declined") >>, << >>}
    <3> HIDE DEF Step0
    <3> QED
      OBVIOUS
  <2>4. there \in {<< available >>, << >>}
    <3> HIDE DEF available
    <3> QED
      OBVIOUS
  <2>5. \A y \in S : <<y>> \in Seq(S)
    <3> HIDE DEF S
    <3> QED
      OBVIOUS
  <2>6. /\ << >> \in Seq(S) /\ Step0("request.approved") \in S
         /\ Step0("request.declined") \in S /\ available \in S
    <3> HIDE DEF Step0, available
    <3> QED
      OBVIOUS
  <2>7. Recorded(r) \in Seq(S)
    <3> HIDE DEF S, decided, there, Step0, available
    <3>1. decided \in Seq(S) /\ there \in Seq(S)
      BY <2>3, <2>4, <2>5, <2>6
    <3> QED
      BY <2>1, <2>2, <3>1
  <2>8. x.event \in S
    <3> HIDE DEF S
    <3> QED
      BY <1>1, <2>7
  <2> QED
    BY <1>2, <2>8 DEF Event
<1> QED
  BY <1>1, <1>3

\* The list says of a request what its webhooks say.
LEMMA SeerrNames ==
    ASSUME NEW f \in Facts, HookOf[f].source = "seerr", NEW x \in Items[f],
           x.event.type = Main[f].type
    PROVE  x.event.key = Main[f].key
<1> DEFINE p == HookOf[f]
           type == SeerrType(p.event)
           status == IF type = "request.available" THEN <<Or(p.status, "AVAILABLE")>> ELSE << >>
<1>1. x.event.type \in {"request.created", "request.approved", "request.declined",
                        "request.available"}
  BY SeerrItem
<1>2. PICK r \in RecordsOf[f] :
          /\ Agrees(r, p)
          /\ x.event.key = IF x.event.type = "request.available"
                           THEN <<p.source, x.event.type, p.request, StatusLabel(r)>>
                           ELSE <<p.source, x.event.type, p.request>>
  BY SeerrItem
<1>3. p.event = "MEDIA_AVAILABLE" => StatusLabel(r) = Or(p.status, "AVAILABLE")
  BY <1>2 DEF Agrees
<1>4. Main[f] = SeerrHook(p)[1]
  <2>1. Hook[f] = SeerrHook(p) /\ Main[f] = Hook[f][Len(Hook[f])]
    BY DEF Hook, Main, Normalized
  <2>2. \E y : SeerrHook(p) = <<y>>
    BY DEF SeerrHook
  <2> QED
    BY <2>1, <2>2
<1>5. CASE p.request # None /\ type # None
  <2>1. Main[f] = Event(type, <<p.source, type, p.request>> \o status, SeerrHookRef(p))
    BY <1>4, <1>5 DEF SeerrHook
  <2>2. Main[f].type = type /\ Main[f].key = <<p.source, type, p.request>> \o status
    BY <2>1 DEF Event
  <2>3. CASE type = "request.available"
    <3>1. p.event = "MEDIA_AVAILABLE" \/ None = "request.available"
      BY <2>3 DEF SeerrType
    <3>2. p.event = "MEDIA_AVAILABLE"
      BY <1>5, <2>3, <3>1
    <3>3. <<p.source, type, p.request>> \o <<Or(p.status, "AVAILABLE")>>
              = <<p.source, type, p.request, Or(p.status, "AVAILABLE")>>
      <4> HIDE DEF type
      <4> QED
        BY ThreeAndOne
    <3> QED
      BY <1>2, <1>3, <2>2, <2>3, <3>2, <3>3
  <2>4. CASE type # "request.available"
    <3>1. <<p.source, type, p.request>> \o << >> = <<p.source, type, p.request>>
      OBVIOUS
    <3> QED
      BY <1>2, <2>2, <2>4, <3>1
  <2> QED
    BY <2>3, <2>4
<1>6. CASE ~(p.request # None /\ type # None)
  <2>1. Main[f].type \in {"source.unknown", "health.issue"}
    BY <1>4, <1>6 DEF SeerrHook, Unknown, Event
  <2> QED
    BY <1>1, <2>1
<1> QED
  BY <1>5, <1>6

\* What the history of plays says of an item.
LEMMA TautulliItem ==
    ASSUME NEW f \in Facts, HookOf[f].source = "tautulli", NEW x \in Items[f]
    PROVE  LET p == HookOf[f] IN
           /\ p.item # None /\ x.event.type = "watch.completed"
           /\ \E user : /\ p.userId # None => user = p.userId
                        /\ x.event.key = <<p.source, "watch.completed", user, p.item>>
<1> DEFINE p == HookOf[f]
<1>1. PICK r \in RecordsOf[f] :
          Agrees(r, p) /\ \E i \in DOMAIN Recorded(r) : x.event = Recorded(r)[i]
  BY ItemFields
<1>2. r.source = p.source /\ r.userId = p.userId /\ r.item = p.item /\ p.item # None
  BY <1>1 DEF Agrees
<1>3. x.event.type = "watch.completed"
      /\ x.event.key = <<p.source, "watch.completed", UserKey(r), p.item>>
  <2>1. Recorded(r) = TautulliRecord(r)
    BY <1>2 DEF Recorded
  <2>2. PICK i \in DOMAIN TautulliRecord(r) : x.event = TautulliRecord(r)[i]
    BY <1>1, <2>1
  <2>3. CASE ~r.watched
    <3>1. TautulliRecord(r) = << >>
      BY <2>3 DEF TautulliRecord
    <3> QED
      BY <2>2, <3>1
  <2>4. CASE r.watched
    <3> DEFINE y == Event("watch.completed", <<r.source, "watch.completed", UserKey(r), r.item>>,
                          Ref(Kind(r.t), None, None, None, r.t.title, r.t.year))
    <3>1. TautulliRecord(r) = <<y>>
      BY <2>4 DEF TautulliRecord
    <3>2. x.event = y
      <4> HIDE DEF y
      <4> QED
        BY <2>2, <3>1
    <3> QED
      BY <1>2, <3>2 DEF Event
  <2> QED
    BY <2>3, <2>4
<1>4. p.userId # None => UserKey(r) = p.userId
  BY <1>2 DEF UserKey, Or
<1> QED
  BY <1>2, <1>3, <1>4

\* A play that tautulli's history has as watched is the one its webhook told of,
\* by a watched trigger or by a stop past the threshold.
LEMMA TautulliNames ==
    ASSUME NEW f \in Facts, HookOf[f].source = "tautulli", HookOf[f].userId # None,
           NEW x \in Items[f], x.event.type = Main[f].type
    PROVE  x.event.key = Main[f].key
<1> DEFINE p == HookOf[f]
<1>2. p.item # None
  BY TautulliItem
<1>3. x.event.type = "watch.completed"
      /\ x.event.key = <<p.source, "watch.completed", p.userId, p.item>>
  BY TautulliItem
<1>4. Hook[f] = TautulliHook(p) /\ Main[f] = Hook[f][Len(Hook[f])]
  BY DEF Hook, Main, Normalized
<1>5. /\ Playback(p, "playback.started").type # "watch.completed"
      /\ Playback(p, "playback.stopped").type # "watch.completed"
      /\ Unknown(p).type # "watch.completed"
  BY DEF Playback, Unknown, Event
<1>6. Main[f] = Watched(p)
  <2>1. \/ TautulliHook(p) = << Playback(p, "playback.started") >>
        \/ TautulliHook(p) = << Playback(p, "playback.stopped") >>
        \/ TautulliHook(p) = << Unknown(p) >>
        \/ TautulliHook(p) = << Watched(p) >>
        \/ TautulliHook(p) = << Playback(p, "playback.stopped"), Watched(p) >>
    BY DEF TautulliHook
  <2>2. \A y : TautulliHook(p) = <<y>> => Main[f] = y
    BY <1>4
  <2>3. \A y, z : TautulliHook(p) = <<y, z>> => Main[f] = z
    BY <1>4
  <2>4. Main[f].type = "watch.completed"
    BY <1>3
  <2> QED
    BY <1>5, <2>1, <2>2, <2>3, <2>4
<1>7. UserKey(p) = p.userId /\ ItemKey(p) = p.item
  BY <1>2 DEF UserKey, ItemKey, Or
<1> QED
  BY <1>3, <1>6, <1>7 DEF Watched, Event

\* The two derivations agree: but for packs and deletes, what links the paths
\* gives the fact one name.
LEMMA OneName ==
    ASSUME NEW f \in Facts, Linked(f), ~Pack(f), ~Delete(f)
    PROVE  KeysOf[f] = {Main[f].key}
<1> DEFINE p == HookOf[f]
<1>1. ASSUME NEW x \in Items[f], x.event.type = Main[f].type
      PROVE  x.event.key = Main[f].key
  <2>1. CASE p.source = "seerr"
    BY <1>1, <2>1, SeerrNames
  <2>2. CASE p.source = "tautulli"
    BY <1>1, <2>2, TautulliNames DEF Linked
  <2>3. CASE Arr(p)
    <3>1. p.event \in {"Grab", "Download"}
      BY <2>3, ArrItems DEF Delete
    <3>2. p.download # None
      BY <2>3, <3>1 DEF Linked, Arr
    <3>3. Len(p.episodes) <= 1
      BY <2>3, <3>1, <3>2 DEF Pack
    <3> QED
      BY <2>3, <3>1, <3>2, <3>3, GrabKeys DEF Or
  <2> QED
    BY <2>1, <2>2, <2>3, FactsAssumption DEF Arr
<1> QED
  BY <1>1 DEF KeysOf

\* No fact both paths have one name for is a pack or a delete.
LEMMA NamedIsOne ==
    ASSUME NEW f \in Facts, Named(f)
    PROVE  Linked(f) /\ ~Pack(f) /\ ~Delete(f)
BY DEF Named, Pack, Delete

-----------------------------------------------------------------------------
\* Deletes find each other by their media row

\* The ids of a row came from refs.
RowsKnown ==
    \A m \in DOMAIN media :
        media[m].tmdb # None => \E r \in Refs : r.kind = media[m].kind /\ r.tmdb = media[m].tmdb

AtTmdb(m, ref) ==
    ref # None /\ ref.tmdb # None =>
        m \in DOMAIN media /\ media[m].kind = ref.kind /\ media[m].tmdb = ref.tmdb

PointsAtTmdb == \A q \in Points : AtTmdb(q[1], q[2])

TmdbInv == RowsKnown /\ PointsAtTmdb

LEMMA KnownStep ==
    ASSUME MediaType, RowsKnown, NEW ref \in Refs, NEW m \in RowsFor(ref), FindOrCreate(ref, m)
    PROVE  RowsKnown'
<1>0. ref \in Rows /\ (\A n \in DOMAIN media : media[n] \in Rows)
  BY RefsAreRows DEF MediaType
<1>1. CASE Filling(ref, m)
  <2>1. m \in DOMAIN media /\ DOMAIN media' = DOMAIN media /\ media[m].kind = ref.kind
    BY <1>1, Matching, Step DEF Filling, MediaType
  <2>2. media'[m].kind = media[m].kind /\ media'[m].tmdb = Backfilled(media[m].tmdb, ref.tmdb)
    BY <1>0, <1>1, <2>1, FilledRow DEF Filling
  <2>3. media'[m].tmdb # None =>
            \E r \in Refs : r.kind = media'[m].kind /\ r.tmdb = media'[m].tmdb
    BY <2>1, <2>2 DEF RowsKnown, Backfilled
  <2> QED
    BY <1>1, <2>1, <2>3 DEF Filling, RowsKnown
<1>2. CASE Appending(ref, m)
  <2>1. DOMAIN media' = DOMAIN media \cup {m}
    BY <1>2, Step DEF Appending, MediaType
  <2> QED
    BY <1>2, <2>1 DEF Appending, RowsKnown
<1> QED
  BY <1>1, <1>2, Step

LEMMA StaysAtTmdb ==
    ASSUME MediaType, [MediaNext]_media, NEW n, NEW r, AtTmdb(n, r)
    PROVE  AtTmdb(n, r)'
<1>1. CASE UNCHANGED media
  BY <1>1 DEF AtTmdb
<1>2. ASSUME NEW ref \in Refs, NEW m \in RowsFor(ref), FindOrCreate(ref, m),
             r # None, r.tmdb # None
      PROVE  n \in DOMAIN media' /\ media'[n].kind = r.kind /\ media'[n].tmdb = r.tmdb
  <2>1. /\ n \in DOMAIN media /\ media[n].kind = r.kind /\ media[n].tmdb = r.tmdb
        /\ media[n] \in Rows /\ ref \in Rows
    BY <1>2, RefsAreRows DEF AtTmdb, MediaType
  <2>2. n \in DOMAIN media'
    BY <1>2, <2>1, GrowStep DEF Grown
  <2>3. CASE media'[n] = Filled(media[n], ref)
    BY <1>2, <2>1, <2>2, <2>3, FilledRow DEF Backfilled
  <2> QED
    BY <1>2, <2>1, <2>2, <2>3, Step DEF Filling, Appending
<1> QED
  BY <1>1, <1>2 DEF MediaNext, AtTmdb

\* A lookup that has a tmdb id returns a row with this very id: where another id
\* led to the row, both speak of one title.
LEMMA LookedAtTmdb ==
    ASSUME OneTmdbId, MediaType, RowsKnown, RowsArePure, NEW ref \in Refs, NEW m, Looked(ref, m)
    PROVE  AtTmdb(m, ref)'
<1> SUFFICES ASSUME ref.tmdb # None
             PROVE  m \in DOMAIN media' /\ media'[m].kind = ref.kind /\ media'[m].tmdb = ref.tmdb
  BY DEF AtTmdb
<1>1. CASE Filling(ref, m)
  <2>1. /\ m \in DOMAIN media /\ DOMAIN media' = DOMAIN media
        /\ media[m].kind = ref.kind /\ ShareId(media[m], ref)
    BY <1>1, Matching, Step DEF Looked, Filling, MediaType, HasId
  <2>2. media[m] \in Rows /\ ref \in Rows
    BY <2>1, RefsAreRows DEF MediaType
  <2>3. media'[m].kind = media[m].kind /\ media'[m].tmdb = Backfilled(media[m].tmdb, ref.tmdb)
    BY <1>1, <2>2, FilledRow DEF Filling
  <2>4. ASSUME media[m].tmdb # None
        PROVE  media[m].tmdb = ref.tmdb
    <3>1. PICK r \in Refs : r.kind = media[m].kind /\ r.tmdb = media[m].tmdb
      BY <2>1, <2>4 DEF RowsKnown
    <3>2. ShareId(media[m], r)
      BY <2>4, <3>1 DEF ShareId, Same
    <3>3. TitleOf[r] = TitleOf[ref]
      BY <2>1, <3>2 DEF RowsArePure
    <3> QED
      BY <2>1, <2>4, <3>1, <3>3 DEF OneTmdbId
  <2> QED
    BY <2>1, <2>3, <2>4 DEF Backfilled
<1>2. CASE Appending(ref, m)
  <2>1. m \in DOMAIN media'
    BY LookedHome
  <2> QED
    BY <1>2, <2>1 DEF Appending
<1> QED
  BY <1>1, <1>2, Step DEF Looked

LEMMA TmdbStep ==
    ASSUME OneTmdbId, MediaType, CurIsItem, RowsArePure, TmdbInv, [Next]_vars
    PROVE  TmdbInv'
<1>1. [MediaNext]_media
  BY MediaStep
<1>2. RowsKnown'
  <2>1. CASE UNCHANGED media
    BY <2>1 DEF TmdbInv, RowsKnown
  <2> QED
    BY <1>1, <2>1, KnownStep DEF TmdbInv, MediaNext
<1>3. PointsAtTmdb'
  <2> SUFFICES ASSUME NEW q \in Points'
               PROVE  AtTmdb(q[1], q[2])'
    BY DEF PointsAtTmdb
  <2>1. CASE q \in Points
    BY <1>1, <2>1, StaysAtTmdb DEF TmdbInv, PointsAtTmdb
  <2>2. CASE q[1] = NoRow /\ ~Names(q[2])
    BY <2>2 DEF Names, HasId, AtTmdb
  <2>3. CASE q[2] \in Refs /\ Looked(q[2], q[1])
    BY <2>3, LookedAtTmdb DEF TmdbInv
  <2> QED
    BY <2>1, <2>2, <2>3, NewPoints DEF Fresh
<1> QED
  BY <1>2, <1>3 DEF TmdbInv

-----------------------------------------------------------------------------
\* What tells facts apart

LEMMA FiveAndOne ==
    ASSUME NEW a, NEW b, NEW c, NEW q, NEW e, NEW d
    PROVE  <<a, b, c, q, e>> \o <<d>> = <<a, b, c, q, e, d>>
<1> DEFINE S == {a, b, c, q, e, d}
           s == <<a, b, c, q, e>> \o <<d>>
<1>1. <<a, b, c, q, e>> \in Seq(S) /\ <<d>> \in Seq(S)
  OBVIOUS
<1>2. s \in Seq(S) /\ Len(s) = 6
      /\ s[1] = a /\ s[2] = b /\ s[3] = c /\ s[4] = q /\ s[5] = e /\ s[6] = d
  BY <1>1
<1> HIDE DEF s, S
<1>3. s = <<s[1], s[2], s[3], s[4], s[5], s[6]>>
  BY <1>2
<1>4. s = <<a, b, c, q, e, d>>
  BY <1>2, <1>3
<1> QED
  BY <1>4 DEF s

\* The segment of the episodes: radarr has none.
OfParts(source, parts) == IF source = "radarr" THEN parts = << >> ELSE \E q : parts = <<q>>

LEMMA PartsAre ==
    ASSUME NEW p, Arr(p), NEW episodes
    PROVE  OfParts(p.source, Parts(p.source, episodes))
BY DEF Arr, OfParts, Parts

Grabs == {"media.grabbed", "media.imported", "media.upgraded"}

\* A key can be read back: of which type, and with which ids, a fact of the source
\* is that has it.
ReadsTitle(source, key, type, id) ==
    /\ type \in Grabs
    /\ \E title, parts, last :
          /\ id = <<title, parts, last>> /\ OfParts(source, parts)
          /\ key = <<source, type, title>> \o parts \o <<last>>

ReadsFile(source, key, type, id) ==
    /\ type = "media.deleted"
    /\ \E title, parts, last :
          /\ id = <<title, parts, last>> /\ OfParts(source, parts)
          /\ key = <<source, type, "file", title>> \o parts \o <<last>>

ReadsDeleted(source, key, type, id) ==
    /\ type = "media.deleted"
    /\ \E kind \in {"movie", "series"} : \E title :
          id = <<kind, title>> /\ key = <<source, type, kind, title>>

ReadsHealth(source, key, type, id) ==
    /\ type = "health.issue" /\ source # "seerr"
    /\ \E check, message :
          \/ /\ id = <<"Health", check, message>>
             /\ key = <<source, "health.issue", check, message>>
          \/ /\ id = <<"HealthRestored", check, message>>
             /\ key = <<source, "health.restored", check, message>>

ReadsFailed(source, key, type, id) ==
    /\ type = "health.issue" /\ source = "seerr"
    /\ \E request :
          id = <<request>> /\ key = <<source, "health.issue", "request", request>>

ReadsUnknown(source, key, type, id) ==
    /\ type = "source.unknown"
    /\ \E event, body : id = <<event, body>> /\ key = <<source, "unknown", event, body>>

ReadsStep(source, key, type, id) ==
    /\ type \in {"request.created", "request.approved", "request.declined"}
    /\ \E request : id = <<request>> /\ key = <<source, type, request>>

ReadsPair(source, key, type, id) ==
    /\ type \in {"request.available", "watch.completed"}
    /\ \E a, b : id = <<a, b>> /\ key = <<source, type, a, b>>

ReadsPlay(source, key, type, id) ==
    /\ type \in {"playback.started", "playback.stopped"}
    /\ \E a, b, c : id = <<a, b, c>> /\ key = <<source, type, a, b, c>>

Reads(source, key, type, id) ==
    \/ ReadsTitle(source, key, type, id) \/ ReadsFile(source, key, type, id)
    \/ ReadsDeleted(source, key, type, id) \/ ReadsHealth(source, key, type, id)
    \/ ReadsFailed(source, key, type, id) \/ ReadsUnknown(source, key, type, id)
    \/ ReadsStep(source, key, type, id) \/ ReadsPair(source, key, type, id)
    \/ ReadsPlay(source, key, type, id)

LEMMA TitleTail ==
    ASSUME NEW a, NEW b, NEW c, NEW parts, NEW d, NEW source, OfParts(source, parts)
    PROVE  \/ /\ source = "radarr" /\ parts = << >>
              /\ <<a, b, c>> \o parts \o <<d>> = <<a, b, c, d>>
           \/ /\ source # "radarr"
              /\ \E q : /\ parts = <<q>>
                        /\ <<a, b, c>> \o parts \o <<d>> = <<a, b, c, q, d>>
<1>1. CASE source = "radarr"
  <2>1. parts = << >>
    BY <1>1 DEF OfParts
  <2>2. <<a, b, c>> \o << >> = <<a, b, c>>
    OBVIOUS
  <2>3. <<a, b, c>> \o <<d>> = <<a, b, c, d>>
    BY ThreeAndOne
  <2> QED
    BY <1>1, <2>1, <2>2, <2>3
<1>2. CASE source # "radarr"
  <2>1. PICK q : parts = <<q>>
    BY <1>2 DEF OfParts
  <2>2. <<a, b, c>> \o <<q>> = <<a, b, c, q>>
    BY ThreeAndOne
  <2>3. <<a, b, c, q>> \o <<d>> = <<a, b, c, q, d>>
    BY FourAndOne
  <2> QED
    BY <1>2, <2>1, <2>2, <2>3
<1> QED
  BY <1>1, <1>2

LEMMA FileTail ==
    ASSUME NEW a, NEW b, NEW c, NEW e, NEW parts, NEW d, NEW source, OfParts(source, parts)
    PROVE  \/ /\ source = "radarr" /\ parts = << >>
              /\ <<a, b, c, e>> \o parts \o <<d>> = <<a, b, c, e, d>>
           \/ /\ source # "radarr"
              /\ \E q : /\ parts = <<q>>
                        /\ <<a, b, c, e>> \o parts \o <<d>> = <<a, b, c, e, q, d>>
<1>1. CASE source = "radarr"
  <2>1. parts = << >>
    BY <1>1 DEF OfParts
  <2>2. <<a, b, c, e>> \o << >> = <<a, b, c, e>>
    OBVIOUS
  <2>3. <<a, b, c, e>> \o <<d>> = <<a, b, c, e, d>>
    BY FourAndOne
  <2> QED
    BY <1>1, <2>1, <2>2, <2>3
<1>2. CASE source # "radarr"
  <2>1. PICK q : parts = <<q>>
    BY <1>2 DEF OfParts
  <2>2. <<a, b, c, e>> \o <<q>> = <<a, b, c, e, q>>
    BY FourAndOne
  <2>3. <<a, b, c, e, q>> \o <<d>> = <<a, b, c, e, q, d>>
    BY FiveAndOne
  <2> QED
    BY <1>2, <2>1, <2>2, <2>3
<1> QED
  BY <1>1, <1>2

\* The second segment of a key says which of the shapes it has.
LEMMA Segments ==
    ASSUME NEW source, NEW key, NEW type, NEW id
    PROVE  /\ Reads(source, key, type, id) => key[1] = source
           /\ ReadsTitle(source, key, type, id) => key[2] = type /\ key[2] \in Grabs
           /\ ReadsFile(source, key, type, id) => key[2] = "media.deleted" /\ key[3] = "file"
           /\ ReadsDeleted(source, key, type, id) => key[2] = "media.deleted" /\ key[3] # "file"
           /\ ReadsHealth(source, key, type, id) => key[2] \in {"health.issue", "health.restored"}
           /\ ReadsFailed(source, key, type, id) => key[2] = "health.issue"
           /\ ReadsUnknown(source, key, type, id) => key[2] = "unknown"
           /\ ReadsStep(source, key, type, id) =>
                 key[2] \in {"request.created", "request.approved", "request.declined"}
           /\ ReadsPair(source, key, type, id) =>
                 key[2] \in {"request.available", "watch.completed"}
           /\ ReadsPlay(source, key, type, id) =>
                 key[2] \in {"playback.started", "playback.stopped"}
<1>1. ReadsTitle(source, key, type, id) =>
          key[1] = source /\ key[2] = type /\ key[2] \in Grabs
  <2> SUFFICES ASSUME ReadsTitle(source, key, type, id)
               PROVE  key[1] = source /\ key[2] = type /\ key[2] \in Grabs
    OBVIOUS
  <2>1. PICK title, parts, last :
            OfParts(source, parts) /\ key = <<source, type, title>> \o parts \o <<last>>
    BY DEF ReadsTitle
  <2>2. key = <<source, type, title, last>> \/ \E q : key = <<source, type, title, q, last>>
    BY <2>1, TitleTail
  <2>3. type \in Grabs
    BY DEF ReadsTitle
  <2> QED
    BY <2>2, <2>3
<1>2. ReadsFile(source, key, type, id) =>
          key[1] = source /\ key[2] = "media.deleted" /\ key[3] = "file"
  <2> SUFFICES ASSUME ReadsFile(source, key, type, id)
               PROVE  key[1] = source /\ key[2] = "media.deleted" /\ key[3] = "file"
    OBVIOUS
  <2>1. PICK title, parts, last :
            OfParts(source, parts) /\ key = <<source, type, "file", title>> \o parts \o <<last>>
    BY DEF ReadsFile
  <2>2. \/ key = <<source, type, "file", title, last>>
        \/ \E q : key = <<source, type, "file", title, q, last>>
    BY <2>1, FileTail
  <2>3. type = "media.deleted"
    BY DEF ReadsFile
  <2> QED
    BY <2>2, <2>3
<1>3. /\ ReadsDeleted(source, key, type, id) =>
            key[1] = source /\ key[2] = "media.deleted" /\ key[3] # "file"
      /\ ReadsHealth(source, key, type, id) =>
            key[1] = source /\ key[2] \in {"health.issue", "health.restored"}
      /\ ReadsFailed(source, key, type, id) => key[1] = source /\ key[2] = "health.issue"
  BY DEF ReadsDeleted, ReadsHealth, ReadsFailed
<1>4. /\ ReadsUnknown(source, key, type, id) => key[1] = source /\ key[2] = "unknown"
      /\ ReadsStep(source, key, type, id) =>
            /\ key[1] = source
            /\ key[2] \in {"request.created", "request.approved", "request.declined"}
      /\ ReadsPair(source, key, type, id) =>
            key[1] = source /\ key[2] \in {"request.available", "watch.completed"}
      /\ ReadsPlay(source, key, type, id) =>
            key[1] = source /\ key[2] \in {"playback.started", "playback.stopped"}
  BY DEF ReadsUnknown, ReadsStep, ReadsPair, ReadsPlay
<1> QED
  BY <1>1, <1>2, <1>3, <1>4 DEF Reads

LEMMA ReadOnce ==
    ASSUME NEW source, NEW key, NEW t, NEW i, NEW u, NEW j,
           Reads(source, key, t, i), Reads(source, key, u, j)
    PROVE  t = u /\ i = j
<1>1. CASE ReadsTitle(source, key, t, i)
  <2>1. key[2] = t /\ t \in Grabs
    BY <1>1, Segments DEF ReadsTitle
  <2>2. ReadsTitle(source, key, u, j)
    BY <2>1, Segments DEF Reads, Grabs
  <2>3. PICK a1, p1, l1 : /\ i = <<a1, p1, l1>> /\ OfParts(source, p1)
                          /\ key = <<source, t, a1>> \o p1 \o <<l1>>
    BY <1>1 DEF ReadsTitle
  <2>4. PICK a2, p2, l2 : /\ j = <<a2, p2, l2>> /\ OfParts(source, p2)
                          /\ key = <<source, u, a2>> \o p2 \o <<l2>>
    BY <2>2 DEF ReadsTitle
  <2>5. \/ source = "radarr" /\ p1 = << >> /\ key = <<source, t, a1, l1>>
        \/ source # "radarr" /\ \E q : p1 = <<q>> /\ key = <<source, t, a1, q, l1>>
    BY <2>3, TitleTail
  <2>6. \/ source = "radarr" /\ p2 = << >> /\ key = <<source, u, a2, l2>>
        \/ source # "radarr" /\ \E q : p2 = <<q>> /\ key = <<source, u, a2, q, l2>>
    BY <2>4, TitleTail
  <2>7. CASE source = "radarr"
    BY <2>3, <2>4, <2>5, <2>6, <2>7
  <2>8. CASE source # "radarr"
    <3>1. PICK q1 : p1 = <<q1>> /\ key = <<source, t, a1, q1, l1>>
      BY <2>5, <2>8
    <3>2. PICK q2 : p2 = <<q2>> /\ key = <<source, u, a2, q2, l2>>
      BY <2>6, <2>8
    <3>3. t = u /\ a1 = a2 /\ q1 = q2 /\ l1 = l2
      BY <3>1, <3>2
    <3> QED
      BY <2>3, <2>4, <3>1, <3>2, <3>3
  <2> QED
    BY <2>7, <2>8
<1>2. CASE ReadsFile(source, key, t, i)
  <2>1. t = "media.deleted" /\ key[2] = t /\ key[3] = "file"
    BY <1>2, Segments DEF ReadsFile
  <2>2. ReadsFile(source, key, u, j)
    BY <2>1, Segments DEF Reads, Grabs
  <2>3. PICK a1, p1, l1 : /\ i = <<a1, p1, l1>> /\ OfParts(source, p1)
                          /\ key = <<source, t, "file", a1>> \o p1 \o <<l1>>
    BY <1>2 DEF ReadsFile
  <2>4. PICK a2, p2, l2 : /\ j = <<a2, p2, l2>> /\ OfParts(source, p2)
                          /\ key = <<source, u, "file", a2>> \o p2 \o <<l2>>
    BY <2>2 DEF ReadsFile
  <2>5. \/ source = "radarr" /\ p1 = << >> /\ key = <<source, t, "file", a1, l1>>
        \/ source # "radarr" /\ \E q : p1 = <<q>> /\ key = <<source, t, "file", a1, q, l1>>
    BY <2>3, FileTail
  <2>6. \/ source = "radarr" /\ p2 = << >> /\ key = <<source, u, "file", a2, l2>>
        \/ source # "radarr" /\ \E q : p2 = <<q>> /\ key = <<source, u, "file", a2, q, l2>>
    BY <2>4, FileTail
  <2>7. CASE source = "radarr"
    BY <2>3, <2>4, <2>5, <2>6, <2>7
  <2>8. CASE source # "radarr"
    <3>1. PICK q1 : p1 = <<q1>> /\ key = <<source, t, "file", a1, q1, l1>>
      BY <2>5, <2>8
    <3>2. PICK q2 : p2 = <<q2>> /\ key = <<source, u, "file", a2, q2, l2>>
      BY <2>6, <2>8
    <3>3. t = u /\ a1 = a2 /\ q1 = q2 /\ l1 = l2
      BY <3>1, <3>2
    <3> QED
      BY <2>3, <2>4, <3>1, <3>2, <3>3
  <2> QED
    BY <2>7, <2>8
<1>3. CASE ReadsDeleted(source, key, t, i)
  <2>1. t = "media.deleted" /\ key[2] = t /\ key[3] # "file"
    BY <1>3, Segments DEF ReadsDeleted
  <2>2. ReadsDeleted(source, key, u, j)
    BY <2>1, Segments DEF Reads, Grabs
  <2> QED
    BY <1>3, <2>2 DEF ReadsDeleted
<1>4. CASE ReadsHealth(source, key, t, i) \/ ReadsFailed(source, key, t, i)
  <2>1. key[2] \in {"health.issue", "health.restored"}
    BY <1>4, Segments
  <2>2. ReadsHealth(source, key, u, j) \/ ReadsFailed(source, key, u, j)
    BY <2>1, Segments DEF Reads, Grabs
  <2> QED
    BY <1>4, <2>2 DEF ReadsHealth, ReadsFailed
<1>5. CASE ReadsUnknown(source, key, t, i)
  <2>1. key[2] = "unknown"
    BY <1>5, Segments
  <2>2. ReadsUnknown(source, key, u, j)
    BY <2>1, Segments DEF Reads, Grabs
  <2> QED
    BY <1>5, <2>2 DEF ReadsUnknown
<1>6. CASE ReadsStep(source, key, t, i)
  <2>1. key[2] = t /\ t \in {"request.created", "request.approved", "request.declined"}
    BY <1>6, Segments DEF ReadsStep
  <2>2. ReadsStep(source, key, u, j)
    BY <2>1, Segments DEF Reads, Grabs
  <2> QED
    BY <1>6, <2>2 DEF ReadsStep
<1>7. CASE ReadsPair(source, key, t, i)
  <2>1. key[2] = t /\ t \in {"request.available", "watch.completed"}
    BY <1>7, Segments DEF ReadsPair
  <2>2. ReadsPair(source, key, u, j)
    BY <2>1, Segments DEF Reads, Grabs
  <2> QED
    BY <1>7, <2>2 DEF ReadsPair
<1>8. CASE ReadsPlay(source, key, t, i)
  <2>1. key[2] = t /\ t \in {"playback.started", "playback.stopped"}
    BY <1>8, Segments DEF ReadsPlay
  <2>2. ReadsPlay(source, key, u, j)
    BY <2>1, Segments DEF Reads, Grabs
  <2> QED
    BY <1>8, <2>2 DEF ReadsPlay
<1> QED
  BY <1>1, <1>2, <1>3, <1>4, <1>5, <1>6, <1>7, <1>8 DEF Reads

\* What a key is read as is what its fact has.
OwnKey(f, key) == \E id \in IdsOf(f) : Reads(HookOf[f].source, key, Main[f].type, id)

LEMMA TitleRead ==
    ASSUME NEW f \in Facts, Arr(HookOf[f]), HookOf[f].event \in {"Grab", "Download"},
           NEW key \in KeysOf[f]
    PROVE  OwnKey(f, key)
<1> DEFINE p == HookOf[f]
           own == Or(p.download, IF p.event = "Grab" THEN p.body ELSE p.file)
<1>1. Main[f].type = TypeFor(p) /\ TypeFor(p) \in Grabs
  BY ArrMain DEF TypeFor, Grabs
<1>2. /\ <<TitleKey(p), Parts(p.source, p.episodes), own>> \in IdsOf(f)
      /\ \A r \in RecordsOf[f] :
            <<TitleKey(p), Parts(p.source, r.episodes), Or(r.download, r.id)>> \in IdsOf(f)
  BY DEF IdsOf, ArrIds
<1>3. ASSUME NEW episodes, NEW last,
             <<TitleKey(p), Parts(p.source, episodes), last>> \in IdsOf(f),
             key = GrabKey(p, episodes, last)
      PROVE  OwnKey(f, key)
  <2>1. OfParts(p.source, Parts(p.source, episodes))
    BY PartsAre
  <2>2. ReadsTitle(p.source, key, TypeFor(p), <<TitleKey(p), Parts(p.source, episodes), last>>)
    BY <1>1, <1>3, <2>1 DEF ReadsTitle, GrabKey
  <2> QED
    BY <1>1, <1>3, <2>2 DEF OwnKey, Reads
<1>4. CASE key = Main[f].key
  <2>1. Main[f].key = GrabKey(p, p.episodes, own)
    <3>1. CASE p.event = "Grab"
      <4>1. Main[f] = ArrGrab(p) /\ TypeFor(p) = "media.grabbed" /\ own = Or(p.download, p.body)
        BY <3>1, ArrMain DEF TypeFor
      <4> HIDE DEF own
      <4> QED
        BY <4>1 DEF ArrGrab, Event, GrabKey
    <3>2. CASE p.event = "Download"
      <4>1. /\ Main[f] = ArrImport(p) /\ own = Or(p.download, p.file)
            /\ TypeFor(p) = IF p.upgrade THEN "media.upgraded" ELSE "media.imported"
        BY <3>2, ArrMain DEF TypeFor
      <4> HIDE DEF own
      <4> QED
        BY <4>1 DEF ArrImport, Event, GrabKey
    <3> QED
      BY <3>1, <3>2
  <2> HIDE DEF own
  <2> QED
    BY <1>2, <1>3, <1>4, <2>1
<1>5. ASSUME NEW x \in Items[f], key = x.event.key
      PROVE  OwnKey(f, key)
  <2>1. PICK r \in RecordsOf[f] : x.event.key = GrabKey(p, r.episodes, Or(p.download, r.id))
    BY GrabKeys
  <2>2. r.download = p.download
    <3>1. Agrees(r, p)
      BY RecordsAssumption
    <3> QED
      BY <3>1 DEF Agrees, Arr
  <2> QED
    BY <1>2, <1>3, <1>5, <2>1, <2>2
<1> QED
  BY <1>4, <1>5 DEF KeysOf

LEMMA FileRead ==
    ASSUME NEW f \in Facts, Arr(HookOf[f]), HookOf[f].event = "FileDelete", NEW key \in KeysOf[f]
    PROVE  OwnKey(f, key)
<1> DEFINE p == HookOf[f]
<1>1. Main[f] = ArrFileDelete(p) /\ Main[f].type = "media.deleted"
  BY ArrMain DEF TypeFor
<1>2. /\ <<TitleKey(p), Parts(p.source, p.episodes), p.file>> \in IdsOf(f)
      /\ \A r \in RecordsOf[f] :
            <<TitleKey(p), Parts(p.source, r.episodes), Or(r.download, r.id)>> \in IdsOf(f)
  BY DEF IdsOf, ArrIds
<1>3. ASSUME NEW episodes, NEW last,
             <<TitleKey(p), Parts(p.source, episodes), last>> \in IdsOf(f),
             key = <<p.source, "media.deleted", "file", TitleKey(p)>>
                       \o Parts(p.source, episodes) \o <<last>>
      PROVE  OwnKey(f, key)
  <2>1. OfParts(p.source, Parts(p.source, episodes))
    BY PartsAre
  <2>2. ReadsFile(p.source, key, "media.deleted",
                  <<TitleKey(p), Parts(p.source, episodes), last>>)
    BY <1>3, <2>1 DEF ReadsFile
  <2> QED
    BY <1>1, <1>3, <2>2 DEF OwnKey, Reads
<1>4. CASE key = Main[f].key
  <2>1. key = <<p.source, "media.deleted", "file", TitleKey(p)>>
                  \o Parts(p.source, p.episodes) \o <<p.file>>
    BY <1>1, <1>4 DEF ArrFileDelete, Event
  <2> QED
    BY <1>2, <1>3, <2>1
<1>5. ASSUME NEW x \in Items[f], key = x.event.key
      PROVE  OwnKey(f, key)
  <2>1. PICK r \in RecordsOf[f] : /\ Agrees(r, p) /\ x.event = ArrRecord(r)[1]
                                  /\ ArrRecordType(r) # None
    BY ArrItems
  <2>2. ArrRecordType(r) = "media.deleted"
    <3>1. x.event.type = ArrRecordType(r)
      BY <2>1 DEF ArrRecord, Event
    <3> QED
      BY <3>1, ArrItemType DEF TypeFor
  <2>3. r.source = p.source /\ TitleKey(r) = TitleKey(p)
    BY <2>1 DEF Agrees, Arr
  <2>4. x.event.key = <<r.source, "media.deleted">> \o <<"file">> \o <<TitleKey(r)>>
                          \o Parts(r.source, r.episodes) \o <<Or(r.download, r.id)>>
    BY <2>1, <2>2 DEF ArrRecord, Event
  <2>5. /\ <<r.source, "media.deleted">> \o <<"file">> = <<r.source, "media.deleted", "file">>
        /\ <<r.source, "media.deleted", "file">> \o <<TitleKey(r)>>
               = <<r.source, "media.deleted", "file", TitleKey(r)>>
    BY TwoAndOne, ThreeAndOne
  <2>6. key = <<p.source, "media.deleted", "file", TitleKey(p)>>
                  \o Parts(p.source, r.episodes) \o <<Or(r.download, r.id)>>
    BY <1>5, <2>3, <2>4, <2>5
  <2> QED
    BY <1>2, <1>3, <2>6
<1> QED
  BY <1>4, <1>5 DEF KeysOf

LEMMA OtherArrRead ==
    ASSUME NEW f \in Facts, Arr(HookOf[f]),
           HookOf[f].event \notin {"Grab", "Download", "FileDelete"}, NEW key \in KeysOf[f]
    PROVE  OwnKey(f, key)
<1> DEFINE p == HookOf[f]
           s == p.source
<1>1. key = Main[f].key
  BY ArrItems DEF KeysOf
<1>2. Main[f] = ArrHook(p)[1]
  <2>1. Hook[f] = ArrHook(p)
    BY DEF Hook, Normalized, Arr
  <2>2. Hook[f] = << Main[f] >>
    BY ArrMain
  <2> QED
    BY <2>1, <2>2
<1>3. CASE p.event = "TitleDelete"
  <2>1. Main[f] = ArrTitleDelete(p)
    BY <1>2, <1>3 DEF ArrHook
  <2>2. Main[f].type = "media.deleted" /\ key = <<s, "media.deleted", Kind(p.t), TitleKey(p)>>
    BY <1>1, <2>1 DEF ArrTitleDelete, Event
  <2>3. Kind(p.t) \in {"movie", "series"}
    BY DEF Kind
  <2>4. <<Kind(p.t), TitleKey(p)>> \in IdsOf(f)
    BY <1>3 DEF IdsOf, ArrIds
  <2>5. ReadsDeleted(s, key, "media.deleted", <<Kind(p.t), TitleKey(p)>>)
    BY <2>2, <2>3 DEF ReadsDeleted
  <2> QED
    BY <2>2, <2>4, <2>5 DEF OwnKey, Reads
<1>4. CASE p.event \in {"Health", "HealthRestored"}
  <2>1. Main[f] = ArrHealth(p, IF p.event = "Health" THEN "health.issue" ELSE "health.restored")
    BY <1>2, <1>4 DEF ArrHook
  <2>2. /\ Main[f].type = "health.issue"
        /\ key = <<s, IF p.event = "Health" THEN "health.issue" ELSE "health.restored",
                   p.check, p.message>>
    BY <1>1, <2>1 DEF ArrHealth, Event
  <2>3. <<p.event, p.check, p.message>> \in IdsOf(f)
    BY <1>4 DEF IdsOf, ArrIds
  <2>4. ReadsHealth(s, key, "health.issue", <<p.event, p.check, p.message>>)
    BY <1>4, <2>2 DEF ReadsHealth, Arr
  <2> QED
    BY <2>2, <2>3, <2>4 DEF OwnKey, Reads
<1>5. CASE p.event \notin {"TitleDelete", "Health", "HealthRestored"}
  <2>1. Main[f] = Unknown(p)
    BY <1>2, <1>5 DEF ArrHook
  <2>2. Main[f].type = "source.unknown" /\ key = <<s, "unknown", p.event, p.body>>
    BY <1>1, <2>1 DEF Unknown, Event
  <2>3. <<p.event, p.body>> \in IdsOf(f)
    BY <1>5 DEF IdsOf, ArrIds
  <2>4. ReadsUnknown(s, key, "source.unknown", <<p.event, p.body>>)
    BY <2>2 DEF ReadsUnknown
  <2> QED
    BY <2>2, <2>3, <2>4 DEF OwnKey, Reads
<1> QED
  BY <1>3, <1>4, <1>5

LEMMA SeerrRead ==
    ASSUME NEW f \in Facts, HookOf[f].source = "seerr", NEW key \in KeysOf[f]
    PROVE  OwnKey(f, key)
<1> DEFINE p == HookOf[f]
           type == SeerrType(p.event)
           status == Or(p.status, "AVAILABLE")
<1>1. key = Main[f].key
  BY SeerrNames DEF KeysOf
<1>2. Main[f] = SeerrHook(p)[1]
  <2>1. Hook[f] = SeerrHook(p) /\ Main[f] = Hook[f][Len(Hook[f])]
    BY DEF Hook, Main, Normalized
  <2>2. \E y : SeerrHook(p) = <<y>>
    BY DEF SeerrHook
  <2> QED
    BY <2>1, <2>2
<1>3. IdsOf(f) = SeerrIds(f)
  BY DEF IdsOf, Arr
<1>4. type \in {"request.created", "request.approved", "request.declined", "request.available",
                None}
  BY DEF SeerrType
<1>5. CASE p.request # None /\ type # None /\ type = "request.available"
  <2>1. Main[f] = Event(type, <<p.source, type, p.request>> \o <<status>>, SeerrHookRef(p))
    BY <1>2, <1>5 DEF SeerrHook
  <2>2. <<p.source, "request.available", p.request>> \o <<status>>
            = <<p.source, "request.available", p.request, status>>
    BY ThreeAndOne
  <2>3. /\ Main[f].type = "request.available"
        /\ key = <<p.source, "request.available", p.request, status>>
    BY <1>1, <1>5, <2>1, <2>2 DEF Event
  <2>4. <<p.request, status>> \in IdsOf(f)
    BY <1>3, <2>3 DEF SeerrIds
  <2>5. ReadsPair(p.source, key, "request.available", <<p.request, status>>)
    BY <2>3 DEF ReadsPair
  <2> QED
    BY <2>3, <2>4, <2>5 DEF OwnKey, Reads
<1>6. CASE p.request # None /\ type # None /\ type # "request.available"
  <2>1. Main[f] = Event(type, <<p.source, type, p.request>> \o << >>, SeerrHookRef(p))
    BY <1>2, <1>6 DEF SeerrHook
  <2>2. Main[f].type = type /\ key = <<p.source, type, p.request>>
    BY <1>1, <2>1 DEF Event
  <2>3. type \in {"request.created", "request.approved", "request.declined"}
    BY <1>4, <1>6
  <2>4. <<p.request>> \in IdsOf(f)
    BY <1>3, <2>2, <2>3 DEF SeerrIds
  <2>5. ReadsStep(p.source, key, type, <<p.request>>)
    BY <2>2, <2>3 DEF ReadsStep
  <2> QED
    BY <2>2, <2>4, <2>5 DEF OwnKey, Reads
<1>7. CASE p.request # None /\ type = None /\ p.event = "MEDIA_FAILED"
  <2>1. Main[f] = Event("health.issue", <<p.source, "health.issue", "request", p.request>>,
                        SeerrHookRef(p))
    BY <1>2, <1>7 DEF SeerrHook
  <2>2. /\ Main[f].type = "health.issue"
        /\ key = <<p.source, "health.issue", "request", p.request>>
    BY <1>1, <2>1 DEF Event
  <2>3. <<p.request>> \in IdsOf(f)
    BY <1>3, <2>2 DEF SeerrIds
  <2>4. ReadsFailed(p.source, key, "health.issue", <<p.request>>)
    BY <2>2 DEF ReadsFailed
  <2> QED
    BY <2>2, <2>3, <2>4 DEF OwnKey, Reads
<1>8. CASE p.request = None \/ (type = None /\ p.event # "MEDIA_FAILED")
  <2>1. Main[f] = Unknown(p)
    BY <1>2, <1>8 DEF SeerrHook
  <2>2. Main[f].type = "source.unknown" /\ key = <<p.source, "unknown", p.event, p.body>>
    BY <1>1, <2>1 DEF Unknown, Event
  <2>3. <<p.event, p.body>> \in IdsOf(f)
    BY <1>3, <2>2 DEF SeerrIds
  <2>4. ReadsUnknown(p.source, key, "source.unknown", <<p.event, p.body>>)
    BY <2>2 DEF ReadsUnknown
  <2> QED
    BY <2>2, <2>3, <2>4 DEF OwnKey, Reads
<1> QED
  BY <1>5, <1>6, <1>7, <1>8

LEMMA TautulliRead ==
    ASSUME NEW f \in Facts, HookOf[f].source = "tautulli", NEW key \in KeysOf[f]
    PROVE  OwnKey(f, key)
<1> DEFINE p == HookOf[f]
           s == p.source
<1>1. IdsOf(f) = TautulliIds(f)
  BY DEF IdsOf, Arr
<1>2. Main[f] \in {Playback(p, "playback.started"), Playback(p, "playback.stopped"),
                   Unknown(p), Watched(p)}
  <2>1. Hook[f] = TautulliHook(p) /\ Main[f] = Hook[f][Len(Hook[f])]
    BY DEF Hook, Main, Normalized
  <2>2. \/ TautulliHook(p) = << Playback(p, "playback.started") >>
        \/ TautulliHook(p) = << Playback(p, "playback.stopped") >>
        \/ TautulliHook(p) = << Unknown(p) >>
        \/ TautulliHook(p) = << Watched(p) >>
        \/ TautulliHook(p) = << Playback(p, "playback.stopped"), Watched(p) >>
    BY DEF TautulliHook
  <2>3. \A y : TautulliHook(p) = <<y>> => Main[f] = y
    BY <2>1
  <2>4. \A y, z : TautulliHook(p) = <<y, z>> => Main[f] = z
    BY <2>1
  <2> QED
    BY <2>2, <2>3, <2>4
<1>3. ASSUME NEW x \in Items[f], x.event.type = Main[f].type, key = x.event.key
      PROVE  OwnKey(f, key)
  <2>1. PICK r \in RecordsOf[f] :
            Agrees(r, p) /\ \E i \in DOMAIN Recorded(r) : x.event = Recorded(r)[i]
    BY ItemFields
  <2>2. r.source = s
    BY <2>1 DEF Agrees
  <2>3. Recorded(r) = TautulliRecord(r)
    BY <2>2 DEF Recorded
  <2> DEFINE y == Event("watch.completed", <<r.source, "watch.completed", UserKey(r), r.item>>,
                        Ref(Kind(r.t), None, None, None, r.t.title, r.t.year))
  <2>4. TautulliRecord(r) = <<y>> \/ TautulliRecord(r) = << >>
    BY DEF TautulliRecord
  <2>5. x.event = y
    <3> HIDE DEF y
    <3> QED
      BY <2>1, <2>3, <2>4
  <2>6. /\ Main[f].type = "watch.completed"
        /\ key = <<s, "watch.completed", UserKey(r), r.item>>
    BY <1>3, <2>2, <2>5 DEF Event
  <2>7. <<UserKey(r), r.item>> \in IdsOf(f)
    BY <1>1, <2>6 DEF TautulliIds
  <2>8. ReadsPair(s, key, "watch.completed", <<UserKey(r), r.item>>)
    BY <2>6 DEF ReadsPair
  <2> QED
    BY <2>6, <2>7, <2>8 DEF OwnKey, Reads
<1>4. ASSUME key = Main[f].key, NEW type \in {"playback.started", "playback.stopped"},
             Main[f] = Playback(p, type)
      PROVE  OwnKey(f, key)
  <2> DEFINE id == <<UserKey(p), Or(p.session, "nosession"), ItemKey(p)>>
  <2>1. /\ Main[f].type = type
        /\ key = <<s, type, UserKey(p), Or(p.session, "nosession"), ItemKey(p)>>
    BY <1>4 DEF Playback, Event
  <2>2. id \in IdsOf(f)
    BY <1>1, <2>1 DEF TautulliIds
  <2>3. ReadsPlay(s, key, type, id)
    BY <2>1 DEF ReadsPlay
  <2> QED
    BY <2>1, <2>2, <2>3 DEF OwnKey, Reads
<1>5. CASE key = Main[f].key /\ Main[f] = Watched(p)
  <2>1. /\ Main[f].type = "watch.completed"
        /\ key = <<s, "watch.completed", UserKey(p), ItemKey(p)>>
    BY <1>5 DEF Watched, Event
  <2>2. <<UserKey(p), ItemKey(p)>> \in IdsOf(f)
    BY <1>1, <2>1 DEF TautulliIds
  <2>3. ReadsPair(s, key, "watch.completed", <<UserKey(p), ItemKey(p)>>)
    BY <2>1 DEF ReadsPair
  <2> QED
    BY <2>1, <2>2, <2>3 DEF OwnKey, Reads
<1>6. CASE key = Main[f].key /\ Main[f] = Unknown(p)
  <2>1. Main[f].type = "source.unknown" /\ key = <<s, "unknown", p.event, p.body>>
    BY <1>6 DEF Unknown, Event
  <2>2. <<p.event, p.body>> \in IdsOf(f)
    BY <1>1, <2>1 DEF TautulliIds
  <2>3. ReadsUnknown(s, key, "source.unknown", <<p.event, p.body>>)
    BY <2>1 DEF ReadsUnknown
  <2> QED
    BY <2>1, <2>2, <2>3 DEF OwnKey, Reads
<1> QED
  BY <1>2, <1>3, <1>4, <1>5, <1>6 DEF KeysOf

\* No two facts share a key: the layouts of the two derivations never meet, and
\* within one the ids do not.
LEMMA KeysApart ==
    ASSUME IdsApart, NEW f \in Facts, NEW g \in Facts, f # g
    PROVE  KeysOf[f] \cap KeysOf[g] = {}
<1> SUFFICES ASSUME NEW key \in KeysOf[f], key \in KeysOf[g]
             PROVE  FALSE
  OBVIOUS
<1>1. ASSUME NEW h \in Facts, key \in KeysOf[h]
      PROVE  OwnKey(h, key) /\ key[1] = HookOf[h].source
  <2>1. OwnKey(h, key)
    BY <1>1, TitleRead, FileRead, OtherArrRead, SeerrRead, TautulliRead, FactsAssumption DEF Arr
  <2>2. PICK id \in IdsOf(h) : Reads(HookOf[h].source, key, Main[h].type, id)
    BY <2>1 DEF OwnKey
  <2> QED
    BY <2>1, <2>2, Segments
<1>2. PICK id \in IdsOf(f) : Reads(HookOf[f].source, key, Main[f].type, id)
  BY <1>1 DEF OwnKey
<1>3. PICK jd \in IdsOf(g) : Reads(HookOf[g].source, key, Main[g].type, jd)
  BY <1>1 DEF OwnKey
<1>4. HookOf[f].source = HookOf[g].source
  BY <1>1
<1>5. Main[f].type = Main[g].type /\ id = jd
  BY <1>2, <1>3, <1>4, ReadOnce
<1> QED
  BY <1>4, <1>5 DEF IdsApart

\* Nothing else has a name of a pack or of a deleted file, not even for another step
\* of the same request or another event of the same body.
NamesOf(f) ==
    {Hook[f][i].key : i \in DOMAIN Hook[f]} \cup {x.event.key : x \in Items[f]}

FactsApart ==
    \A f, g \in Facts :
        f # g /\ (Delete(f) \/ Pack(f)) => NamesOf(g) \cap KeysOf[f] = {}

\* Every key begins with its source.
LEMMA NamesBegin ==
    ASSUME NEW f \in Facts, ~Arr(HookOf[f]), NEW key \in NamesOf(f)
    PROVE  key[1] = HookOf[f].source
<1> DEFINE p == HookOf[f]
<1>1. CASE \E x \in Items[f] : key = x.event.key
  <2>1. PICK x \in Items[f] : key = x.event.key
    BY <1>1
  <2>2. CASE p.source = "seerr"
    <3>1. \/ key = <<p.source, x.event.type, p.request>>
          \/ \E status : key = <<p.source, x.event.type, p.request, status>>
      BY <2>1, <2>2, SeerrItem
    <3> QED
      BY <3>1
  <2>3. CASE p.source = "tautulli"
    <3>1. \E user : key = <<p.source, "watch.completed", user, p.item>>
      BY <2>1, <2>3, TautulliItem
    <3> QED
      BY <3>1
  <2> QED
    BY <2>2, <2>3, FactsAssumption DEF Arr
<1>2. CASE \E i \in DOMAIN Hook[f] : key = Hook[f][i].key
  <2>1. CASE p.source = "seerr"
    <3>1. Hook[f] = << Main[f] >>
      <4>1. Hook[f] = SeerrHook(p) /\ Main[f] = Hook[f][Len(Hook[f])]
        BY <2>1 DEF Hook, Main, Normalized
      <4>2. \E y : SeerrHook(p) = <<y>>
        BY DEF SeerrHook
      <4> QED
        BY <4>1, <4>2
    <3>2. key = Main[f].key
      BY <1>2, <3>1
    <3>3. key \in KeysOf[f]
      BY <3>2 DEF KeysOf
    <3> QED
      BY <2>1, <3>3, SeerrRead, Segments DEF OwnKey
  <2>2. CASE p.source = "tautulli"
    <3>1. Hook[f] = TautulliHook(p)
      BY <2>2 DEF Hook, Normalized
    <3>2. \A i \in DOMAIN TautulliHook(p) :
              TautulliHook(p)[i] \in {Playback(p, "playback.started"),
                                      Playback(p, "playback.stopped"), Watched(p), Unknown(p)}
      BY DEF TautulliHook
    <3>3. key \in {Playback(p, "playback.started").key, Playback(p, "playback.stopped").key,
                   Watched(p).key, Unknown(p).key}
      BY <1>2, <3>1, <3>2
    <3>4. \/ \E a, b, c, d : key = <<p.source, a, b, c, d>>
          \/ \E a, b, c : key = <<p.source, a, b, c>>
      BY <3>3 DEF Playback, Watched, Unknown, Event
    <3> QED
      BY <3>4
  <2> QED
    BY <2>1, <2>2, FactsAssumption DEF Arr
<1> QED
  BY <1>1, <1>2 DEF NamesOf

LEMMA ApartById ==
    ASSUME IdsApart
    PROVE  FactsApart
<1> SUFFICES ASSUME NEW f \in Facts, NEW g \in Facts, f # g, Delete(f) \/ Pack(f),
                    NEW key \in NamesOf(g), key \in KeysOf[f]
             PROVE  FALSE
  BY DEF FactsApart
<1>1. Arr(HookOf[f])
  BY DEF Delete, Pack
<1>2. key[1] = HookOf[f].source
  BY <1>1, TitleRead, FileRead, Segments DEF Delete, Pack, OwnKey
<1>3. CASE Arr(HookOf[g])
  <2>1. Hook[g] = << Main[g] >>
    BY <1>3, ArrMain
  <2>2. CASE key = Main[g].key
    BY <2>2, KeysApart DEF KeysOf
  <2>3. CASE \E x \in Items[g] : key = x.event.key
    <3>1. PICK x \in Items[g] : key = x.event.key
      BY <2>3
    <3>2. x.event.type = Main[g].type
      BY <1>3, ArrItems, ArrItemType, ArrMain
    <3> QED
      BY <3>1, <3>2, KeysApart DEF KeysOf
  <2> QED
    BY <2>1, <2>2, <2>3 DEF NamesOf
<1>4. CASE ~Arr(HookOf[g])
  BY <1>1, <1>2, <1>4, NamesBegin DEF Arr
<1> QED
  BY <1>3, <1>4

\* Two facts are never one event.  The layouts that the four normalizers and the
\* three readers of the reconcile job give their keys, of different lengths and
\* with or without the segments of an episode or of the scope of a delete, never
\* meet, whatever the ids are; within a source and a type the ids alone decide.
THEOREM StayApart ==
    ASSUME IdsApart
    PROVE  Spec => []FactsStayApart
<1>1. FactsStayApart
  BY KeysApart DEF FactsStayApart, EventsOf
<1> QED
  BY <1>1, PTL

-----------------------------------------------------------------------------
\* One event per fact

\* What is stored of a deleted file is a delete of its title, within its day
\* unless the webhook was late.
DeletesInTime(f) ==
    \A e \in EventsOf(f) :
        /\ e.type = "media.deleted"
        /\ e.ref \in RefsOf(f)
        /\ f \notin late => e.at \in AtOf[f] .. AtOf[f] + 1

\* While the webhook of f was not behind the job, f has at most one event, and
\* none while the job is about to apply a record of it.
Once(f) ==
    f \notin late =>
        /\ \A d, e \in EventsOf(f) : d = e
        /\ (\E c \in cur : c[1].fact = f) => EventsOf(f) = {}

OnceInv == \A f \in Facts : /\ Delete(f) => DeletesInTime(f)
                            /\ Delete(f) \/ Pack(f) => Once(f)

\* The refs of a delete have the kind and the tmdb id of its title.
LEMMA DeleteRefs ==
    ASSUME DeletesHaveTmdb, NEW f \in Facts, Delete(f), NEW r \in RefsOf(f), NEW s \in RefsOf(f)
    PROVE  r # None /\ r.tmdb # None /\ r.kind = s.kind /\ r.tmdb = s.tmdb
<1>1. Main[f].ref = ArrHookRef(HookOf[f])
  BY ArrMain DEF Delete
<1>2. \A ref \in RefsOf(f) : ref # None /\ ref.tmdb # None
  BY DEF DeletesHaveTmdb
<1>3. \A ref \in RefsOf(f) : /\ ref.kind = ArrHookRef(HookOf[f]).kind
                             /\ ref.tmdb = ArrHookRef(HookOf[f]).tmdb
  <2>1. ArrHookRef(HookOf[f]).tmdb # None
    BY <1>1, <1>2 DEF RefsOf
  <2> QED
    BY <1>1, <1>2, <2>1, ArrItemType DEF Delete, RefsOf
<1> QED
  BY <1>2, <1>3

LEMMA NearFinds ==
    ASSUME DeletesHaveTmdb, PointsAtTmdb, TmdbUnique, NEW f \in Facts, Delete(f), DeletesInTime(f),
           f \notin late, NEW e \in EventsOf(f), NEW x \in Items[f], NEW m \in RowsFor(x.event.ref)
    PROVE  Near("media.deleted", m, AtOf[f])
<1> DEFINE ref == x.event.ref
<1>1. e \in events /\ e.type = "media.deleted"
  BY DEF EventsOf, DeletesInTime
<1>2. /\ e.ref # None /\ e.ref.tmdb # None /\ ref # None /\ ref.tmdb # None
      /\ e.ref.kind = ref.kind /\ e.ref.tmdb = ref.tmdb
  <2>1. e.ref \in RefsOf(f) /\ ref \in RefsOf(f)
    BY DEF DeletesInTime, RefsOf
  <2> QED
    BY <2>1, DeleteRefs
<1>3. <<e.media, e.ref>> \in Points
  BY <1>1 DEF Points
<1>4. e.media \in DOMAIN media /\ media[e.media].kind = ref.kind /\ media[e.media].tmdb = ref.tmdb
  BY <1>2, <1>3 DEF PointsAtTmdb, AtTmdb
<1>5. e.media \in ByTmdb(ref)
  BY <1>2, <1>4 DEF ByTmdb, KindMatches, Same
<1>6. m \in ByTmdb(ref)
  BY <1>2, <1>5 DEF RowsFor, Matches, HasId
<1>7. m = e.media
  BY <1>4, <1>5, <1>6 DEF ByTmdb, KindMatches, Same, TmdbUnique
<1>8. AtOf[f] \in Nat /\ e.at \in AtOf[f] .. AtOf[f] + 1
  BY DaysAssumption DEF DeletesInTime
<1>9. e.at - AtOf[f] <= 1 /\ AtOf[f] - e.at <= 1
  BY <1>8
<1> QED
  BY <1>1, <1>7, <1>9 DEF Near

\* Only its own webhook and records store anything under the names of a pack or a
\* deleted file.
LEMMA OwnEvents ==
    ASSUME FactsApart, CurIsItem, [Next]_vars, NEW f \in Facts, Delete(f) \/ Pack(f)
    PROVE  \/ EventsOf(f)' = EventsOf(f)
           \/ \E m : \E delay \in Delays[f] :
                 /\ Delivered(f, m, delay)
                 /\ EventsOf(f)' \subseteq EventsOf(f) \cup Inserted(Hook[f], m, AtOf[f] + delay)
           \/ \E c \in cur : \E m :
                 /\ Apply(c[1], c[2]) /\ c[1] \in Items[f]
                 /\ EventsOf(f)' \subseteq EventsOf(f) \cup Inserted(<<c[1].event>>, m, AtOf[f])
<1>1. CASE UNCHANGED events
  BY <1>1 DEF EventsOf
<1>2. ASSUME NEW g \in Facts, g # f, NEW m, NEW at,
             events' = events \cup Inserted(Hook[g], m, at)
      PROVE  EventsOf(f)' = EventsOf(f)
  <2>1. \A e \in Inserted(Hook[g], m, at) : e.key \notin KeysOf[f]
    BY <1>2, InsertedRows DEF FactsApart, NamesOf
  <2> QED
    BY <1>2, <2>1 DEF EventsOf
<1>3. ASSUME NEW g \in Facts, g # f, NEW x \in Items[g], NEW m, NEW at,
             events' = events \cup Inserted(<<x.event>>, m, at)
      PROVE  EventsOf(f)' = EventsOf(f)
  <2>1. \A e \in Inserted(<<x.event>>, m, at) : e.key = x.event.key
    BY InsertedRows
  <2>2. x.event.key \notin KeysOf[f]
    BY <1>3 DEF FactsApart, NamesOf
  <2> QED
    BY <1>3, <2>1, <2>2 DEF EventsOf
<1>4. ASSUME NEW m, NEW delay \in Delays[f], Delivered(f, m, delay)
      PROVE  EventsOf(f)' \subseteq EventsOf(f) \cup Inserted(Hook[f], m, AtOf[f] + delay)
  BY <1>4 DEF EventsOf, Delivered
<1>5. ASSUME NEW c \in cur, NEW m, Apply(c[1], c[2]),
             events' = events \cup Inserted(<<c[1].event>>, m, AtOf[c[1].fact])
      PROVE  \/ EventsOf(f)' = EventsOf(f)
             \/ /\ c[1] \in Items[f]
                /\ EventsOf(f)' \subseteq EventsOf(f) \cup Inserted(<<c[1].event>>, m, AtOf[f])
  <2>1. PICK g \in Facts : c[1] \in Items[g]
    BY DEF CurIsItem
  <2>2. c[1].fact = g
    BY <2>1, ItemFields
  <2>3. CASE g = f
    BY <1>5, <2>1, <2>2, <2>3 DEF EventsOf
  <2> QED
    BY <1>3, <1>5, <2>1, <2>3
<1>6. ASSUME NEW g \in Facts, NEW m, NEW delay \in Delays[g], Delivered(g, m, delay), g # f
      PROVE  EventsOf(f)' = EventsOf(f)
  BY <1>2, <1>6 DEF Delivered
<1>7. CASE \E g \in Facts : \E m : \E delay \in Delays[g] : Delivered(g, m, delay)
  BY <1>4, <1>6, <1>7
<1>8. CASE \E c \in cur : \E m :
              /\ Apply(c[1], c[2])
              /\ events' = events \cup Inserted(<<c[1].event>>, m, AtOf[c[1].fact])
  BY <1>5, <1>8
<1> QED
  BY <1>1, <1>7, <1>8, EventsChange

LEMMA LateGrows ==
    ASSUME [Next]_vars
    PROVE  late \subseteq late'
<1>1. ASSUME NEW f \in Facts, Deliver(f)
      PROVE  late \subseteq late'
  BY <1>1 DEF Deliver
<1>2. ASSUME NEW f \in Facts, NEW x \in Items[f], Skip(x) \/ LookNear(x) \/ Look(x)
      PROVE  UNCHANGED late
  BY <1>2 DEF Skip, LookNear, Look
<1> QED
  BY <1>1, <1>2 DEF Next, Apply, RunDies, vars

LEMMA DeletesStep ==
    ASSUME FactsApart, CurIsItem, [Next]_vars, NEW f \in Facts, Delete(f), DeletesInTime(f)
    PROVE  DeletesInTime(f)'
<1> DEFINE refs == RefsOf(f)
           Fits(e) == /\ e.type = "media.deleted" /\ e.ref \in refs
                      /\ f \notin late' => e.at \in AtOf[f] .. AtOf[f] + 1
<1>1. \A e \in EventsOf(f) : Fits(e)
  BY LateGrows DEF DeletesInTime
<1>2. AtOf[f] \in Nat /\ Delays[f] \subseteq Nat
  BY DaysAssumption
<1>3. Hook[f] = << Main[f] >> /\ Main[f].type = "media.deleted"
  BY ArrMain DEF Delete, TypeFor
<1>4. \A e \in EventsOf(f)' : Fits(e)
  <2>1. CASE EventsOf(f)' = EventsOf(f)
    BY <1>1, <2>1
  <2>2. ASSUME NEW m, NEW delay \in Delays[f], Delivered(f, m, delay),
               NEW e \in Inserted(Hook[f], m, AtOf[f] + delay)
        PROVE  Fits(e)
    <3>1. ~Stored(Main[f].key) /\ e.type = "media.deleted" /\ e.ref \in refs /\ e.at = AtOf[f] + delay
      BY <1>3, <2>2, InsertedRows DEF RefsOf
    <3>2. f \notin late' => e.at \in AtOf[f] .. AtOf[f] + 1
      <4>1. f \notin late' => ~(delay > 1)
        BY <2>2, <3>1 DEF Delivered
      <4>2. delay \in Nat
        BY <1>2
      <4> QED
        BY <1>2, <3>1, <4>1, <4>2
    <3> QED
      BY <3>1, <3>2
  <2>3. ASSUME NEW c \in cur, NEW m, c[1] \in Items[f],
               NEW e \in Inserted(<<c[1].event>>, m, AtOf[f])
        PROVE  Fits(e)
    <3>1. e.type = c[1].event.type /\ e.ref = c[1].event.ref /\ e.at = AtOf[f]
      BY InsertedRows
    <3>2. c[1].event.type = "media.deleted"
      BY <2>3, ArrItemType DEF Delete, TypeFor
    <3> QED
      BY <1>2, <2>3, <3>1, <3>2 DEF RefsOf
  <2> QED
    BY <1>1, <2>1, <2>2, <2>3, OwnEvents
<1> QED
  BY <1>4 DEF DeletesInTime

LEMMA OnceStep ==
    ASSUME FactsApart, DeletesHaveTmdb, CurIsItem, PointsAtTmdb, TmdbUnique, [Next]_vars,
           NEW f \in Facts, Delete(f) \/ Pack(f), Delete(f) => DeletesInTime(f), Once(f)
    PROVE  Once(f)'
<1> SUFFICES ASSUME f \notin late'
             PROVE  /\ \A d, e \in EventsOf(f)' : d = e
                    /\ (\E c \in cur' : c[1].fact = f) => EventsOf(f)' = {}
  BY DEF Once
<1>1. /\ \A d, e \in EventsOf(f) : d = e
      /\ (\E c \in cur : c[1].fact = f) => EventsOf(f) = {}
  BY LateGrows DEF Once
<1>2. f \notin late
  BY LateGrows
<1>3. Hook[f] = << Main[f] >>
  BY ArrMain DEF Delete, Pack
<1>4. ASSUME NEW y, NEW m, NEW at, NEW d \in Inserted(<<y>>, m, at), NEW e \in Inserted(<<y>>, m, at)
      PROVE  d = e /\ ~Stored(y.key)
  BY <1>4, InsertedRows
<1>5. \A d, e \in EventsOf(f)' : d = e
  <2>1. CASE EventsOf(f)' = EventsOf(f)
    BY <1>1, <2>1
  <2>2. ASSUME NEW m, NEW delay \in Delays[f], Delivered(f, m, delay),
               EventsOf(f)' \subseteq EventsOf(f) \cup Inserted(Hook[f], m, AtOf[f] + delay)
        PROVE  \A d, e \in EventsOf(f)' : d = e
    <3>1. CASE Stored(Main[f].key)
      <4>1. Inserted(Hook[f], m, AtOf[f] + delay) = {}
        BY <1>3, <1>4, <3>1
      <4> QED
        BY <1>1, <2>2, <4>1
    <3>2. CASE ~Stored(Main[f].key)
      <4>1. EventsOf(f) = {}
        BY <2>2, <3>2 DEF Delivered, BehindJob
      <4> QED
        BY <1>3, <1>4, <2>2, <4>1
    <3> QED
      BY <3>1, <3>2
  <2>3. ASSUME NEW c \in cur, NEW m, c[1] \in Items[f],
               EventsOf(f)' \subseteq EventsOf(f) \cup Inserted(<<c[1].event>>, m, AtOf[f])
        PROVE  \A d, e \in EventsOf(f)' : d = e
    <3>1. c[1].fact = f
      BY <2>3, ItemFields
    <3>2. EventsOf(f) = {}
      BY <1>1, <3>1
    <3> QED
      BY <1>4, <2>3, <3>2
  <2> QED
    BY <2>1, <2>2, <2>3, OwnEvents
<1>6. ASSUME NEW c \in cur', c[1].fact = f
      PROVE  EventsOf(f)' = {}
  <2>1. ASSUME NEW g \in Facts, NEW x \in Items[g], LookNear(x)
        PROVE  EventsOf(f)' = {}
    <3>1. EventsOf(f)' = EventsOf(f)
      BY <2>1 DEF LookNear, EventsOf
    <3>2. PICK m \in RowsFor(x.event.ref) :
              \/ UNCHANGED cur
              \/ cur' = {<<x, m>>} /\ ~Near("media.deleted", m, AtOf[x.fact])
      BY <2>1 DEF LookNear
    <3>3. CASE UNCHANGED cur
      BY <1>1, <1>6, <3>1, <3>3
    <3>4. CASE cur' = {<<x, m>>} /\ ~Near("media.deleted", m, AtOf[x.fact])
      <4>1. x.fact = f /\ g = f
        BY <1>6, <3>4, ItemFields
      <4>2. x.event.type = "media.deleted"
        BY <2>1 DEF LookNear
      <4>3. Delete(f)
        BY <4>1, <4>2, PackNames
      <4> QED
        BY <1>2, <3>1, <3>4, <4>1, <4>3, NearFinds
    <3> QED
      BY <3>2, <3>3, <3>4
  <2>2. ASSUME NEW g \in Facts, NEW x \in Items[g], Look(x)
        PROVE  EventsOf(f)' = {}
    <3>1. EventsOf(f)' = EventsOf(f)
      BY <2>2 DEF Look, EventsOf
    <3>2. cur' = {<<x, NoRow>>} /\ ~Found(x) /\ x.event.type # "media.deleted"
      BY <2>2 DEF Look
    <3>3. x.fact = f /\ g = f
      BY <1>6, <3>2, ItemFields
    <3>4. Pack(f)
      BY <3>2, <3>3, ArrItemType DEF Delete, TypeFor
    <3> QED
      BY <3>1, <3>2, <3>3, <3>4, PackNames
  <2>3. ASSUME NEW g \in Facts, Deliver(g)
        PROVE  EventsOf(f)' = {}
    <3>1. UNCHANGED cur
      BY <2>3 DEF Deliver
    <3>2. EventsOf(f) = {} /\ c \in cur
      BY <1>1, <1>6, <3>1
    <3>3. CASE g = f
      <4>1. Stored(Main[f].key)
        BY <1>6, <2>3, <3>2, <3>3 DEF Deliver, BehindJob
      <4>2. Main[f].key \in KeysOf[f]
        BY DEF KeysOf
      <4> QED
        BY <3>2, <4>1, <4>2 DEF Stored, EventsOf
    <3>4. CASE g # f
      <4>1. PICK m, at : events' = events \cup Inserted(Hook[g], m, at)
        BY <2>3 DEF Deliver
      <4>2. \A e \in Inserted(Hook[g], m, at) : e.key \notin KeysOf[f]
        BY <3>4, InsertedRows DEF FactsApart, NamesOf
      <4> QED
        BY <3>2, <4>1, <4>2 DEF EventsOf
    <3> QED
      BY <3>3, <3>4
  <2>4. ASSUME NEW g \in Facts, NEW x \in Items[g], Skip(x)
        PROVE  EventsOf(f)' = {}
    BY <1>1, <1>6, <2>4 DEF Skip, EventsOf
  <2>5. ASSUME NEW b \in cur, Apply(b[1], b[2])
        PROVE  FALSE
    BY <1>6, <2>5 DEF Apply
  <2>6. CASE RunDies
    BY <1>6, <2>6 DEF RunDies
  <2>7. CASE UNCHANGED vars
    BY <1>1, <1>6, <2>7 DEF vars, EventsOf
  <2> QED
    BY <2>1, <2>2, <2>3, <2>4, <2>5, <2>6, <2>7 DEF Next
<1> QED
  BY <1>5, <1>6

LEMMA AllAlike ==
    ASSUME NEW S, \A d, e \in S : d = e
    PROVE  ~(Cardinality(S) > 1)
<1>1. CASE S = {}
  <2>1. Cardinality(S) = 0
    BY <1>1, FS_EmptySet
  <2> QED
    BY <2>1
<1>2. CASE S # {}
  <2>1. PICK e : S = {e}
    BY <1>2
  <2>2. Cardinality(S) = 1
    BY <2>1, FS_Singleton
  <2> QED
    BY <2>2
<1> QED
  BY <1>1, <1>2

\* A fact becomes one event, by whichever path, however many copies of the webhook
\* come and however often the job runs, dies and runs again in between: a fact
\* with one name always, a pack or a deleted file unless its webhook was behind
\* the job or over a day late.
THEOREM OneEvent ==
    ASSUME IdsApart, OneTmdbId, DeletesHaveTmdb
    PROVE  Spec => []OneEventPerFact
<1>0. FactsApart
  BY ApartById
<1>1. Init => TmdbInv /\ OnceInv
  BY DEF Init, MediaInit, TmdbInv, RowsKnown, Points, PointsAtTmdb, OnceInv, Once, DeletesInTime,
         EventsOf
<1>2. Home /\ TmdbUnique /\ RowsArePure /\ TmdbInv /\ OnceInv /\ [Next]_vars
          => (TmdbInv /\ OnceInv)'
  <2> SUFFICES ASSUME Home, TmdbUnique, RowsArePure, TmdbInv, OnceInv, [Next]_vars
               PROVE  TmdbInv' /\ OnceInv'
    OBVIOUS
  <2>1. TmdbInv'
    BY TmdbStep DEF Home
  <2>2. ASSUME NEW f \in Facts
        PROVE  /\ Delete(f) => DeletesInTime(f)'
               /\ Delete(f) \/ Pack(f) => Once(f)'
    BY <1>0, DeletesStep, OnceStep DEF OnceInv, Home, TmdbInv
  <2> QED
    BY <2>1, <2>2 DEF OnceInv
<1>3. KeysUnique /\ OnceInv => OneEventPerFact
  <2> SUFFICES ASSUME KeysUnique, OnceInv, NEW f \in Facts, Cardinality(EventsOf(f)) > 1
               PROVE  ~Named(f) /\ (Linked(f) => f \in late)
    BY DEF OneEventPerFact
  <2>1. ~(\A d, e \in EventsOf(f) : d = e)
    BY AllAlike
  <2>2. KeysOf[f] # {Main[f].key}
    BY <2>1 DEF KeysUnique, EventsOf
  <2>3. ~Named(f)
    BY <2>2, NamedIsOne, OneName
  <2>4. Linked(f) => Pack(f) \/ Delete(f)
    BY <2>2, OneName
  <2> QED
    BY <2>1, <2>3, <2>4 DEF OnceInv, Once
<1>4. Init => KeysUnique
  BY DEF Init, KeysUnique
<1>5. KeysUnique /\ [Next]_vars => KeysUnique'
  BY UniqueKeysStep
<1> QED
  BY <1>1, <1>2, <1>3, <1>4, <1>5, AlwaysHome, CaptureKeepsRows, PTL DEF Spec

-----------------------------------------------------------------------------
\* What a run passes over

\* Every event was told of some fact, by its webhook or a record of it.
Tells(y, e) == e.key = y.key /\ e.type = y.type /\ e.ref = y.ref

ToldBy(g, e) ==
    (\E i \in DOMAIN Hook[g] : Tells(Hook[g][i], e)) \/ (\E x \in Items[g] : Tells(x.event, e))

AllTold == \A e \in events : e.at \in Nat /\ \E g \in Facts : ToldBy(g, e)

LEMMA ToldStep ==
    ASSUME AllTold, CurIsItem, [Next]_vars
    PROVE  AllTold' /\ events \subseteq events'
<1>1. ASSUME NEW f \in Facts, NEW m, NEW delay \in Delays[f], Delivered(f, m, delay)
      PROVE  AllTold' /\ events \subseteq events'
  <2>1. \A e \in Inserted(Hook[f], m, AtOf[f] + delay) : ToldBy(f, e) /\ e.at = AtOf[f] + delay
    BY InsertedRows DEF ToldBy, Tells
  <2>2. AtOf[f] + delay \in Nat
    <3>1. AtOf[f] \in Nat /\ delay \in Nat
      BY DaysAssumption
    <3> QED
      BY <3>1
  <2> QED
    BY <1>1, <2>1, <2>2 DEF AllTold, Delivered
<1>2. ASSUME NEW c \in cur, NEW m,
             events' = events \cup Inserted(<<c[1].event>>, m, AtOf[c[1].fact])
      PROVE  AllTold' /\ events \subseteq events'
  <2>1. PICK g \in Facts : c[1] \in Items[g]
    BY DEF CurIsItem
  <2>2. c[1].fact = g /\ AtOf[g] \in Nat
    BY <2>1, ItemFields, DaysAssumption
  <2>3. \A e \in Inserted(<<c[1].event>>, m, AtOf[g]) : Tells(c[1].event, e) /\ e.at = AtOf[g]
    BY InsertedRows DEF Tells
  <2> QED
    BY <1>2, <2>1, <2>2, <2>3 DEF AllTold, ToldBy
<1>3. CASE UNCHANGED events
  BY <1>3 DEF AllTold
<1> QED
  BY <1>1, <1>2, <1>3, EventsChange

\* The second segment of a key that is no grab or import is none of theirs.
OtherKey(key) == \E S : key \in Seq(S) /\ Len(key) >= 3 /\ key[2] \notin Grabs

LEMMA OtherPrefix ==
    ASSUME NEW key, OtherKey(key), NEW a, NEW b \in Grabs, NEW c
    PROVE  SubSeq(key, 1, 3) # <<a, b, c>>
<1>1. PICK S : key \in Seq(S) /\ Len(key) >= 3 /\ key[2] \notin Grabs
  BY DEF OtherKey
<1>2. SubSeq(key, 1, 3) = <<key[1], key[2], key[3]>>
  BY <1>1, Prefix
<1> QED
  BY <1>1, <1>2

LEMMA OtherThree ==
    ASSUME NEW a, NEW b, b \notin Grabs, NEW c
    PROVE  OtherKey(<<a, b, c>>)
<1> DEFINE key == <<a, b, c>>
<1>1. key \in Seq({a, b, c}) /\ Len(key) >= 3 /\ key[2] = b
  OBVIOUS
<1> HIDE DEF key
<1>2. OtherKey(key)
  BY <1>1 DEF OtherKey
<1> QED
  BY <1>2 DEF key

LEMMA OtherMore ==
    ASSUME NEW key, OtherKey(key), NEW d
    PROVE  OtherKey(key \o <<d>>) /\ OtherKey(key \o << >>)
<1>1. PICK S : key \in Seq(S) /\ Len(key) >= 3 /\ key[2] \notin Grabs
  BY DEF OtherKey
<1> DEFINE T == S \cup {d}
<1>2. key \in Seq(T) /\ <<d>> \in Seq(T) /\ << >> \in Seq(T)
  BY <1>1
<1>3. /\ key \o <<d>> \in Seq(T) /\ Len(key \o <<d>>) >= 3 /\ (key \o <<d>>)[2] = key[2]
      /\ key \o << >> = key
  <2> HIDE DEF T
  <2> QED
    BY <1>1, <1>2
<1> QED
  BY <1>1, <1>3 DEF OtherKey

LEMMA OtherFour ==
    ASSUME NEW a, NEW b, b \notin Grabs, NEW c, NEW d
    PROVE  OtherKey(<<a, b, c, d>>)
<1>1. OtherKey(<<a, b, c>> \o <<d>>)
  BY OtherThree, OtherMore
<1>2. <<a, b, c>> \o <<d>> = <<a, b, c, d>>
  BY ThreeAndOne
<1> QED
  BY <1>1, <1>2

LEMMA OtherFive ==
    ASSUME NEW a, NEW b, b \notin Grabs, NEW c, NEW d, NEW q
    PROVE  OtherKey(<<a, b, c, d, q>>)
<1>1. OtherKey(<<a, b, c, d>> \o <<q>>)
  BY OtherFour, OtherMore
<1>2. <<a, b, c, d>> \o <<q>> = <<a, b, c, d, q>>
  BY FourAndOne
<1> QED
  BY <1>1, <1>2

LEMMA OtherParts ==
    ASSUME NEW key, OtherKey(key), NEW source, NEW episodes, NEW last
    PROVE  OtherKey(key \o Parts(source, episodes) \o <<last>>)
<1>1. Parts(source, episodes) = << >> \/ \E q : Parts(source, episodes) = <<q>>
  BY DEF Parts
<1>2. OtherKey(key \o Parts(source, episodes))
  BY <1>1, OtherMore
<1> QED
  BY <1>2, OtherMore

IsGrab(p) == Arr(p) /\ p.event \in {"Grab", "Download"}

LEMMA ArrToldOther ==
    ASSUME NEW g \in Facts, Arr(HookOf[g]), ~IsGrab(HookOf[g]), NEW e, ToldBy(g, e)
    PROVE  /\ OtherKey(e.key)
           /\ e.type = "media.deleted" => HookOf[g].event \in {"FileDelete", "TitleDelete"}
<1> DEFINE q == HookOf[g]
<1>0. q.event \notin {"Grab", "Download"}
  BY DEF IsGrab
<1>1. CASE \E i \in DOMAIN Hook[g] : Tells(Hook[g][i], e)
  <2>1. Hook[g] = ArrHook(q)
    BY DEF Hook, Normalized, Arr
  <2>2. PICK y : ArrHook(q) = <<y>> /\ Tells(y, e)
    <3>1. \E y : ArrHook(q) = <<y>>
      BY DEF ArrHook
    <3> QED
      BY <1>1, <2>1, <3>1
  <2>3. CASE q.event = "FileDelete"
    <3>1. y = ArrFileDelete(q)
      BY <2>2, <2>3 DEF ArrHook
    <3>2. OtherKey(<<q.source, "media.deleted", "file", TitleKey(q)>>)
      BY OtherFour DEF Grabs
    <3>3. OtherKey(<<q.source, "media.deleted", "file", TitleKey(q)>>
                       \o Parts(q.source, q.episodes) \o <<q.file>>)
      BY <3>2, OtherParts
    <3> QED
      BY <2>2, <2>3, <3>1, <3>3 DEF ArrFileDelete, Event, Tells
  <2>4. CASE q.event = "TitleDelete"
    <3>1. y = ArrTitleDelete(q)
      BY <2>2, <2>4 DEF ArrHook
    <3>2. OtherKey(<<q.source, "media.deleted", Kind(q.t), TitleKey(q)>>)
      BY OtherFour DEF Grabs
    <3> QED
      BY <2>2, <2>4, <3>1, <3>2 DEF ArrTitleDelete, Event, Tells
  <2>5. CASE q.event \notin {"FileDelete", "TitleDelete"}
    <3>1. y \in {ArrHealth(q, "health.issue"), ArrHealth(q, "health.restored"), Unknown(q)}
      BY <1>0, <2>2, <2>5 DEF ArrHook
    <3>2. /\ OtherKey(<<q.source, "health.issue", q.check, q.message>>)
          /\ OtherKey(<<q.source, "health.restored", q.check, q.message>>)
          /\ OtherKey(<<q.source, "unknown", q.event, q.body>>)
      BY OtherFour DEF Grabs
    <3> QED
      BY <2>2, <3>1, <3>2 DEF ArrHealth, Unknown, Event, Tells
  <2> QED
    BY <2>3, <2>4, <2>5
<1>2. CASE \E x \in Items[g] : Tells(x.event, e)
  <2>1. PICK x \in Items[g] : Tells(x.event, e)
    BY <1>2
  <2>2. q.event = "FileDelete"
    BY <1>0, ArrItems
  <2>3. PICK r \in RecordsOf[g] : x.event = ArrRecord(r)[1] /\ ArrRecordType(r) # None
    BY ArrItems
  <2>4. ArrRecordType(r) = "media.deleted"
    <3>1. x.event.type = ArrRecordType(r)
      BY <2>3 DEF ArrRecord, Event
    <3> QED
      BY <2>2, <3>1, ArrItemType DEF TypeFor
  <2>5. x.event.key = <<r.source, "media.deleted">> \o <<"file">> \o <<TitleKey(r)>>
                          \o Parts(r.source, r.episodes) \o <<Or(r.download, r.id)>>
    BY <2>3, <2>4 DEF ArrRecord, Event
  <2>6. <<r.source, "media.deleted">> \o <<"file">> = <<r.source, "media.deleted", "file">>
    BY TwoAndOne
  <2>7. OtherKey(<<r.source, "media.deleted", "file">> \o <<TitleKey(r)>>)
    BY OtherThree, OtherMore DEF Grabs
  <2>8. OtherKey(x.event.key)
    BY <2>5, <2>6, <2>7, OtherParts
  <2> QED
    BY <2>1, <2>2, <2>8 DEF Tells
<1> QED
  BY <1>1, <1>2 DEF ToldBy

LEMMA ToldOther ==
    ASSUME NEW g \in Facts, ~Arr(HookOf[g]), NEW e, ToldBy(g, e)
    PROVE  OtherKey(e.key) /\ e.type # "media.deleted"
<1> DEFINE q == HookOf[g]
<1>1. CASE q.source = "seerr" /\ \E x \in Items[g] : Tells(x.event, e)
  <2>1. PICK x \in Items[g] : Tells(x.event, e)
    BY <1>1
  <2>2. x.event.type \in {"request.created", "request.approved", "request.declined",
                          "request.available"}
    BY <1>1, SeerrItem
  <2>3. \/ \E status : x.event.key = <<q.source, x.event.type, q.request, status>>
        \/ x.event.key = <<q.source, x.event.type, q.request>>
    BY <1>1, SeerrItem
  <2>4. x.event.type \notin Grabs
    BY <2>2 DEF Grabs
  <2>5. OtherKey(x.event.key)
    BY <2>3, <2>4, OtherThree, OtherFour
  <2> QED
    BY <2>1, <2>2, <2>5 DEF Tells
<1>2. CASE q.source = "tautulli" /\ \E x \in Items[g] : Tells(x.event, e)
  <2>1. PICK x \in Items[g] : Tells(x.event, e)
    BY <1>2
  <2>2. PICK user : x.event.key = <<q.source, "watch.completed", user, q.item>>
    BY <1>2, TautulliItem
  <2>3. OtherKey(<<q.source, "watch.completed", user, q.item>>)
    BY OtherFour DEF Grabs
  <2> QED
    BY <1>2, <2>1, <2>2, <2>3, TautulliItem DEF Tells
<1>3. CASE q.source = "seerr" /\ \E i \in DOMAIN Hook[g] : Tells(Hook[g][i], e)
  <2> DEFINE type == SeerrType(q.event)
  <2>1. Hook[g] = SeerrHook(q)
    BY <1>3 DEF Hook, Normalized
  <2>2. PICK y : SeerrHook(q) = <<y>> /\ Tells(y, e)
    <3>1. \E y : SeerrHook(q) = <<y>>
      BY DEF SeerrHook
    <3> QED
      BY <1>3, <2>1, <3>1
  <2>3. \/ /\ type # None
           /\ \E status : /\ status = << >> \/ \E d : status = <<d>>
                          /\ y = Event(type, <<q.source, type, q.request>> \o status,
                                       SeerrHookRef(q))
        \/ y = Event("health.issue", <<q.source, "health.issue", "request", q.request>>,
                     SeerrHookRef(q))
        \/ y = Unknown(q)
    BY <2>2 DEF SeerrHook
  <2>4. type # None => type \in {"request.created", "request.approved", "request.declined",
                                 "request.available"}
    BY DEF SeerrType
  <2>5. ASSUME NEW status, type # None, status = << >> \/ \E d : status = <<d>>,
               y = Event(type, <<q.source, type, q.request>> \o status, SeerrHookRef(q))
        PROVE  OtherKey(y.key) /\ y.type # "media.deleted"
    <3>1. type \notin Grabs
      BY <2>4, <2>5 DEF Grabs
    <3>2. OtherKey(<<q.source, type, q.request>>)
      <4> HIDE DEF type
      <4> QED
        BY <3>1, OtherThree
    <3>3. OtherKey(<<q.source, type, q.request>> \o status)
      <4> HIDE DEF type
      <4> QED
        BY <2>5, <3>2, OtherMore
    <3> QED
      BY <2>4, <2>5, <3>3 DEF Event
  <2>6. OtherKey(<<q.source, "health.issue", "request", q.request>>)
        /\ OtherKey(<<q.source, "unknown", q.event, q.body>>)
    BY OtherFour DEF Grabs
  <2>7. CASE y = Event("health.issue", <<q.source, "health.issue", "request", q.request>>,
                       SeerrHookRef(q))
    BY <2>2, <2>6, <2>7 DEF Event, Tells
  <2>8. CASE y = Unknown(q)
    BY <2>2, <2>6, <2>8 DEF Unknown, Event, Tells
  <2>9. CASE OtherKey(y.key) /\ y.type # "media.deleted"
    BY <2>2, <2>9 DEF Tells
  <2> QED
    <3> HIDE DEF type
    <3> QED
      BY <2>3, <2>5, <2>7, <2>8, <2>9
<1>4. CASE q.source = "tautulli" /\ \E i \in DOMAIN Hook[g] : Tells(Hook[g][i], e)
  <2>1. Hook[g] = TautulliHook(q)
    BY <1>4 DEF Hook, Normalized
  <2>2. \A i \in DOMAIN TautulliHook(q) :
            TautulliHook(q)[i] \in {Playback(q, "playback.started"),
                                    Playback(q, "playback.stopped"), Watched(q), Unknown(q)}
    BY DEF TautulliHook
  <2>3. \/ Tells(Playback(q, "playback.started"), e) \/ Tells(Playback(q, "playback.stopped"), e)
        \/ Tells(Watched(q), e) \/ Tells(Unknown(q), e)
    BY <1>4, <2>1, <2>2
  <2>4. /\ OtherKey(<<q.source, "playback.started", UserKey(q), Or(q.session, "nosession"),
                      ItemKey(q)>>)
        /\ OtherKey(<<q.source, "playback.stopped", UserKey(q), Or(q.session, "nosession"),
                      ItemKey(q)>>)
    BY OtherFive DEF Grabs
  <2>5. /\ OtherKey(<<q.source, "watch.completed", UserKey(q), ItemKey(q)>>)
        /\ OtherKey(<<q.source, "unknown", q.event, q.body>>)
    BY OtherFour DEF Grabs
  <2> QED
    BY <2>3, <2>4, <2>5 DEF Playback, Watched, Unknown, Event, Tells
<1> QED
  BY <1>1, <1>2, <1>3, <1>4, FactsAssumption DEF ToldBy, Arr

\* What is told of a grab or an import has a name of it, with its type.
LEMMA GrabTold ==
    ASSUME NEW g \in Facts, IsGrab(HookOf[g]), NEW e, ToldBy(g, e)
    PROVE  LET q == HookOf[g] IN
           /\ e.type = TypeFor(q) /\ e.key \in KeysOf[g]
           /\ \E episodes :
                 \E last \in {q.body, q.file} \cup {r.id : r \in RecordsOf[g]} :
                    e.key = GrabKey(q, episodes, Or(q.download, last))
<1> DEFINE q == HookOf[g]
<1>0. Arr(q) /\ q.event \in {"Grab", "Download"}
  BY DEF IsGrab
<1>1. Hook[g] = << Main[g] >> /\ Main[g].type = TypeFor(q)
  BY <1>0, ArrMain
<1>2. CASE Tells(Main[g], e)
  <2>1. e.key = Main[g].key /\ e.type = TypeFor(q)
    BY <1>1, <1>2 DEF Tells
  <2>2. \E last \in {q.body, q.file} :
            Main[g].key = GrabKey(q, q.episodes, Or(q.download, last))
    BY <1>0, GrabKeys
  <2> QED
    BY <2>1, <2>2 DEF KeysOf
<1>3. ASSUME NEW x \in Items[g], Tells(x.event, e)
      PROVE  /\ e.type = TypeFor(q) /\ e.key \in KeysOf[g]
             /\ \E episodes : \E r \in RecordsOf[g] :
                   e.key = GrabKey(q, episodes, Or(q.download, r.id))
  <2>1. e.key = x.event.key /\ e.type = x.event.type /\ x.event.type = TypeFor(q)
    BY <1>0, <1>3, ArrItemType DEF Tells
  <2>2. \E r \in RecordsOf[g] : x.event.key = GrabKey(q, r.episodes, Or(q.download, r.id))
    BY <1>0, GrabKeys
  <2>3. e.key \in KeysOf[g]
    BY <1>1, <2>1 DEF KeysOf
  <2> QED
    BY <2>1, <2>2, <2>3
<1> QED
  BY <1>1, <1>2, <1>3 DEF ToldBy

\* A similar key is that of the same download of the same title.
LEMMA LikeSibling ==
    ASSUME DownloadsApart, AllTold, NEW f \in Facts, NEW x \in Items[f], Like(x)
    PROVE  \E g \in Facts : \E e \in EventsOf(g) : Siblings(f, g) /\ e.type # "media.deleted"
<1> DEFINE p == HookOf[f]
<1>1. x.download # None
  BY DEF Like
<1>2. IsGrab(p) /\ x.download = p.download
  <2>1. PICK r \in RecordsOf[f] : Agrees(r, p) /\ x.download = r.download
    BY ItemFields
  <2>2. Arr(p)
    BY <1>1, <2>1, FactsAssumption DEF Agrees, Arr
  <2>3. p.event # "FileDelete"
    BY <1>1, <2>1, <2>2 DEF Agrees, Arr
  <2>4. p.event \in {"Grab", "Download"}
    BY <2>2, <2>3, ArrItems
  <2> QED
    BY <2>2, <2>4, GrabKeys DEF IsGrab
<1>3. TypeFor(p) \in Grabs
  BY <1>2 DEF IsGrab, TypeFor, Grabs
<1>4. SubSeq(x.event.key, 1, 3) = <<p.source, TypeFor(p), TitleKey(p)>>
  <2>1. \E episodes, last : x.event.key = GrabKey(p, episodes, last)
    BY <1>2, GrabKeys DEF IsGrab
  <2> QED
    BY <2>1, GrabKeyEnds
<1>5. PICK e \in events : /\ SubSeq(e.key, 1, 3) = <<p.source, TypeFor(p), TitleKey(p)>>
                          /\ e.key[Len(e.key)] = p.download
  BY <1>2, <1>4 DEF Like
<1>6. PICK g \in Facts : ToldBy(g, e)
  BY DEF AllTold
<1> DEFINE q == HookOf[g]
<1>7. IsGrab(q)
  <2>1. ~OtherKey(e.key)
    BY <1>3, <1>5, OtherPrefix
  <2> QED
    BY <1>6, <2>1, ArrToldOther, ToldOther
<1>8. PICK episodes : \E last \in {q.body, q.file} \cup {r.id : r \in RecordsOf[g]} :
          e.key = GrabKey(q, episodes, Or(q.download, last))
  BY <1>6, <1>7, GrabTold
<1> PICK last \in {q.body, q.file} \cup {r.id : r \in RecordsOf[g]} :
        e.key = GrabKey(q, episodes, Or(q.download, last))
  BY <1>8
<1>9. /\ <<q.source, TypeFor(q), TitleKey(q)>> = <<p.source, TypeFor(p), TitleKey(p)>>
      /\ Or(q.download, last) = p.download
  BY <1>5, GrabKeyEnds
<1>10. q.source = p.source /\ TypeFor(q) = TypeFor(p) /\ TitleKey(q) = TitleKey(p)
  BY <1>9
<1>11. q.download = p.download
  BY <1>1, <1>2, <1>8, <1>9 DEF DownloadsApart, Or
<1>12. p.event = q.event
  BY <1>2, <1>7, <1>10 DEF IsGrab, TypeFor
<1>13. Siblings(f, g)
  BY <1>1, <1>2, <1>10, <1>11, <1>12 DEF Siblings
<1>14. e \in EventsOf(g) /\ e.type # "media.deleted"
  BY <1>3, <1>6, <1>7, <1>10, GrabTold DEF EventsOf, Grabs
<1> QED
  BY <1>13, <1>14

\* What is told of a deleted file or title is about it, by an id.
LEMMA DeletedTold ==
    ASSUME DeletesHaveIds, NEW g \in Facts, NEW e, ToldBy(g, e), e.type = "media.deleted"
    PROVE  LET q == HookOf[g] IN
           /\ OfDelete(q) /\ e.key \in KeysOf[g]
           /\ e.ref \in RefsOf(g) /\ e.ref \in Refs /\ e.ref # None /\ HasId(e.ref)
           /\ e.ref.kind = IF q.source = "radarr" THEN "movie" ELSE "series"
<1> DEFINE q == HookOf[g]
<1>1. Arr(q)
  BY ToldOther
<1>2. ~IsGrab(q)
  <2>1. TypeFor(q) # e.type \/ ~IsGrab(q)
    BY DEF TypeFor, IsGrab
  <2> QED
    BY <2>1, GrabTold
<1>3. OfDelete(q)
  BY <1>1, <1>2, ArrToldOther DEF OfDelete
<1>4. Hook[g] = << Main[g] >>
  BY <1>1, ArrMain
<1>5. Main[g].ref = ArrHookRef(q) /\ Main[g].type = "media.deleted"
  <2>1. CASE q.event = "FileDelete"
    BY <1>1, <2>1, ArrMain DEF TypeFor
  <2>2. CASE q.event = "TitleDelete"
    <3>1. Hook[g] = ArrHook(q)
      BY <1>1 DEF Hook, Normalized, Arr
    <3>2. ArrHook(q) = << ArrTitleDelete(q) >>
      BY <2>2 DEF ArrHook
    <3>3. Main[g] = ArrTitleDelete(q)
      BY <1>4, <3>1, <3>2
    <3> QED
      BY <3>3 DEF ArrTitleDelete, Event
  <2> QED
    BY <1>3, <2>1, <2>2 DEF OfDelete
<1>6. ArrHookRef(q).kind = IF q.source = "radarr" THEN "movie" ELSE "series"
  BY DEF ArrHookRef, Ref
<1>7. CASE Tells(Main[g], e)
  <2>1. e.ref = Main[g].ref /\ e.ref \in RefsOf(g) /\ e.key \in KeysOf[g]
    BY <1>7 DEF Tells, KeysOf, RefsOf
  <2>2. e.ref # None /\ HasId(e.ref)
    BY <1>3, <2>1 DEF DeletesHaveIds
  <2>3. e.ref \in Refs
    BY <2>1, <2>2, FactsAssumption DEF Names
  <2> QED
    BY <1>3, <1>5, <1>6, <2>1, <2>2, <2>3
<1>8. CASE \E x \in Items[g] : Tells(x.event, e)
  <2>1. PICK x \in Items[g] : e.ref = x.event.ref /\ e.key = x.event.key /\ e.type = x.event.type
    BY <1>8 DEF Tells
  <2>2. e.key \in KeysOf[g] /\ e.ref \in RefsOf(g)
    BY <1>5, <2>1 DEF KeysOf, RefsOf
  <2>3. e.ref # None /\ HasId(e.ref) /\ e.ref \in Refs
    BY <1>3, <2>1, <2>2, FactsAssumption DEF DeletesHaveIds
  <2>4. e.ref.kind = ArrHookRef(q).kind
    BY <1>1, <2>1, ArrItemType
  <2> QED
    BY <1>3, <1>6, <2>2, <2>3, <2>4
<1> QED
  BY <1>4, <1>7, <1>8 DEF ToldBy

\* A delete near the row of a title is a delete of this very title: both are at home
\* in the row, and it is pure.
LEMMA NearSibling ==
    ASSUME DeletesHaveIds, TitlesKnown, AllTold, Home, RowsArePure,
           NEW f \in Facts, NEW x \in Items[f], x.event.type = "media.deleted",
           NEW m \in RowsFor(x.event.ref), FindOrCreate(x.event.ref, m),
           Near("media.deleted", m, AtOf[f])
    PROVE  \E g \in Facts : \E e \in EventsOf(g) :
              Siblings(f, g) /\ e.at - AtOf[f] \in -1 .. 1
<1> DEFINE p == HookOf[f]
           ref == x.event.ref
<1>1. ref \in Refs /\ Looked(ref, m) /\ MediaType
  BY FactsAssumption DEF Looked, Home
<1>2. PICK e \in events : /\ e.type = "media.deleted" /\ e.media = m
                          /\ e.at - AtOf[f] <= 1 /\ AtOf[f] - e.at <= 1
  BY DEF Near
<1>3. PICK g \in Facts : ToldBy(g, e)
  BY DEF AllTold
<1> DEFINE q == HookOf[g]
<1>4. ToldBy(f, x.event)
  BY DEF ToldBy, Tells
<1>5. /\ OfDelete(p) /\ ref \in RefsOf(f) /\ ref # None /\ HasId(ref)
      /\ ref.kind = IF p.source = "radarr" THEN "movie" ELSE "series"
  BY <1>4, DeletedTold
<1>6. p.event = "FileDelete"
  BY <1>5, ArrItems DEF OfDelete
<1>7. /\ OfDelete(q) /\ e.key \in KeysOf[g]
      /\ e.ref \in RefsOf(g) /\ e.ref \in Refs /\ e.ref # None /\ HasId(e.ref)
      /\ e.ref.kind = IF q.source = "radarr" THEN "movie" ELSE "series"
  BY <1>2, <1>3, DeletedTold
<1>8. AtHome(m, ref)'
  BY <1>1, LookedHome
<1>9. AtHome(m, e.ref)'
  <2>1. AtHome(m, e.ref)
    <3>1. <<e.media, e.ref>> \in Points
      BY DEF Points
    <3> QED
      BY <1>2, <3>1 DEF Home, PointsHome
  <2> QED
    BY <1>1, <2>1, LookedIsNext, StaysHome
<1>10. m \in DOMAIN media' /\ ShareId(media'[m], ref) /\ ShareId(media'[m], e.ref)
  BY <1>5, <1>7, <1>8, <1>9 DEF AtHome
<1>11. TitleOf[ref] = TitleOf[e.ref]
  <2>1. RowsArePure'
    BY <1>1, PureStep
  <2> QED
    BY <1>1, <1>7, <1>10, <2>1 DEF RowsArePure
<1>12. p.source = q.source
  <2>1. ref.kind = e.ref.kind
    BY <1>10 DEF ShareId
  <2> QED
    BY <1>5, <1>7, <2>1 DEF OfDelete, Arr
<1>13. TitleKey(p) = TitleKey(q)
  BY <1>1, <1>5, <1>7, <1>11, <1>12 DEF TitlesKnown
<1>14. Siblings(f, g)
  BY <1>6, <1>7, <1>12, <1>13 DEF Siblings, OfDelete
<1>15. e \in EventsOf(g)
  BY <1>7 DEF EventsOf
<1>16. e.at - AtOf[f] \in -1 .. 1
  <2>1. e.at \in Nat /\ AtOf[f] \in Nat
    BY DaysAssumption DEF AllTold
  <2> QED
    BY <1>2, <2>1
<1> QED
  BY <1>14, <1>15, <1>16

LEMMA RecoveredStep ==
    ASSUME DeletesHaveIds, TitlesKnown, DownloadsApart,
           AllTold, Home, RowsArePure, RecoveredOrSibling, [Next]_vars
    PROVE  RecoveredOrSibling'
<1> DEFINE Excused(x) == \E g \in Facts : \E e \in EventsOf(g) :
               /\ Siblings(x.fact, g)
               /\ e.type = "media.deleted" => e.at - AtOf[x.fact] \in -1 .. 1
<1>1. \A x : Excused(x) => Excused(x)'
  <2>1. \A g \in Facts : EventsOf(g) \subseteq EventsOf(g)'
    BY ToldStep DEF EventsOf, Home
  <2> QED
    BY <2>1
<1>2. ASSUME NEW f \in Facts, NEW x \in Items[f], Skip(x) \/ LookNear(x), PassOver(x),
             passed' # passed
      PROVE  Excused(x)
  <2>1. x.fact = f
    BY ItemFields
  <2>2. ~Stored(x.event.key)
    BY <1>2 DEF PassOver
  <2>3. CASE Skip(x)
    <3>1. Like(x)
      BY <2>2, <2>3 DEF Skip, Found
    <3> QED
      BY <2>1, <3>1, LikeSibling
  <2>4. CASE LookNear(x) /\ ~Skip(x)
    <3>1. PICK m \in RowsFor(x.event.ref) :
              /\ FindOrCreate(x.event.ref, m)
              /\ \/ Near("media.deleted", m, AtOf[x.fact])
                 \/ UNCHANGED passed
      BY <2>4 DEF LookNear
    <3>2. x.event.type = "media.deleted" /\ Near("media.deleted", m, AtOf[f])
      BY <1>2, <2>1, <2>4, <3>1 DEF LookNear
    <3> QED
      BY <2>1, <3>1, <3>2, NearSibling
  <2> QED
    BY <1>2, <2>3, <2>4
<1>3. \A x \in passed' : x \in passed \/ Excused(x)
  <2>1. ASSUME NEW f \in Facts, NEW y \in Items[f], Skip(y) \/ LookNear(y)
        PROVE  \A x \in passed' : x \in passed \/ Excused(x)
    <3>1. UNCHANGED passed \/ (PassOver(y) /\ passed' # passed)
      BY <2>1 DEF Skip, LookNear
    <3>2. PassOver(y) => passed' \subseteq passed \cup {y}
      BY DEF PassOver
    <3> QED
      BY <1>2, <2>1, <3>1, <3>2
  <2>2. ASSUME NEW f \in Facts, Deliver(f) \/ \E y \in Items[f] : Look(y)
        PROVE  UNCHANGED passed
    BY <2>2 DEF Deliver, Look
  <2>3. ASSUME NEW c \in cur, Apply(c[1], c[2])
        PROVE  UNCHANGED passed
    BY <2>3 DEF Apply
  <2>4. ASSUME RunDies \/ UNCHANGED vars
        PROVE  UNCHANGED passed
    BY <2>4 DEF RunDies, vars
  <2> HIDE DEF Excused
  <2> QED
    BY <2>1, <2>2, <2>3, <2>4 DEF Next
<1> QED
  BY <1>1, <1>3 DEF RecoveredOrSibling

\* The job passes over the record of a fact of which nothing is stored only for
\* what the lookups are meant for: an event of the same download, or a delete of
\* the same title near in time.  No other fact, of another title, source or
\* download, ever hides one whose webhook was lost.
THEOREM Recovered ==
    ASSUME DeletesHaveIds, TitlesKnown, DownloadsApart
    PROVE  Spec => []RecoveredOrSibling
<1> DEFINE Inv == AllTold /\ RecoveredOrSibling
<1>1. Init => Inv
  BY DEF Init, AllTold, RecoveredOrSibling
<1>2. Home /\ RowsArePure /\ Inv /\ [Next]_vars => Inv'
  BY ToldStep, RecoveredStep DEF Home
<1> QED
  BY <1>1, <1>2, AlwaysHome, CaptureKeepsRows, PTL DEF Spec
=============================================================================
