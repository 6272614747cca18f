------------------------------- MODULE Capture -------------------------------
(***************************************************************************)
(* How a fact of a source becomes an event: by its webhook, which may come *)
(* late, twice or never, through the normalizers and Correlator.apply; and *)
(* by the record the source's API keeps of it, which the reconcile job     *)
(* reads, looks up and applies.  Keys says what each path calls the fact,  *)
(* Media which title it is about.                                          *)
(*                                                                         *)
(* The job looks an event up and applies it in separate transactions, and *)
(* the outbox worker may work a webhook off between them.  The job's       *)
(* window, cursor and crash repair are in Reconcile, the chains in Chains, *)
(* the fan-out in Ingest.  As a run reads records in any order and may die *)
(* at any of them, it may look at any of them at any time; and as webhooks *)
(* come late, twice or never, so may the worker.                           *)
(***************************************************************************)
EXTENDS Media, Keys, FiniteSets

CONSTANTS
    Facts,
    HookOf,         \* the body of a fact's webhook
    RecordsOf,      \* the records its source keeps of it
    AtOf,           \* when it happened, in days
    Delays          \* how many days later its webhook may be worked off

VARIABLES
    events,     \* the events table
    cur,        \* {<<item, media_id>>} between the lookups for an item and its apply
    \* History, read by the properties only.
    passed,     \* items a run passed over though their fact was not stored
    late        \* facts stored by a webhook behind the job, or over a day late

vars == <<media, events, cur, passed, late>>

NoRow == 0      \* media_id NULL

\* The events of a fact's webhook; what the fact is about is the last of them.
Hook == [f \in Facts |-> Normalized(HookOf[f])]
Main == [f \in Facts |-> Hook[f][Len(Hook[f])]]

\* What the job makes of the fact's records: an event for each step of a request,
\* one or none for the record of another source.
Items ==
    [f \in Facts |->
        UNION {{[fact |-> f, download |-> r.download, event |-> Recorded(r)[i]] :
                    i \in DOMAIN Recorded(r)} : r \in RecordsOf[f]}]

\* The names both have for what the fact is about.
KeysOf ==
    [f \in Facts |->
        {Main[f].key} \cup
            {x.event.key : x \in {y \in Items[f] : y.event.type = Main[f].type}}]

\* Correlator.apply resolves the media of an event that names any.
Names(ref) == IF ref = None THEN FALSE ELSE HasId(ref) \/ ref.title # None

\* Refs has every ref that is looked up; bodies come from the four kinds of source.
ASSUME FactsAssumption ==
    \A f \in Facts :
        /\ HookOf[f].source \in {"radarr", "sonarr", "seerr", "tautulli"}
        /\ Names(Main[f].ref) => Main[f].ref \in Refs
        /\ \A x \in Items[f] :
            Names(x.event.ref) \/ x.event.type = "media.deleted" => x.event.ref \in Refs

\* The history an arr keeps of an eventType of its webhooks: none of titles that are
\* deleted, nor of its health.
HistoryOf(event) ==
    CASE event = "Grab" -> {"grabbed"}
      [] event = "Download" -> {"downloadFolderImported"}
      [] event = "FileDelete" -> {"movieFileDeleted", "episodeFileDeleted"}
      [] OTHER -> {}

\* A record of a fact says what the fact's webhook says, as far as both say it: one
\* of an arr is about an episode, one of seerr about a request at any of its
\* steps.  "Deletes carry no shared id" (reconcile.py:383).
SameIds(s, t) == \A id \in {"tmdb", "tvdb", "imdb"} : None \in {s[id], t[id]} \/ s[id] = t[id]

Agrees(r, p) ==
    /\ r.source = p.source /\ SameIds(r.t, p.t)
    /\ CASE p.source = "seerr" ->
               /\ r.request = p.request /\ r.download = None
               /\ p.event = "MEDIA_AVAILABLE" => StatusLabel(r) = Or(p.status, "AVAILABLE")
         [] p.source = "tautulli" ->
               r.userId = p.userId /\ r.item = p.item /\ p.item # None /\ r.download = None
         [] OTHER ->
               /\ r.event \in HistoryOf(p.event) /\ TitleKey(r) = TitleKey(p)
               /\ r.upgrade = p.upgrade
               /\ r.download = IF p.event = "FileDelete" THEN None ELSE p.download
               /\ Len(p.episodes) <= 1 => r.episodes = p.episodes

ASSUME RecordsAssumption == \A f \in Facts : \A r \in RecordsOf[f] : Agrees(r, HookOf[f])

Arr(p) == p.source \in {"radarr", "sonarr"}

\* A fact with several names: a pack is one event of the webhook and a record for
\* each episode, a deleted file has one id in the webhook and one in the history.
Delete(f) == Arr(HookOf[f]) /\ HookOf[f].event = "FileDelete"

Pack(f) ==
    LET p == HookOf[f] IN
    /\ Arr(p) /\ p.event \in {"Grab", "Download"}
    /\ p.download # None /\ ~(Len(p.episodes) <= 1)

\* Six more things are usual of the sources; the theorems that rest on them name
\* them.

\* What a source tells its facts of one type apart by.  A grab, an import or a
\* deleted file has its title, its episodes and the id of its download, or else an
\* id of its own; the history may know it by another one, and a pack by its parts.
ArrIds(f) ==
    LET p == HookOf[f]
        own == IF p.event = "FileDelete" THEN p.file
               ELSE Or(p.download, IF p.event = "Grab" THEN p.body ELSE p.file)
    IN
    CASE p.event \in {"Grab", "Download", "FileDelete"} ->
             {<<TitleKey(p), Parts(p.source, p.episodes), own>>} \cup
                 {<<TitleKey(p), Parts(p.source, r.episodes), Or(r.download, r.id)>> :
                      r \in RecordsOf[f]}
      [] p.event = "TitleDelete" -> {<<Kind(p.t), TitleKey(p)>>}
      [] p.event \in {"Health", "HealthRestored"} -> {<<p.event, p.check, p.message>>}
      [] OTHER -> {<<p.event, p.body>>}

SeerrIds(f) ==
    LET p == HookOf[f] IN
    CASE Main[f].type = "source.unknown" -> {<<p.event, p.body>>}
      [] Main[f].type = "request.available" -> {<<p.request, Or(p.status, "AVAILABLE")>>}
      [] OTHER -> {<<p.request>>}

TautulliIds(f) ==
    LET p == HookOf[f] IN
    CASE Main[f].type = "source.unknown" -> {<<p.event, p.body>>}
      [] Main[f].type = "watch.completed" ->
             {<<UserKey(p), ItemKey(p)>>} \cup {<<UserKey(r), r.item>> : r \in RecordsOf[f]}
      [] OTHER -> {<<UserKey(p), Or(p.session, "nosession"), ItemKey(p)>>}

IdsOf(f) ==
    IF Arr(HookOf[f]) THEN ArrIds(f)
    ELSE IF HookOf[f].source = "seerr" THEN SeerrIds(f) ELSE TautulliIds(f)

IdsApart ==
    \A f, g \in Facts :
        f # g /\ HookOf[f].source = HookOf[g].source /\ Main[f].type = Main[g].type
            => IdsOf(f) \cap IdsOf(g) = {}

\* A title has one tmdb id.
OneTmdbId ==
    \A r, s \in Refs :
        r.kind = s.kind /\ TitleOf[r] = TitleOf[s] /\ r.tmdb # None /\ s.tmdb # None
            => r.tmdb = s.tmdb

\* Both paths know the tmdb id of a title of which a file is deleted.
RefsOf(f) == {Main[f].ref} \cup {x.event.ref : x \in Items[f]}

DeletesHaveTmdb ==
    \A f \in Facts : Delete(f) => \A ref \in RefsOf(f) : ref # None /\ ref.tmdb # None

\* An arr knows an id of what is deleted, and a title always by the same one.
OfDelete(p) == Arr(p) /\ p.event \in {"FileDelete", "TitleDelete"}

DeletesHaveIds ==
    \A f \in Facts :
        OfDelete(HookOf[f]) => \A ref \in RefsOf(f) : ref # None /\ HasId(ref)

TitlesKnown ==
    \A f, g \in Facts :
        LET p == HookOf[f]
            q == HookOf[g]
        IN
        /\ OfDelete(p) /\ OfDelete(q) /\ p.source = q.source
        /\ \E r \in RefsOf(f) \cap Refs, s \in RefsOf(g) \cap Refs : TitleOf[r] = TitleOf[s]
        => TitleKey(p) = TitleKey(q)

\* The id of a download is none of a file, a body or a history record.
DownloadsApart ==
    \A f, g \in Facts :
        HookOf[f].download # None =>
            HookOf[f].download \notin
                {HookOf[g].body, HookOf[g].file} \cup {r.id : r \in RecordsOf[g]}

ASSUME DaysAssumption == \A f \in Facts : AtOf[f] \in Nat /\ Delays[f] \subseteq Nat

Init ==
    /\ MediaInit
    /\ events = {} /\ cur = {} /\ passed = {} /\ late = {}

-----------------------------------------------------------------------------
\* The event store

Row(e, m, at) == [key |-> e.key, type |-> e.type, ref |-> e.ref, media |-> m, at |-> at]

Stored(key) == \E e \in events : e.key = key

\* Mutant: the key is not unique.
InsertedAgain(seq, m, at) == {Row(seq[i], m, at) : i \in DOMAIN seq}

\* insert_event: INSERT OR IGNORE on the key.
Inserted(seq, m, at) ==
    {Row(seq[i], m, at) : i \in {j \in DOMAIN seq : ~Stored(seq[j].key)}}

MediaFor(ref) == IF Names(ref) THEN RowsFor(ref) ELSE {NoRow}
Resolved(ref, m) == IF m = NoRow THEN UNCHANGED media ELSE FindOrCreate(ref, m)

-----------------------------------------------------------------------------
\* The outbox worker

\* The events stored of a fact, by whichever path.
EventsOf(f) == {e \in events : e.key \in KeysOf[f]}

BehindJob(f) == EventsOf(f) # {} \/ \E c \in cur : c[1].fact = f

\* The webhook of f is processed.
Deliver(f) ==
    /\ \E m \in MediaFor(Main[f].ref), delay \in Delays[f] :
        /\ Resolved(Main[f].ref, m)
        /\ events' = events \cup Inserted(Hook[f], m, AtOf[f] + delay)
        /\ late' = IF ~Stored(Main[f].key) /\ (delay > 1 \/ BehindJob(f))
                    THEN late \cup {f} ELSE late
    /\ UNCHANGED <<cur, passed>>

-----------------------------------------------------------------------------
\* The reconcile job

\* Mutant: there is no fuzzy lookup.
LikeNothing(x) == FALSE

\* event_key_like: a key with the same source, type and third segment that ends
\* with the download id.
Like(x) ==
    /\ x.download # None
    /\ \E e \in events :
        /\ SubSeq(e.key, 1, 3) = SubSeq(x.event.key, 1, 3)
        /\ e.key[Len(e.key)] = x.download

\* Mutant: any delete of the title counts, whenever it was.
NearEver(type, m, at) == \E e \in events : e.type = type /\ e.media = m

\* has_event_near, within 24 hours.
Near(type, m, at) ==
    \E e \in events : e.type = type /\ e.media = m /\ e.at - at <= 1 /\ at - e.at <= 1

PassOver(x) ==
    passed' = IF Stored(x.event.key) \/ EventsOf(x.fact) # {} THEN passed ELSE passed \cup {x}

Found(x) == Stored(x.event.key) \/ Like(x)

\* The exact or a similar key is there.
Skip(x) ==
    /\ cur = {} /\ Found(x)
    /\ PassOver(x)
    /\ UNCHANGED <<media, events, cur, late>>

\* A delete resolves its media and looks for another delete of it.
LookNear(x) ==
    /\ cur = {} /\ ~Found(x)
    /\ x.event.type = "media.deleted"
    /\ \E m \in RowsFor(x.event.ref) :
        /\ FindOrCreate(x.event.ref, m)
        /\ IF Near("media.deleted", m, AtOf[x.fact])
           THEN PassOver(x) /\ UNCHANGED cur
           ELSE cur' = {<<x, m>>} /\ UNCHANGED passed
    /\ UNCHANGED <<events, late>>

Look(x) ==
    /\ cur = {} /\ ~Found(x)
    /\ x.event.type # "media.deleted"
    /\ cur' = {<<x, NoRow>>}
    /\ UNCHANGED <<media, events, passed, late>>

\* Correlator.apply, which resolves the media where the job has not yet.
Apply(x, known) ==
    /\ \E m \in IF known # NoRow THEN {known} ELSE MediaFor(x.event.ref) :
        /\ IF known # NoRow THEN UNCHANGED media ELSE Resolved(x.event.ref, m)
        /\ events' = events \cup Inserted(<<x.event>>, m, AtOf[x.fact])
    /\ cur' = {}
    /\ UNCHANGED <<passed, late>>

\* The process dies before it applies what it looked up.
RunDies ==
    /\ cur # {}
    /\ cur' = {}
    /\ UNCHANGED <<media, events, passed, late>>

Next ==
    \/ \E f \in Facts : Deliver(f) \/ \E x \in Items[f] : Skip(x) \/ LookNear(x) \/ Look(x)
    \/ \E c \in cur : Apply(c[1], c[2])
    \/ RunDies

Spec == Init /\ [][Next]_vars

-----------------------------------------------------------------------------
\* Properties

\* The state has the shape the code gives it; an event points at a media row
\* that exists, and a key has one event.
TypeOK ==
    /\ late \subseteq Facts
    /\ passed \subseteq UNION {Items[f] : f \in Facts}
    /\ \A c \in cur : c[1] \in UNION {Items[f] : f \in Facts} /\ c[2] \in 0 .. Len(media)
    /\ \A e \in events : e.media \in 0 .. Len(media)
    /\ \A d, e \in events : d.key = e.key => d = e

\* Facts whose two paths share an id: a download, a request, a user; a delete of
\* a file shares its title and its day.
Linked(f) ==
    LET p == HookOf[f] IN
    CASE p.source = "tautulli" -> p.userId # None
      [] p.source = "seerr" -> TRUE
      [] OTHER -> p.event = "FileDelete" \/ p.download # None

\* Those both paths have one name for.
Named(f) ==
    Linked(f) /\ HookOf[f].event # "FileDelete" /\ Len(HookOf[f].episodes) <= 1

\* "Webhook-vs-reconcile duplicates collapse" (radarr.py:4): a fact is one event
\* whichever path, and however many copies, came first.  What the paths name
\* differently but link is stored twice only when the webhook was behind the
\* job, or over a day behind the fact.
OneEventPerFact ==
    \A f \in Facts :
        Cardinality(EventsOf(f)) > 1 => ~Named(f) /\ (Linked(f) => f \in late)

\* One download of one title; or a file and its title, or another file, deleted.
Siblings(f, g) ==
    LET p == HookOf[f]
        q == HookOf[g]
    IN
    /\ p.source = q.source /\ TitleKey(p) = TitleKey(q)
    /\ \/ p.event = "FileDelete" /\ q.event \in {"FileDelete", "TitleDelete"}
       \/ p.event = q.event /\ p.download # None /\ p.download = q.download

\* A run passes over a record of a fact of which nothing is stored, its webhook
\* lost, only for an event of a sibling: of the same download, or a delete of the
\* same title stored as of the same day.
RecoveredOrSibling ==
    \A x \in passed : \E g \in Facts : \E e \in EventsOf(g) :
        /\ Siblings(x.fact, g)
        /\ e.type = "media.deleted" => e.at - AtOf[x.fact] \in -1 .. 1

\* Two facts are never one event, however alike they are: the discriminators in
\* the keys tell them apart.
FactsStayApart == \A f, g \in Facts : f # g => EventsOf(f) \cap EventsOf(g) = {}

\* An event points at the row of its own title, and still does after any number
\* of backfills: where its ref carries ids, the row has one of them.
EventsPointHome ==
    \A e \in events :
        e.ref # None =>
            (HasId(e.ref) => e.media # NoRow /\ ShareId(media[e.media], e.ref))
=============================================================================
