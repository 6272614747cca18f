-------------------------------- MODULE Keys --------------------------------
(***************************************************************************)
(* What one fact of a source is called in the event store: the normalizers *)
(* derive source_event_key, type and MediaRef from a webhook's body, the   *)
(* reconcile job derives them again from the record the source's API keeps *)
(* of the same fact.  The two derivations share no code; that they agree   *)
(* is what keeps a fact from being stored and announced twice.             *)
(*                                                                         *)
(* A key is the sequence of its segments, a source is named by its kind,   *)
(* and a body or file that is hashed into a key is an atom of its own.     *)
(***************************************************************************)
EXTENDS MediaRef, Integers, Sequences

CONSTANTS
    WatchedTrigger,     \* watch_completion.tautulli_watched_trigger
    Threshold           \* watch_completion.progress_threshold

ASSUME WatchAssumption == WatchedTrigger \in BOOLEAN /\ Threshold \in Nat

Event(type, key, ref) == [type |-> type, key |-> key, ref |-> ref]

Kind(t) == IF t.kind = "series" THEN "series" ELSE "movie"

-----------------------------------------------------------------------------
\* Radarr and Sonarr

ProviderId(p) == IF p.source = "radarr" THEN p.t.tmdb ELSE p.t.tvdb
TitleKey(p) == Or(ProviderId(p), p.t.local)

\* _ep_key: the episodes of the payload, S00E00 for none; radarr has no segment.
Parts(source, episodes) ==
    IF source = "radarr" THEN << >>
    ELSE IF episodes = << >> THEN << <<"S00E00">> >> ELSE << episodes >>

ArrHookRef(p) ==
    IF p.source = "radarr" THEN Ref("movie", p.t.tmdb, None, p.t.imdb, p.t.title, p.t.year)
    ELSE Ref("series", p.t.tmdb, p.t.tvdb, p.t.imdb, p.t.title, p.t.year)

\* One event for each eventType; a pack of episodes stays one event.
ArrGrab(p) ==
    Event("media.grabbed",
          <<p.source, "media.grabbed", TitleKey(p)>> \o Parts(p.source, p.episodes)
              \o <<Or(p.download, p.body)>>,
          ArrHookRef(p))

ArrImport(p) ==
    LET type == IF p.upgrade THEN "media.upgraded" ELSE "media.imported" IN
    Event(type,
          <<p.source, type, TitleKey(p)>> \o Parts(p.source, p.episodes)
              \o <<Or(p.download, p.file)>>,
          ArrHookRef(p))

\* Mutant: the file is not part of the key.
ArrFileDeleteOfTitle(p) ==
    Event("media.deleted",
          <<p.source, "media.deleted", "file", TitleKey(p)>> \o Parts(p.source, p.episodes),
          ArrHookRef(p))

ArrFileDelete(p) ==
    Event("media.deleted",
          <<p.source, "media.deleted", "file", TitleKey(p)>> \o Parts(p.source, p.episodes)
              \o <<p.file>>,
          ArrHookRef(p))

ArrTitleDelete(p) ==
    Event("media.deleted", <<p.source, "media.deleted", Kind(p.t), TitleKey(p)>>, ArrHookRef(p))

\* The key has no instant: an issue that comes back after its repair, word for
\* word, is the same event.
ArrHealth(p, state) == Event("health.issue", <<p.source, state, p.check, p.message>>, None)

Unknown(p) == Event("source.unknown", <<p.source, "unknown", p.event, p.body>>, None)

ArrHook(p) ==
    << CASE p.event = "Grab" -> ArrGrab(p)
         [] p.event = "Download" -> ArrImport(p)
         [] p.event = "FileDelete" -> ArrFileDelete(p)
         [] p.event = "TitleDelete" -> ArrTitleDelete(p)
         [] p.event = "Health" -> ArrHealth(p, "health.issue")
         [] p.event = "HealthRestored" -> ArrHealth(p, "health.restored")
         [] OTHER -> Unknown(p) >>

\* _ARR_HISTORY_TYPES, and isUpgrade in the record's data.  Other kinds of
\* history, and records without a title, are never synthesized.
ArrRecordType(r) ==
    CASE r.event = "grabbed" -> "media.grabbed"
      [] r.event = "downloadFolderImported" ->
             IF r.upgrade THEN "media.upgraded" ELSE "media.imported"
      [] r.event \in {"movieFileDeleted", "episodeFileDeleted"} -> "media.deleted"
      [] OTHER -> None

ArrRecordRef(r) ==
    IF r.source = "radarr" THEN Ref("movie", r.t.tmdb, None, r.t.imdb, r.t.title, r.t.year)
    ELSE Ref("series", r.t.tmdb, r.t.tvdb, None, r.t.title, r.t.year)

ArrRecord(r) ==
    LET type == ArrRecordType(r)
        scope == IF type = "media.deleted" THEN <<"file">> ELSE << >>
    IN
    IF type = None THEN << >>
    ELSE << Event(type,
                  <<r.source, type>> \o scope \o <<TitleKey(r)>> \o Parts(r.source, r.episodes)
                      \o <<Or(r.download, r.id)>>,
                  ArrRecordRef(r)) >>

-----------------------------------------------------------------------------
\* Seerr

SeerrType(event) ==
    CASE event = "MEDIA_PENDING" -> "request.created"
      [] event \in {"MEDIA_APPROVED", "MEDIA_AUTO_APPROVED"} -> "request.approved"
      [] event = "MEDIA_DECLINED" -> "request.declined"
      [] event = "MEDIA_AVAILABLE" -> "request.available"
      [] OTHER -> None

SeerrHookRef(p) ==
    IF p.t.tmdb = None /\ p.t.tvdb = None /\ p.t.title = None THEN None
    ELSE Ref(Kind(p.t), p.t.tmdb, p.t.tvdb, None, p.t.title, p.t.year)

SeerrHook(p) ==
    LET type == SeerrType(p.event)
        status == IF type = "request.available" THEN <<Or(p.status, "AVAILABLE")>> ELSE << >>
    IN
    << IF p.request = None THEN Unknown(p)
       ELSE IF type # None
       THEN Event(type, <<p.source, type, p.request>> \o status, SeerrHookRef(p))
       ELSE IF p.event = "MEDIA_FAILED"
       THEN Event("health.issue", <<p.source, "health.issue", "request", p.request>>,
                  SeerrHookRef(p))
       ELSE Unknown(p) >>

StatusLabel(r) == IF r.status = "available" THEN "AVAILABLE" ELSE "PARTIALLY_AVAILABLE"

\* Everything the request list says by now of one request.
SeerrExpected(r) ==
    LET ref == Ref(Kind(r.t), r.t.tmdb, r.t.tvdb, None, None, None)
        Step(type) == Event(type, <<r.source, type, r.request>>, ref)
    IN
    << Step("request.created") >>
        \o (CASE r.event = "approved" -> << Step("request.approved") >>
              [] r.event = "declined" -> << Step("request.declined") >>
              [] OTHER -> << >>)
        \o (IF r.status \in {"available", "partial"}
            THEN << Event("request.available",
                          <<r.source, "request.available", r.request, StatusLabel(r)>>, ref) >>
            ELSE << >>)

-----------------------------------------------------------------------------
\* Tautulli

\* Music tracks have no media.
TautulliHookRef(p) ==
    IF p.t.kind = "track" THEN None
    ELSE Ref(Kind(p.t), p.t.tmdb, p.t.tvdb, None, p.t.title, p.t.year)

UserKey(p) == Or(p.userId, Or(p.user, "unknown"))
ItemKey(p) == Or(p.item, p.body)

Playback(p, type) ==
    Event(type, <<p.source, type, UserKey(p), Or(p.session, "nosession"), ItemKey(p)>>,
          TautulliHookRef(p))

\* No instant either: to watch an item again is the same event.
Watched(p) ==
    Event("watch.completed", <<p.source, "watch.completed", UserKey(p), ItemKey(p)>>,
          TautulliHookRef(p))

\* A stop past the threshold counts as watched where no watched trigger is set up.
TautulliHook(p) ==
    CASE p.event = "playback_start" -> << Playback(p, "playback.started") >>
      [] p.event = "playback_stop" ->
             IF ~WatchedTrigger /\ p.progress # None /\ p.progress >= Threshold
             THEN << Playback(p, "playback.stopped"), Watched(p) >>
             ELSE << Playback(p, "playback.stopped") >>
      [] p.event = "watched" -> << Watched(p) >>
      [] OTHER -> << Unknown(p) >>

\* The history has the title and the year, but no ids.
TautulliRecord(r) ==
    IF ~r.watched THEN << >>
    ELSE << Event("watch.completed", <<r.source, "watch.completed", UserKey(r), r.item>>,
                  Ref(Kind(r.t), None, None, None, r.t.title, r.t.year)) >>

-----------------------------------------------------------------------------
\* normalize of a webhook's body, and the events a record of the API stands for.
Normalized(p) ==
    CASE p.source \in {"radarr", "sonarr"} -> ArrHook(p)
      [] p.source = "seerr" -> SeerrHook(p)
      [] p.source = "tautulli" -> TautulliHook(p)

Recorded(r) ==
    CASE r.source \in {"radarr", "sonarr"} -> ArrRecord(r)
      [] r.source = "seerr" -> SeerrExpected(r)
      [] r.source = "tautulli" -> TautulliRecord(r)
=============================================================================
