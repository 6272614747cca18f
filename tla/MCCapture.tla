------------------------------ MODULE MCCapture ------------------------------
\* A small instance of Capture: facts of one film and of two series that share a
\* name, one of which seerr knows by the film's number at TMDB.
EXTENDS Capture

Title(kind, tmdb, tvdb, imdb, title) ==
    [kind |-> kind, tmdb |-> tmdb, tvdb |-> tvdb, imdb |-> imdb, title |-> title,
     year |-> None, local |-> "local"]

Film == Title("movie", "1", None, "i1", "Dune")
Series == Title("series", None, "v1", None, "Fargo")
SeriesOfPlex == Title("series", None, "v1", None, "Fargo (US)")
Remake == Title("series", "1", None, None, "Fargo")

Body(source, event, title) ==
    [source |-> source, event |-> event, t |-> title, upgrade |-> FALSE, episodes |-> << >>,
     download |-> None, file |-> None, body |-> "body", check |-> None, message |-> None,
     request |-> None, status |-> None, userId |-> None, user |-> None, item |-> None,
     session |-> None, progress |-> None]

Record(source, event, title, id) ==
    [source |-> source, event |-> event, t |-> title, upgrade |-> FALSE, episodes |-> << >>,
     download |-> None, id |-> id, request |-> None, status |-> None, userId |-> None,
     user |-> None, item |-> None, watched |-> FALSE]

TheFacts == {"pack", "gone1", "gone2", "ready", "seen"}

TheHooks ==
    [f \in TheFacts |->
        CASE f = "pack" -> [Body("sonarr", "Grab", Series) EXCEPT
                               !.episodes = <<"E1", "E2">>, !.download = "d1"]
          [] f = "gone1" -> [Body("radarr", "FileDelete", Film) EXCEPT !.file = "f1"]
          [] f = "gone2" -> [Body("radarr", "FileDelete", Film) EXCEPT !.file = "f2"]
          [] f = "ready" -> [Body("seerr", "MEDIA_AVAILABLE", Remake) EXCEPT
                                !.request = "q1", !.status = "PARTIALLY_AVAILABLE"]
          [] f = "seen" -> [Body("tautulli", "playback_stop", SeriesOfPlex) EXCEPT
                               !.userId = "a", !.item = "k1", !.progress = 90]]

TheRecords ==
    [f \in TheFacts |->
        CASE f = "pack" -> {[Record("sonarr", "grabbed", Series, id) EXCEPT
                                !.episodes = <<id>>, !.download = "d1"] : id \in {"E1", "E2"}}
          [] f \in {"gone1", "gone2"} -> {Record("radarr", "movieFileDeleted", Film, f)}
          [] f = "ready" -> {[Record("seerr", "pending", Remake, None) EXCEPT
                                 !.request = "q1", !.status = "partial"]}
          [] f = "seen" -> {[Record("tautulli", None, SeriesOfPlex, None) EXCEPT
                                !.userId = "a", !.item = "k1", !.watched = TRUE]}]

TheDays == [f \in TheFacts |-> IF f = "gone2" THEN 2 ELSE 0]
TheDelays == [f \in TheFacts |-> IF f = "gone1" THEN {0, 2} ELSE {0}]

Refs1(seq) == {seq[i].ref : i \in DOMAIN seq}
TheRefs ==
    UNION {Refs1(Normalized(TheHooks[f])) \cup UNION {Refs1(Recorded(r)) : r \in TheRecords[f]} :
               f \in TheFacts}
TheTitles ==
    [r \in TheRefs |->
        IF r.kind = "movie" THEN "film" ELSE IF r.tmdb = "1" THEN "remake" ELSE "series"]

\* The facts of the instance are such as the theorems of CaptureProofs speak of.
ASSUME IdsApart /\ OneTmdbId /\ DeletesHaveTmdb /\ DeletesHaveIds /\ TitlesKnown /\ DownloadsApart
=============================================================================
