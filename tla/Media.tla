-------------------------------- MODULE Media --------------------------------
(***************************************************************************)
(* Media identity: Store.find_or_create_media resolves what a source says  *)
(* of a title to one row of the media table.  Sources know different ids   *)
(* of it: radarr tmdb and imdb, sonarr tvdb and more, seerr tmdb or tvdb,  *)
(* tautulli perhaps a title and a year only.                               *)
(*                                                                         *)
(* The lookup and the write are one transaction, so one step.  Where a     *)
(* lookup has several matches, fetchone may return any of them.  Rows are  *)
(* never deleted; a row is named by the number of its insert.              *)
(***************************************************************************)
EXTENDS MediaRef, Integers, Sequences

CONSTANTS
    Refs,       \* the MediaRefs that normalizers and the reconcile job make
    TitleOf     \* the title in the world that a ref speaks of

ASSUME RefsAssumption ==
    \A r \in Refs : r = Ref(r.kind, r.tmdb, r.tvdb, r.imdb, r.title, r.year)

\* The ids of a kind tell titles apart.
ASSUME IdsAssumption == \A r, s \in Refs : ShareId(r, s) => TitleOf[r] = TitleOf[s]

VARIABLE media      \* the media table, in the order of its inserts

MediaInit == media = << >>

\* Mutant: a row of any kind matches.
KindIgnored(m, ref) == TRUE

KindMatches(m, ref) == media[m].kind = ref.kind

ByTmdb(ref) == {m \in DOMAIN media : KindMatches(m, ref) /\ Same(media[m].tmdb, ref.tmdb)}
ByTvdb(ref) == {m \in DOMAIN media : KindMatches(m, ref) /\ Same(media[m].tvdb, ref.tvdb)}
ByImdb(ref) == {m \in DOMAIN media : KindMatches(m, ref) /\ Same(media[m].imdb, ref.imdb)}

\* title = ? never matches NULL, year IS ? does.
ByTitle(ref) ==
    {m \in DOMAIN media :
        KindMatches(m, ref) /\ Same(media[m].title, ref.title) /\ media[m].year = ref.year}

\* Mutants: tmdb is not looked up; ids fall back on the title.
MatchesNoTmdb(ref) ==
    IF ~HasId(ref) THEN ByTitle(ref)
    ELSE IF ByTvdb(ref) # {} THEN ByTvdb(ref)
    ELSE ByImdb(ref)
MatchesTitleToo(ref) ==
    IF ByTmdb(ref) # {} THEN ByTmdb(ref)
    ELSE IF ByTvdb(ref) # {} THEN ByTvdb(ref)
    ELSE IF ByImdb(ref) # {} THEN ByImdb(ref)
    ELSE ByTitle(ref)

\* tmdb > tvdb > imdb; the title only for refs without any id.
Matches(ref) ==
    IF ~HasId(ref) THEN ByTitle(ref)
    ELSE IF ByTmdb(ref) # {} THEN ByTmdb(ref)
    ELSE IF ByTvdb(ref) # {} THEN ByTvdb(ref)
    ELSE ByImdb(ref)

Backfilled(old, new) == IF old = None THEN new ELSE old

Filled(row, ref) ==
    Ref(row.kind, Backfilled(row.tmdb, ref.tmdb), Backfilled(row.tvdb, ref.tvdb),
        Backfilled(row.imdb, ref.imdb), Backfilled(row.title, ref.title),
        Backfilled(row.year, ref.year))

\* What find_or_create_media(ref) may return: an old row, or the next new one.
RowsFor(ref) ==
    LET found == Matches(ref) IN IF found # {} THEN found ELSE {Len(media) + 1}

\* It returns m, one of RowsFor(ref).
FindOrCreate(ref, m) ==
    media' = IF m \in DOMAIN media THEN [media EXCEPT ![m] = Filled(@, ref)]
             ELSE Append(media, ref)

MediaNext == \E ref \in Refs : \E m \in RowsFor(ref) : FindOrCreate(ref, m)

MediaSpec == MediaInit /\ [][MediaNext]_media

-----------------------------------------------------------------------------
\* Properties

\* A tmdb id names at most one row of its kind, though no unique index of the
\* schema says so and rows take on ids from refs that other ids led to them.
TmdbUnique ==
    \A m, n \in DOMAIN media :
        media[m].kind = media[n].kind /\ Same(media[m].tmdb, media[n].tmdb) => m = n

\* Backfilling never mixes two titles: whatever order the ids come in, the refs
\* that share an id with one row speak of one title.
RowsArePure ==
    \A m \in DOMAIN media : \A r, s \in Refs :
        ShareId(media[m], r) /\ ShareId(media[m], s) => TitleOf[r] = TitleOf[s]

\* A row never loses or changes what it knows, and never goes away, so that the
\* events that point at it keep their title.
RowsOnlyGrow ==
    [][\A m \in DOMAIN media :
        /\ m \in DOMAIN media'
        /\ \A column \in DOMAIN media[m] :
            media[m][column] # None => media'[m][column] = media[m][column]]_media
=============================================================================
