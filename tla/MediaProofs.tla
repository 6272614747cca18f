----------------------------- MODULE MediaProofs -----------------------------
(***************************************************************************)
(* Theorems about Media, for any set of refs.  Every step fills one row    *)
(* that the ref matches or appends the ref (Step); all else follows row by *)
(* row.                                                                    *)
(***************************************************************************)
EXTENDS Media, TLAPS

Values == {None} \cup UNION {{r.kind, r.tmdb, r.tvdb, r.imdb, r.title, r.year} : r \in Refs}

Rows == [kind : Values, tmdb : Values, tvdb : Values, imdb : Values, title : Values,
         year : Values]

MediaType == media \in Seq(Rows)

LEMMA RefsAreRows == \A r \in Refs : r \in Rows
<1> SUFFICES ASSUME NEW r \in Refs PROVE r \in Rows
  OBVIOUS
<1>1. r = [kind |-> r.kind, tmdb |-> r.tmdb, tvdb |-> r.tvdb, imdb |-> r.imdb,
           title |-> r.title, year |-> r.year]
  BY RefsAssumption DEF Ref
<1>2. /\ r.kind \in Values /\ r.tmdb \in Values /\ r.tvdb \in Values
      /\ r.imdb \in Values /\ r.title \in Values /\ r.year \in Values
  BY DEF Values
<1> QED
  BY <1>1, <1>2 DEF Rows

LEMMA FilledRow ==
    ASSUME NEW row \in Rows, NEW ref \in Rows
    PROVE  /\ Filled(row, ref) \in Rows
           /\ Filled(row, ref).kind = row.kind
           /\ Filled(row, ref).tmdb = Backfilled(row.tmdb, ref.tmdb)
           /\ Filled(row, ref).tvdb = Backfilled(row.tvdb, ref.tvdb)
           /\ Filled(row, ref).imdb = Backfilled(row.imdb, ref.imdb)
           /\ Filled(row, ref).title = Backfilled(row.title, ref.title)
           /\ Filled(row, ref).year = Backfilled(row.year, ref.year)
BY DEF Filled, Ref, Backfilled, Rows

\* A row that matches is of the ref's kind, and shares an id if the ref has one.
LEMMA Matching ==
    ASSUME NEW ref, NEW m \in Matches(ref)
    PROVE  /\ m \in DOMAIN media
           /\ media[m].kind = ref.kind
           /\ HasId(ref) => ShareId(media[m], ref)
           /\ Same(ref.tmdb, ref.tmdb) /\ media[m].tmdb = None => ByTmdb(ref) = {}
BY DEF Matches, ByTmdb, ByTvdb, ByImdb, ByTitle, KindMatches, HasId, ShareId, Same

LEMMA NoMatch ==
    ASSUME NEW ref, Matches(ref) = {}, ref.tmdb # None
    PROVE  ByTmdb(ref) = {}
BY DEF Matches, HasId

Filling(ref, m) ==
    /\ m \in Matches(ref)
    /\ Len(media') = Len(media)
    /\ media'[m] = Filled(media[m], ref)
    /\ \A n \in DOMAIN media : n # m => media'[n] = media[n]

Appending(ref, m) ==
    /\ Matches(ref) = {}
    /\ m = Len(media) + 1
    /\ Len(media') = Len(media) + 1
    /\ media'[m] = ref
    /\ \A n \in DOMAIN media : media'[n] = media[n]

LEMMA Step ==
    ASSUME MediaType, NEW ref \in Refs, NEW m \in RowsFor(ref), FindOrCreate(ref, m)
    PROVE  MediaType' /\ (Filling(ref, m) \/ Appending(ref, m))
<1>1. ref \in Rows
  BY RefsAreRows
<1>2. CASE Matches(ref) # {}
  <2>1. m \in Matches(ref) /\ m \in DOMAIN media
    BY <1>2, Matching DEF RowsFor
  <2>2. media' = [media EXCEPT ![m] = Filled(@, ref)]
    BY <2>1 DEF FindOrCreate
  <2>3. media[m] \in Rows
    BY <2>1 DEF MediaType
  <2>4. Filled(media[m], ref) \in Rows
    BY <1>1, <2>3, FilledRow
  <2> QED
    BY <2>1, <2>2, <2>4 DEF MediaType, Filling
<1>3. CASE Matches(ref) = {}
  <2>1. m = Len(media) + 1 /\ m \notin DOMAIN media
    BY <1>3 DEF RowsFor, MediaType
  <2>2. media' = Append(media, ref)
    BY <2>1 DEF FindOrCreate
  <2> QED
    BY <1>1, <1>3, <2>1, <2>2 DEF MediaType, Appending
<1> QED
  BY <1>2, <1>3

LEMMA TypeInvariant == MediaSpec => []MediaType
<1>1. MediaInit => MediaType
  BY DEF MediaInit, MediaType
<1>2. MediaType /\ [MediaNext]_media => MediaType'
  BY Step DEF MediaNext, MediaType
<1> QED
  BY <1>1, <1>2, PTL DEF MediaSpec

-----------------------------------------------------------------------------
\* One row per tmdb id

LEMMA UniqueStep ==
    ASSUME MediaType, TmdbUnique, NEW ref \in Refs, NEW m \in RowsFor(ref), FindOrCreate(ref, m)
    PROVE  TmdbUnique'
<1>0. ref \in Rows /\ (\A n \in DOMAIN media : media[n] \in Rows)
  BY RefsAreRows DEF MediaType
<1>1. CASE Filling(ref, m)
  <2>1. m \in DOMAIN media /\ DOMAIN media' = DOMAIN media
    BY <1>1, Matching, Step DEF Filling, MediaType
  <2>2. media'[m].kind = media[m].kind /\ media'[m].tmdb = Backfilled(media[m].tmdb, ref.tmdb)
    BY <1>0, <1>1, <2>1, FilledRow DEF Filling
  <2>3. ASSUME NEW n \in DOMAIN media, n # m, media[n].kind = media[m].kind
        PROVE  ~Same(media'[m].tmdb, media[n].tmdb)
    <3>1. CASE media[m].tmdb # None
      BY <2>1, <2>2, <2>3, <3>1 DEF Backfilled, TmdbUnique, Same
    <3>2. CASE media[m].tmdb = None /\ ref.tmdb # None
      <4>1. ByTmdb(ref) = {} /\ media[m].kind = ref.kind
        BY <1>1, <3>2, Matching DEF Filling, Same
      <4> QED
        BY <2>2, <2>3, <3>2, <4>1 DEF ByTmdb, KindMatches, Same, Backfilled
    <3>3. CASE media[m].tmdb = None /\ ref.tmdb = None
      BY <2>2, <3>3 DEF Backfilled, Same
    <3> QED
      BY <3>1, <3>2, <3>3
  <2>4. \A n \in DOMAIN media : n # m => media'[n] = media[n]
    BY <1>1 DEF Filling
  <2> SUFFICES ASSUME NEW n \in DOMAIN media, NEW k \in DOMAIN media, n # k,
                      media'[n].kind = media'[k].kind, Same(media'[n].tmdb, media'[k].tmdb)
               PROVE  FALSE
    BY <2>1 DEF TmdbUnique
  <2> QED
    BY <2>2, <2>3, <2>4 DEF TmdbUnique, Same
<1>2. CASE Appending(ref, m)
  <2>1. DOMAIN media' = DOMAIN media \cup {m} /\ m \notin DOMAIN media
    BY <1>2, Step DEF Appending, MediaType
  <2>2. ASSUME NEW n \in DOMAIN media, media[n].kind = ref.kind
        PROVE  ~Same(ref.tmdb, media[n].tmdb)
    <3>1. CASE ref.tmdb = None
      BY <3>1 DEF Same
    <3>2. CASE ref.tmdb # None
      BY <1>2, <2>2, <3>2, NoMatch DEF Appending, ByTmdb, KindMatches, Same
    <3> QED
      BY <3>1, <3>2
  <2> QED
    BY <1>2, <2>1, <2>2 DEF Appending, TmdbUnique, Same
<1> QED
  BY <1>1, <1>2, Step

\* However many sources tell of a film and in whatever order their ids come, the
\* lookups of find_or_create_media keep one row per tmdb id, without any index.
THEOREM OneRowPerTmdbId == MediaSpec => []TmdbUnique
<1>1. MediaInit => TmdbUnique
  BY DEF MediaInit, TmdbUnique
<1>2. MediaType /\ TmdbUnique /\ [MediaNext]_media => TmdbUnique'
  BY UniqueStep DEF MediaNext, TmdbUnique
<1> QED
  BY <1>1, <1>2, TypeInvariant, PTL DEF MediaSpec

-----------------------------------------------------------------------------
\* One title per row

\* What a filled row shares with a ref it owes to its own ids or to the ref
\* that filled it, which led to it by an id.
LEMMA FilledShares ==
    ASSUME NEW row \in Rows, NEW ref \in Refs, NEW r \in Refs, row.kind = ref.kind,
           ShareId(Filled(row, ref), r)
    PROVE  ShareId(row, r) \/ (HasId(ref) /\ ShareId(ref, r))
<1>1. ref \in Rows
  BY RefsAreRows
<1> QED
  BY <1>1, FilledRow DEF ShareId, Same, Backfilled, HasId

LEMMA PureStep ==
    ASSUME MediaType, RowsArePure, NEW ref \in Refs, NEW m \in RowsFor(ref), FindOrCreate(ref, m)
    PROVE  RowsArePure'
<1> SUFFICES ASSUME NEW n \in DOMAIN media', NEW r \in Refs, NEW s \in Refs,
                    ShareId(media'[n], r), ShareId(media'[n], s)
             PROVE  TitleOf[r] = TitleOf[s]
  BY DEF RowsArePure
<1>1. CASE Filling(ref, m)
  <2>1. m \in DOMAIN media /\ n \in DOMAIN media
    BY <1>1, Matching, Step DEF Filling, MediaType
  <2>2. CASE n # m
    BY <1>1, <2>1, <2>2 DEF Filling, RowsArePure
  <2>3. CASE n = m
    <3>1. media[m] \in Rows /\ media[m].kind = ref.kind
          /\ (HasId(ref) => ShareId(media[m], ref))
      BY <1>1, <2>1, Matching DEF Filling, MediaType
    <3>2. \A q \in {r, s} : ShareId(media[m], q) \/ (HasId(ref) /\ ShareId(ref, q))
      BY <1>1, <2>3, <3>1, FilledShares DEF Filling
    <3>3. ASSUME NEW q \in Refs, HasId(ref), ShareId(ref, q)
          PROVE  TitleOf[ref] = TitleOf[q]
      BY <3>3, IdsAssumption
    <3>4. ASSUME NEW q \in Refs, NEW p \in Refs, ShareId(media[m], q), ShareId(media[m], p)
          PROVE  TitleOf[q] = TitleOf[p]
      BY <2>1, <3>4 DEF RowsArePure
    <3> QED
      BY <3>1, <3>2, <3>3, <3>4
  <2> QED
    BY <2>2, <2>3
<1>2. CASE Appending(ref, m)
  <2>1. DOMAIN media' = DOMAIN media \cup {m}
    BY <1>2, Step DEF Appending, MediaType
  <2>2. CASE n \in DOMAIN media
    BY <1>2, <2>2 DEF Appending, RowsArePure
  <2>3. CASE n = m
    <3>1. ShareId(ref, r) /\ ShareId(ref, s)
      BY <1>2, <2>3 DEF Appending
    <3> QED
      BY <3>1, IdsAssumption
  <2> QED
    BY <2>1, <2>2, <2>3
<1> QED
  BY <1>1, <1>2, Step

\* Backfilling ids into rows never joins two titles, as long as an id names one
\* title of its kind: the columns of a row were all learnt of the same title.
THEOREM PureRows == MediaSpec => []RowsArePure
<1>1. MediaInit => RowsArePure
  BY DEF MediaInit, RowsArePure
<1>2. MediaType /\ RowsArePure /\ [MediaNext]_media => RowsArePure'
  BY PureStep DEF MediaNext, RowsArePure
<1> QED
  BY <1>1, <1>2, TypeInvariant, PTL DEF MediaSpec

-----------------------------------------------------------------------------
\* Nothing learnt is lost

Grown ==
    \A m \in DOMAIN media :
        /\ m \in DOMAIN media'
        /\ \A column \in DOMAIN media[m] :
            media[m][column] # None => media'[m][column] = media[m][column]

LEMMA FilledKeeps ==
    ASSUME NEW row \in Rows, NEW ref \in Rows, NEW column \in DOMAIN row, row[column] # None
    PROVE  Filled(row, ref)[column] = row[column]
<1>1. DOMAIN row = {"kind", "tmdb", "tvdb", "imdb", "title", "year"}
  BY DEF Rows
<1> QED
  BY <1>1, FilledRow DEF Backfilled, Rows

LEMMA GrowStep ==
    ASSUME MediaType, NEW ref \in Refs, NEW m \in RowsFor(ref), FindOrCreate(ref, m)
    PROVE  Grown
<1>0. ref \in Rows /\ (\A n \in DOMAIN media : media[n] \in Rows)
  BY RefsAreRows DEF MediaType
<1>1. DOMAIN media \subseteq DOMAIN media'
  BY Step DEF Filling, Appending, MediaType
<1>2. CASE Filling(ref, m)
  <2>1. m \in DOMAIN media
    BY <1>2, Matching DEF Filling
  <2>2. \A column \in DOMAIN media[m] :
            media[m][column] # None => media'[m][column] = media[m][column]
    BY <1>0, <1>2, <2>1, FilledKeeps DEF Filling
  <2> QED
    BY <1>1, <1>2, <2>2 DEF Filling, Grown
<1>3. CASE Appending(ref, m)
  BY <1>1, <1>3 DEF Appending, Grown
<1> QED
  BY <1>2, <1>3, Step

\* No call of find_or_create_media changes or clears a column a row has.
THEOREM GrowingRows == MediaSpec => RowsOnlyGrow
<1>1. MediaType /\ [MediaNext]_media => [Grown]_media
  BY GrowStep DEF MediaNext
<1> QED
  BY <1>1, TypeInvariant, PTL DEF MediaSpec, RowsOnlyGrow, Grown
=============================================================================
