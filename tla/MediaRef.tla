------------------------------- MODULE MediaRef -------------------------------
\* What a source says of the title an event is about: schemas.MediaRef.
EXTENDS Naturals

CONSTANT None       \* an absent or empty JSON value, SQL NULL

\* find_or_create_media knows two kinds: season and episode are series.
Ref(kind, tmdb, tvdb, imdb, title, year) ==
    [kind |-> kind, tmdb |-> tmdb, tvdb |-> tvdb, imdb |-> imdb, title |-> title, year |-> year]

Or(a, b) == IF a # None THEN a ELSE b

Same(a, b) == a # None /\ a = b

HasId(ref) == ref.tmdb # None \/ ref.tvdb # None \/ ref.imdb # None

\* Two refs agree on an id of their kind.
ShareId(r, s) ==
    /\ r.kind = s.kind
    /\ Same(r.tmdb, s.tmdb) \/ Same(r.tvdb, s.tvdb) \/ Same(r.imdb, s.imdb)
=============================================================================
