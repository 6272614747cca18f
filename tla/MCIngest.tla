------------------------------ MODULE MCIngest ------------------------------
\* A small instance of Ingest: p1 and p2 deliver the same body, which makes two
\* events, the first routed to two channels and the second to none; the
\* normalizer raises on the body of p3.  A redacted body makes the event u.
EXTENDS Ingest

CONSTANTS p1, p2, p3, k1, k2, u, c1, c2

Bodies == [p \in Posts |-> IF p = p3 THEN <<k2>> ELSE <<k1, k2>>]
Blind == <<u>>
Routes == [k \in Keys |-> IF k = k1 THEN {c1, c2} ELSE {}]
=============================================================================
