------------------------------ MODULE MCChains ------------------------------
\* Small instances of Chains.
EXTENDS Chains

CONSTANTS worker, reconcile, q1, q2, m

On(r, states) == [req : {r}, state : states, media : {m}]
Bare(r, states) == [req : {r}, state : states, media : {None}]

\* Two requests for the same media, as for two seasons of a series, with the
\* whole lifecycle; the first is also reported without its media.
SameMedia ==
    On(q1, ChainStates) \cup On(q2, {"requested", "available", "declined"})
        \cup Bare(q1, {"requested"})

\* Fewer events, for two appliers.
Racing == On(q1, {"requested", "approved", "available"}) \cup On(q2, {"approved", "declined"})
              \cup Bare(q1, {"requested"})
=============================================================================
