-------------------------------- MODULE Retry --------------------------------
(***************************************************************************)
(* The retry delay both outboxes share: min(base * 2 ** attempts, cap).    *)
(***************************************************************************)
EXTENDS Naturals

\* backoff(base_seconds, attempts, cap_seconds).
Backoff(base, attempts, cap) ==
    IF base * 2^attempts \in 0 .. cap THEN base * 2^attempts ELSE cap
=============================================================================
