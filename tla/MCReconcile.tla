---------------------------- MODULE MCReconcile ----------------------------
\* A sonarr-like source: e1 and e2 are records of one download.  The webhook of
\* e1 has the key of its record; the one of e2 covers more episodes and has a
\* key of its own, g.
EXTENDS Reconcile

CONSTANTS e1, e2, k1, k2, g

RecordKeys == [i \in Items |-> IF i = e1 THEN k1 ELSE k2]
HookKeys == [i \in Items |-> IF i = e1 THEN k1 ELSE g]
OneDownload == [i \in Items |-> Keys]
Everything == EventKeys
Exact == [w \in Times |-> w]
=============================================================================
