------------------------------ MODULE Lifecycle ------------------------------
(***************************************************************************)
(* What the timeline promises of the requests it shows, without threads,   *)
(* lookups and transactions.  An event is stored, then it moves one chain  *)
(* in one step: its own, or else an open one of its media, or else a new   *)
(* one.  A chain that is closed, or further on, is not moved.              *)
(***************************************************************************)
EXTENDS Integers

CONSTANTS
    Requests,       \* a chain is named by the request that opened it
    Events,         \* [req, state, media]
    None,           \* no media
    Closing,        \* states that end a request
    StateRank       \* how far on a state is, -1 for that of a chain that is not there

VARIABLES
    keys,           \* what is stored: <<request, state>>
    chains,         \* chains[r]: [state, closed, media]
    told            \* events whose chains show them

timeline == <<keys, chains, told>>

There(r) == StateRank[chains[r].state] >= 0
Waiting(m) == {r \in Requests : There(r) /\ ~chains[r].closed /\ chains[r].media = m}

Moved(row, e) ==
    IF row.closed \/ StateRank[e.state] < StateRank[row.state] THEN row
    ELSE [state |-> e.state, closed |-> e.state \in Closing,
          media |-> IF row.media = None THEN e.media ELSE row.media]

Init ==
    /\ keys = {} /\ told = {}
    /\ chains = [r \in Requests |-> [state |-> "none", closed |-> FALSE, media |-> None]]

Store(e) ==
    /\ keys' = keys \cup {<<e.req, e.state>>}
    /\ UNCHANGED <<chains, told>>

\* The chains that e may move: the choice between several of its media is free.
Target(e) ==
    IF There(e.req) \/ e.media = None \/ Waiting(e.media) = {} THEN {e.req}
    ELSE Waiting(e.media)

Tell(e) ==
    /\ <<e.req, e.state>> \in keys
    /\ \E r \in Target(e) : chains' = [chains EXCEPT ![r] = Moved(@, e)]
    /\ told' = told \cup {e}
    /\ UNCHANGED keys

Next == \E e \in Events : Store(e) \/ Tell(e)

Spec == Init /\ [][Next]_timeline
=============================================================================
