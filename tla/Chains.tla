------------------------------- MODULE Chains -------------------------------
(***************************************************************************)
(* The request chains of correlate/engine.py: what Correlator.apply does   *)
(* to the timeline spine for one request.* event after another.            *)
(*                                                                         *)
(* Two threads are in apply at the same time: the outbox worker with what  *)
(* the webhooks brought, and the reconcile job with what it found missing. *)
(* The lock of Store covers one method, so the insert of the event, the    *)
(* two lookups of the chain and the write are four transactions, and the   *)
(* write acts on the row the lookups returned.  Events may be duplicated   *)
(* and come in any order.                                                  *)
(*                                                                         *)
(* Every request.* event carries a request id (normalize drops the others) *)
(* and the index on seerr_request_id is unique, so a chain is named by the *)
(* request that opened it.  opened_at is the time the source gives; which  *)
(* of several open chains is the newest is left open.                      *)
(***************************************************************************)
EXTENDS Integers

CONSTANTS
    Appliers,       \* threads that call Correlator.apply
    Reconcilers,    \* those that skip events that are stored already
    Requests,       \* seerr request ids
    Media,          \* rows of the media table
    None,           \* SQL NULL: no chain, no media
    Events          \* what the sources may report

ChainStates == {"requested", "approved", "partially_available", "available", "declined"}
Closing == {"declined", "available"}

ASSUME ThreadsAssumption == Reconcilers \subseteq Appliers
ASSUME NoneAssumption == None \notin Requests \cup Media
ASSUME EventsAssumption ==
    Events \subseteq [req : Requests, state : ChainStates, media : Media \cup {None}]

VARIABLES
    stored,     \* keys in the events table
    chain,      \* request_chains, by the request that opened the chain
    pc,         \* where each applier stands in apply
    ev,         \* the event it applies, None when it is idle
    found,      \* the chain its lookups returned
    seen,       \* the columns of that chain as they were returned
    applied     \* history: events apply returned for

threadVars == <<pc, ev, found, seen>>
vars == <<stored, chain, threadVars, applied>>

StateRank == [none |-> -1, requested |-> 0, approved |-> 1, partially_available |-> 2,
              available |-> 3, declined |-> 3]
Rank(state) == StateRank[state]

Row == [state : ChainStates \cup {"none"}, closed : BOOLEAN, media : Media \cup {None}]
NoRow == [state |-> "none", closed |-> FALSE, media |-> None]

Key(e) == <<e.req, e.state>>
Exists(r) == chain[r].state # "none"

Init ==
    /\ stored = {}
    /\ chain = [r \in Requests |-> NoRow]
    /\ pc = [a \in Appliers |-> "idle"]
    /\ ev = [a \in Appliers |-> None]
    /\ found = [a \in Appliers |-> None]
    /\ seen = [a \in Appliers |-> NoRow]
    /\ applied = {}

-----------------------------------------------------------------------------
\* The reconcile job looks the key up first; the worker applies what it got.
Start(a, e) ==
    /\ pc[a] = "idle"
    /\ a \in Reconcilers => Key(e) \notin stored
    /\ pc' = [pc EXCEPT ![a] = "insert"]
    /\ ev' = [ev EXCEPT ![a] = e]
    /\ UNCHANGED <<stored, chain, found, seen, applied>>

Returned(a) ==
    /\ pc' = [pc EXCEPT ![a] = "idle"]
    /\ ev' = [ev EXCEPT ![a] = None]
    /\ found' = [found EXCEPT ![a] = None]
    /\ seen' = [seen EXCEPT ![a] = NoRow]

\* Mutant: a deduplicated event does not advance its chain.
InsertNewOnly(a) ==
    /\ pc[a] = "insert"
    /\ stored' = stored \cup {Key(ev[a])}
    /\ IF Key(ev[a]) \in stored
       THEN Returned(a) /\ applied' = applied \cup {ev[a]}
       ELSE pc' = [pc EXCEPT ![a] = "byRequest"] /\ UNCHANGED <<ev, found, seen, applied>>
    /\ UNCHANGED chain

\* The chain is advanced for deduplicated events too.
Insert(a) ==
    /\ pc[a] = "insert"
    /\ stored' = stored \cup {Key(ev[a])}
    /\ pc' = [pc EXCEPT ![a] = "byRequest"]
    /\ UNCHANGED <<chain, ev, found, seen, applied>>

\* A lookup returned the row of r.
Found(a, r) ==
    /\ found' = [found EXCEPT ![a] = r]
    /\ seen' = [seen EXCEPT ![a] = chain[r]]
    /\ pc' = [pc EXCEPT ![a] = "write"]

FoundNothing(a, next) ==
    /\ found' = [found EXCEPT ![a] = None]
    /\ seen' = [seen EXCEPT ![a] = NoRow]
    /\ pc' = [pc EXCEPT ![a] = next]

\* Mutant: the result of the first lookup is used unchecked.
ByRequestUnchecked(a) ==
    /\ pc[a] = "byRequest"
    /\ Found(a, ev[a].req)
    /\ UNCHANGED <<stored, chain, ev, applied>>

ByRequest(a) ==
    /\ pc[a] = "byRequest"
    /\ IF Exists(ev[a].req) THEN Found(a, ev[a].req)
       ELSE FoundNothing(a, IF ev[a].media = None THEN "write" ELSE "byMedia")
    /\ UNCHANGED <<stored, chain, ev, applied>>

OpenFor(m) == {r \in Requests : Exists(r) /\ ~chain[r].closed /\ chain[r].media = m}

ByMedia(a) ==
    /\ pc[a] = "byMedia"
    /\ \/ \E r \in OpenFor(ev[a].media) : Found(a, r)
       \/ OpenFor(ev[a].media) = {} /\ FoundNothing(a, "write")
    /\ UNCHANGED <<stored, chain, ev, applied>>

Applied(a) ==
    /\ Returned(a)
    /\ applied' = applied \cup {ev[a]}
    /\ UNCHANGED stored

Create(a) ==
    LET e == ev[a] IN
    /\ pc[a] = "write" /\ found[a] = None
    /\ ~Exists(e.req)
    /\ chain' = [chain EXCEPT ![e.req] =
                  [state |-> e.state, closed |-> e.state \in Closing, media |-> e.media]]
    /\ Applied(a)

\* Mutants: the guards on the rank, and on the closed chain, are dropped.
StaleIfClosed(a) == seen[a].closed
StaleIfLower(a) == Rank(ev[a].state) < Rank(seen[a].state)

Stale(a) == seen[a].closed \/ Rank(ev[a].state) < Rank(seen[a].state)

Ignore(a) ==
    /\ pc[a] = "write" /\ found[a] # None
    /\ Stale(a)
    /\ UNCHANGED chain
    /\ Applied(a)

\* update_chain: which columns it sets is decided by the row that was read.
Updated(row, e, read) ==
    [state  |-> e.state,
     closed |-> IF e.state \in Closing THEN TRUE ELSE row.closed,
     media  |-> IF read.media = None /\ e.media # None THEN e.media ELSE row.media]

Advance(a) ==
    /\ pc[a] = "write" /\ found[a] # None
    /\ ~Stale(a)
    /\ chain' = [chain EXCEPT ![found[a]] = Updated(@, ev[a], seen[a])]
    /\ Applied(a)

\* apply raises, and its caller comes back to the event later or not at all:
\* the other thread created the same chain meanwhile (the unique index), a store
\* error, or the death of the process, which is a Fail of every applier.
Fail(a) ==
    /\ pc[a] # "idle"
    /\ Returned(a)
    /\ UNCHANGED <<stored, chain, applied>>

-----------------------------------------------------------------------------
Next ==
    \E a \in Appliers :
        \/ \E e \in Events : Start(a, e)
        \/ Insert(a) \/ ByRequest(a) \/ ByMedia(a)
        \/ Create(a) \/ Ignore(a) \/ Advance(a)
        \/ Fail(a)

Spec == Init /\ [][Next]_vars

-----------------------------------------------------------------------------
\* Properties

\* The state has the shape the code gives it; a row that an applier is about
\* to write exists.
TypeOK ==
    /\ stored \subseteq Requests \X ChainStates
    /\ chain \in [Requests -> Row]
    /\ pc \in [Appliers -> {"idle", "insert", "byRequest", "byMedia", "write"}]
    /\ ev \in [Appliers -> Events \cup {None}]
    /\ found \in [Appliers -> Requests \cup {None}]
    /\ seen \in [Appliers -> Row]
    /\ \A a \in Appliers :
        /\ pc[a] # "idle" => ev[a] \in Events
        /\ pc[a] = "byMedia" => ev[a].media # None
        /\ found[a] # None => Exists(found[a])
    /\ applied \subseteq Events

\* Whichever order the events come in, and however often, a chain never goes
\* back to an earlier stage of the lifecycle (engine.py:35).  With one applier.
ForwardOnly ==
    [][\A r \in Requests : Rank(chain[r].state) <= Rank(chain'[r].state)]_vars

\* A closed chain is never written again: it does not reopen, and a decline and
\* an availability do not overwrite each other.  With one applier.
ClosedIsFinal == [][\A r \in Requests : chain[r].closed => chain'[r] = chain[r]]_vars

\* closed_at is set exactly for the states that end a request, so that the list
\* of open chains holds the requests that still wait.  With one applier.
ClosedAgrees == \A r \in Requests : chain[r].closed <=> chain[r].state \in Closing

\* The chains an event may have been linked to.
LinkedTo(e) == {r \in Requests : r = e.req \/ (e.media # None /\ chain[r].media = e.media)}

\* No event is lost on the way to its chain, duplicates and crashes included:
\* after apply, a chain the event belongs to is closed if the event ends a
\* request, and otherwise closed or at the event's stage or beyond, so that the
\* open chains are the requests that still wait.  With one applier.
AppliedIsReflected ==
    \A e \in applied :
        \E r \in LinkedTo(e) :
            /\ Exists(r)
            /\ \/ chain[r].closed
               \/ e.state \notin Closing /\ Rank(e.state) <= Rank(chain[r].state)

\* Whatever the two threads do to each other's writes, the closing of a chain
\* survives: after a decline or a full availability was applied, a chain the
\* event belongs to is closed.
ClosingCloses ==
    \A e \in applied :
        e.state \in Closing => \E r \in LinkedTo(e) : Exists(r) /\ chain[r].closed

Timeline == INSTANCE Lifecycle WITH keys <- stored, chains <- chain, told <- applied

\* One applier's four transactions are one step to the reader of the timeline: what
\* the lookups said is still so at the write, whatever failed or died before.
AppliesAtomically == Timeline!Spec

-----------------------------------------------------------------------------
\* What the repository says of this code and the code does not do

\* 0001_initial.sql:67, "Timeline spine: one chain per Seerr request lifecycle."
OneChainPerRequest == \A e \in applied : Exists(e.req)
=============================================================================
