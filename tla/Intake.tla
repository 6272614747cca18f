------------------------------- MODULE Intake -------------------------------
(***************************************************************************)
(* What the inbound half owes the sources, without archive, claims, passes *)
(* and crashes.  A post is accepted once and then settled once: done, when *)
(* everything it says is stored and announced or silenced wherever it is   *)
(* routed to, or dead, when its failures are used up.                      *)
(***************************************************************************)
EXTENDS Integers, Functions

CONSTANTS
    Posts, Keys, Channels,
    EventsOf,       \* what a post says
    BlindEvents,    \* what it says once its body is taken away
    RoutesOf,       \* where an event has to be announced
    Invalid,        \* posts that are no JSON
    Poison,         \* posts that cannot be read while they have their body
    Missed,         \* events another source may bring too
    MaxAttempts

VARIABLES
    life,           \* "none", "pending", "done" or "dead"
    failures,       \* how often the post failed
    expired,        \* posts whose body is taken away
    events,         \* what is stored
    rows,           \* what is announced, <<event, channel>>
    silenced,       \* what is not going to be, <<event, channel>>
    quiet           \* nothing is to be announced

account == <<life, failures, expired, events, rows, silenced, quiet>>

Init ==
    /\ life = [p \in Posts |-> "none"]
    /\ failures = [p \in Posts |-> 0]
    /\ expired = {} /\ events = {} /\ rows = {} /\ silenced = {}
    /\ quiet = TRUE

\* What a post may be read as.
Readings(p) ==
    {EventsOf[q] : q \in {p} \ Poison} \cup {BlindEvents : q \in {p} \cap expired}

Told(key) == key \in events /\ {key} \X RoutesOf[key] \subseteq rows \cup silenced

Accept(p) ==
    /\ life[p] = "none"
    /\ life' = [life EXCEPT ![p] = IF p \in Invalid THEN "dead" ELSE "pending"]
    /\ UNCHANGED <<failures, expired, events, rows, silenced, quiet>>

Learn(key) ==
    /\ \/ key \in Missed
       \/ \E p \in Posts :
            /\ life[p] = "pending"
            /\ \E said \in Readings(p) : key \in Range(said)
    /\ events' = events \cup {key}
    /\ UNCHANGED <<life, failures, expired, rows, silenced, quiet>>

Announce(key) ==
    /\ key \in events
    /\ \E c \in RoutesOf[key] : rows' = rows \cup {<<key, c>>}
    /\ UNCHANGED <<life, failures, expired, events, silenced, quiet>>

Silence(key) ==
    /\ quiet
    /\ key \in events
    /\ silenced' = silenced \cup ({key} \X RoutesOf[key])
    /\ UNCHANGED <<life, failures, expired, events, rows, quiet>>

Finish(p) ==
    /\ life[p] = "pending"
    /\ \E said \in Readings(p) : \A key \in Range(said) : Told(key)
    /\ life' = [life EXCEPT ![p] = "done"]
    /\ UNCHANGED <<failures, expired, events, rows, silenced, quiet>>

Fail(p) ==
    /\ life[p] = "pending"
    /\ failures' = [failures EXCEPT ![p] = @ + 1]
    /\ life' = IF failures'[p] >= MaxAttempts THEN [life EXCEPT ![p] = "dead"] ELSE life
    /\ UNCHANGED <<expired, events, rows, silenced, quiet>>

Expire(old) ==
    /\ expired' = expired \cup old
    /\ UNCHANGED <<life, failures, events, rows, silenced, quiet>>

Quieten(on) ==
    /\ quiet' = on
    /\ UNCHANGED <<life, failures, expired, events, rows, silenced>>

Next ==
    \/ \E p \in Posts : Accept(p) \/ Finish(p) \/ Fail(p)
    \/ \E key \in Keys : Learn(key) \/ Announce(key) \/ Silence(key)
    \/ \E old \in SUBSET Posts : Expire(old)
    \/ \E on \in BOOLEAN : Quieten(on)

Spec == Init /\ [][Next]_account
=============================================================================
