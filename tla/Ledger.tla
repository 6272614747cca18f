------------------------------- MODULE Ledger -------------------------------
(***************************************************************************)
(* What the notification ledger promises to the rest of the system and to  *)
(* the household, without passes, clocks, limiter or kill switch.  A row   *)
(* stands for one (event_key, channel) pair.  It is created once, tried    *)
(* while it is open, and settled once: "sent" only if the channel has a    *)
(* copy of its message, "dead" only if every try it is entitled to was     *)
(* made or there was nothing to send.                                      *)
(***************************************************************************)
EXTENDS Naturals

CONSTANTS
    Rows,           \* (event_key, channel) pairs, UNIQUE in the table
    Unrenderable,   \* rows whose message cannot be built
    Tries           \* sends a row is entitled to before it may be given up

VARIABLES
    life,       \* life[r]: "absent", "open", "sent" or "dead"
    tries,      \* tries[r]: sends begun for r
    copies      \* copies[r]: messages the channel got for r

ledgerVars == <<life, tries, copies>>

Init ==
    /\ life = [r \in Rows |-> "absent"]
    /\ tries = [r \in Rows |-> 0]
    /\ copies = [r \in Rows |-> 0]

Create(r) ==
    /\ life[r] = "absent"
    /\ life' = [life EXCEPT ![r] = "open"]
    /\ UNCHANGED <<tries, copies>>

Try(r) ==
    /\ life[r] = "open"
    /\ r \notin Unrenderable
    /\ tries' = [tries EXCEPT ![r] = @ + 1]
    /\ UNCHANGED <<life, copies>>

\* A try puts at most one copy in the channel, also when it is reported failed.
Deliver(r) ==
    /\ life[r] = "open"
    /\ copies[r] < tries[r]
    /\ copies' = [copies EXCEPT ![r] = @ + 1]
    /\ UNCHANGED <<life, tries>>

SettleSent(r) ==
    /\ life[r] = "open"
    /\ copies[r] > 0
    /\ life' = [life EXCEPT ![r] = "sent"]
    /\ UNCHANGED <<tries, copies>>

SettleDead(r) ==
    /\ life[r] = "open"
    /\ r \in Unrenderable \/ tries[r] >= Tries
    /\ life' = [life EXCEPT ![r] = "dead"]
    /\ UNCHANGED <<tries, copies>>

Next ==
    \E r \in Rows :
        Create(r) \/ Try(r) \/ Deliver(r) \/ SettleSent(r) \/ SettleDead(r)

Spec == Init /\ [][Next]_ledgerVars
=============================================================================
