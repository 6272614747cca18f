------------------------------- MODULE Startup -------------------------------
(***************************************************************************)
(* How the process comes up and whom it credits: Store._migrate, the sync  *)
(* of routing.yaml into the tables, and the identity map that resolve_user *)
(* and identity_sync read and add to.                                      *)
(*                                                                         *)
(* sqlite3 runs DDL and executescript outside of any transaction: every    *)
(* statement of the migration is durable on its own, and the row that says *)
(* the migration is done is a transaction after it.  There is one          *)
(* migration so far.  Every start may find another routing.yaml, and a     *)
(* stopped process is started again.                                       *)
(*                                                                         *)
(* An identity is a <<provider, external_id>>; a member is the slug of a   *)
(* display name, under which two entries of routing.yaml may meet.         *)
(***************************************************************************)
EXTENDS Naturals, Sequences, FiniteSetsExt

CONSTANTS
    Identities,
    Members,
    Configs,        \* [sources, users]: what routing.yaml may say at a start
    Statements,     \* CREATE statements of 0001_initial.sql
    Nobody,         \* user_id NULL
    Absent,         \* no row
    MaxStops        \* bound: crashes and redeployments

ASSUME ConfigsAssumption ==
    \A c \in Configs :
        c.users \in Seq([member : Members, active : BOOLEAN, identities : SUBSET Identities])
ASSUME NamesAssumption ==
    Nobody \notin Members /\ Absent \notin Members \cup {Nobody, "active", "inactive"}
ASSUME BoundsAssumption == Statements \in Nat \ {0} /\ MaxStops \in Nat

VARIABLES
    created,        \* how many of the objects of the migration exist
    migrated,       \* its row in schema_migrations
    sources,        \* rows of sources
    users,          \* rows of users, Absent where there is none
    identities,     \* user_id of the rows of identities, Absent
    pc,             \* where the process stands
    step,           \* the statement of the script it is at
    config,         \* the routing.yaml it has loaded
    \* History, read by the properties only.
    torn,           \* it died between the first object and the row
    configured,     \* <<identity, member>> that was ever synced
    credited,       \* <<identity, member>> to which an event was credited
    uncredited,     \* identities of events stored without a user_id
    stops

schemaVars == <<created, migrated, step, torn>>
peopleVars == <<sources, users, identities, configured>>
eventVars == <<credited, uncredited>>
vars == <<schemaVars, peopleVars, eventVars, pc, config, stops>>

Init ==
    /\ created = 0 /\ migrated = FALSE /\ step = 0 /\ torn = FALSE
    /\ sources = {} /\ configured = {}
    /\ users = [m \in Members |-> Absent]
    /\ identities = [i \in Identities |-> Absent]
    /\ credited = {} /\ uncredited = {}
    /\ pc = "down" /\ config \in Configs
    /\ stops = 0

-----------------------------------------------------------------------------
\* Store.__init__

\* Mutants: the schema is taken for its row; the row is not read.
AnyTable == created > 0
NotRead == FALSE

Applied == migrated

\* load_config, the connection and the versions applied so far.
Start ==
    /\ pc = "down"
    /\ config' \in Configs
    /\ pc' = IF Applied THEN "sources" ELSE "script"
    /\ step' = 1
    /\ UNCHANGED <<created, migrated, torn, peopleVars, eventVars, stops>>

\* One statement of the script.
Create ==
    /\ pc = "script"
    /\ created < step
    /\ created' = step
    /\ IF step = Statements THEN pc' = "row" /\ UNCHANGED step
       ELSE step' = step + 1 /\ UNCHANGED pc
    /\ UNCHANGED <<migrated, torn, peopleVars, eventVars, config, stops>>

\* The object exists: the statement raises, and the process with it.
CreateFails ==
    /\ pc = "script"
    /\ created >= step
    /\ pc' = "down"
    /\ UNCHANGED <<schemaVars, peopleVars, eventVars, config, stops>>

RecordMigration ==
    /\ pc = "row"
    /\ migrated' = TRUE
    /\ pc' = "sources"
    /\ UNCHANGED <<created, step, torn, peopleVars, eventVars, config, stops>>

-----------------------------------------------------------------------------
\* build_runtime: rows are added and updated, none is deleted

SyncSources ==
    /\ pc = "sources"
    /\ sources' = sources \cup config.sources
    /\ pc' = "users"
    /\ UNCHANGED <<schemaVars, users, identities, configured, eventVars, config, stops>>

\* The entries of a member, and those that list an identity.
Entries(m) == {n \in DOMAIN config.users : config.users[n].member = m}
Listing(i) == {n \in DOMAIN config.users : i \in config.users[n].identities}

LastOf(entries) == config.users[Max(entries)]

\* Mutant: a row that is there stays as it is.
KeptOwner(i) ==
    IF identities[i] # Absent \/ Listing(i) = {} THEN identities[i]
    ELSE LastOf(Listing(i)).member

\* ON CONFLICT (provider, external_id) DO UPDATE, entry by entry: the last wins.
Owner(i) ==
    IF Listing(i) = {} THEN identities[i] ELSE LastOf(Listing(i)).member

\* Mutant: only members who are active get a row.
RowIfActive(m) ==
    IF \E n \in Entries(m) : config.users[n].active THEN "active" ELSE users[m]

UserRow(m) ==
    IF Entries(m) = {} THEN users[m]
    ELSE IF LastOf(Entries(m)).active THEN "active" ELSE "inactive"

\* All the entries of routing.yaml, in one transaction.
SyncUsers ==
    /\ pc = "users"
    /\ users' = [m \in Members |-> UserRow(m)]
    /\ identities' = [i \in Identities |-> Owner(i)]
    /\ configured' = configured \cup
           UNION {config.users[n].identities \X {config.users[n].member} :
                      n \in DOMAIN config.users}
    /\ pc' = "serving"
    /\ UNCHANGED <<schemaVars, sources, eventVars, config, stops>>

-----------------------------------------------------------------------------
\* Serving

\* resolve_identity: the active members the identity is mapped to.
Resolved(i) == {m \in Members : users[m] = "active" /\ identities[i] = m}

\* Mutant: nothing is inserted.
Unobserved(i) == identities

\* INSERT OR IGNORE of a row without a member.
Observed(i) == IF identities[i] = Absent THEN [identities EXCEPT ![i] = Nobody] ELSE identities

\* resolve_user, and the event is stored.  The kind of source, an event of which
\* carries i, does not matter.
Credit(i) ==
    /\ pc = "serving"
    /\ \/ \E m \in Resolved(i) :
            credited' = credited \cup {<<i, m>>} /\ UNCHANGED <<identities, uncredited>>
       \/ /\ Resolved(i) = {}
          /\ identities' = Observed(i)
          /\ uncredited' = uncredited \cup {i}
          /\ UNCHANGED credited
    /\ UNCHANGED <<schemaVars, sources, users, configured, pc, config, stops>>

\* run_identity_sync finds i in the user list of a source.
IdentitySync(i) ==
    /\ pc = "serving"
    /\ Resolved(i) = {}
    /\ identities' = Observed(i)
    /\ UNCHANGED <<schemaVars, sources, users, configured, eventVars, pc, config, stops>>

\* A crash, or a new deployment.
Stop ==
    /\ pc # "down" /\ stops < MaxStops
    /\ stops' = stops + 1
    /\ pc' = "down"
    /\ torn' = (torn \/ (~migrated /\ created > 0))
    /\ UNCHANGED <<created, migrated, step, peopleVars, eventVars, config>>

Boot == Start \/ Create \/ CreateFails \/ RecordMigration \/ SyncSources \/ SyncUsers

Next ==
    \/ Boot \/ Stop
    \/ \E i \in Identities : Credit(i) \/ IdentitySync(i)

\* Whoever runs the process starts it again, and it goes on.
Spec == Init /\ [][Next]_vars /\ WF_vars(Boot)

-----------------------------------------------------------------------------
\* Properties

\* The state has the shape the code gives it; a member with an identity has a row.
TypeOK ==
    /\ created \in 0 .. Statements /\ step \in 0 .. Statements
    /\ migrated \in BOOLEAN /\ torn \in BOOLEAN
    /\ users \in [Members -> {"active", "inactive", Absent}]
    /\ identities \in [Identities -> Members \cup {Nobody, Absent}]
    /\ \A i \in Identities : identities[i] \in Members => users[identities[i]] # Absent
    /\ pc \in {"down", "script", "row", "sources", "users", "serving"}
    /\ config \in Configs
    /\ credited \subseteq Identities \X Members /\ uncredited \subseteq Identities
    /\ stops \in 0 .. MaxStops

\* Whatever died before, a process that serves has the whole schema and a row for
\* every source it lets post.
ReadyToServe ==
    pc = "serving" => migrated /\ created = Statements /\ config.sources \subseteq sources

\* The process comes up after every stop, except for ever after one that tore the
\* migration: the next start finds its objects, but not its row.
ServesUnlessTorn == []<>(pc = "serving") \/ <>torn

\* The entry of routing.yaml that lists an identity last, and is the last of its
\* member too, is the one that is credited if it is active: whatever the map said
\* before, and whatever was observed before or after the entry was there.
MapFollowsConfig ==
    pc = "serving" =>
        \A n \in DOMAIN config.users : \A i \in config.users[n].identities :
            (\A k \in n + 1 .. Len(config.users) :
                i \notin config.users[k].identities
                    /\ config.users[k].member # config.users[n].member)
            => /\ identities[i] = config.users[n].member
               /\ Resolved(i) = {m \in {config.users[n].member} : config.users[n].active}

\* "Costanza never guesses who someone is" (identity.py:7): an event is credited
\* only to a member under whom some routing.yaml listed this very identity, and
\* one whose events were stored without a member has its row: it is in the list of
\* unmapped identities, or on the map by now, be it under an inactive member.
NeverGuesses ==
    /\ credited \subseteq configured
    /\ \A i \in uncredited : identities[i] = Nobody \/ <<i, identities[i]>> \in configured
=============================================================================
