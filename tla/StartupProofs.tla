---------------------------- MODULE StartupProofs ----------------------------
(***************************************************************************)
(* Theorems about Startup, for any number of statements, starts, stops and *)
(* routing.yaml files, each of any number of entries.                      *)
(***************************************************************************)
EXTENDS Startup, WellFoundedInduction, TLAPS

\* How far the schema is where the process stands, and that a torn one blocks
\* the script at its first statement.
SchemaInv ==
    /\ created \in 0 .. Statements
    /\ migrated => created = Statements
    /\ pc \in {"down", "script", "row", "sources", "users", "serving"}
    /\ pc \in {"sources", "users", "serving"} => migrated
    /\ pc = "row" => created = Statements
    /\ pc = "script" => ~migrated /\ step \in 1 .. Statements
    /\ torn => ~migrated /\ created > 0 /\ pc \in {"down", "script"}
    /\ torn /\ pc = "script" => step = 1

SourcesInv == pc \in {"users", "serving"} => config.sources \subseteq sources

LEMMA SchemaStep ==
    ASSUME SchemaInv, SourcesInv, [Next]_vars
    PROVE  SchemaInv' /\ SourcesInv'
<1> USE BoundsAssumption DEF schemaVars, peopleVars, eventVars
<1>1. CASE Start
  BY <1>1 DEF Start, Applied, SchemaInv, SourcesInv
<1>2. CASE Create
  <2>1. /\ pc = "script" /\ created < step /\ created' = step
        /\ UNCHANGED <<migrated, torn>>
        /\ \/ step = Statements /\ pc' = "row" /\ step' = step
           \/ step # Statements /\ pc' = "script" /\ step' = step + 1
    BY <1>2 DEF Create
  <2>2. ~torn
    BY <2>1 DEF SchemaInv
  <2> QED
    BY <2>1, <2>2 DEF SchemaInv, SourcesInv
<1>3. CASE CreateFails
  BY <1>3 DEF CreateFails, SchemaInv, SourcesInv
<1>4. CASE RecordMigration
  BY <1>4 DEF RecordMigration, SchemaInv, SourcesInv
<1>5. CASE SyncSources
  BY <1>5 DEF SyncSources, SchemaInv, SourcesInv
<1>6. CASE SyncUsers
  BY <1>6 DEF SyncUsers, SchemaInv, SourcesInv
<1>7. CASE \E i \in Identities : Credit(i) \/ IdentitySync(i)
  <2>1. UNCHANGED <<schemaVars, sources, pc, config>>
    BY <1>7 DEF Credit, IdentitySync
  <2> QED
    BY <2>1 DEF SchemaInv, SourcesInv
<1>8. CASE Stop
  <2>1. /\ pc # "down" /\ pc' = "down" /\ UNCHANGED <<created, migrated, step>>
        /\ torn' = (torn \/ (~migrated /\ created > 0))
    BY <1>8 DEF Stop
  <2>2. torn' => ~migrated /\ created > 0
    BY <2>1 DEF SchemaInv
  <2> QED
    BY <2>1, <2>2 DEF SchemaInv, SourcesInv
<1>9. CASE UNCHANGED vars
  BY <1>9 DEF vars, SchemaInv, SourcesInv
<1> QED
  BY <1>1, <1>2, <1>3, <1>4, <1>5, <1>6, <1>7, <1>8, <1>9 DEF Next, Boot

LEMMA SchemaInvariant == Spec => [](SchemaInv /\ SourcesInv)
<1>1. Init => SchemaInv /\ SourcesInv
  BY BoundsAssumption DEF Init, SchemaInv, SourcesInv
<1>2. (SchemaInv /\ SourcesInv) /\ [Next]_vars => (SchemaInv /\ SourcesInv)'
  BY SchemaStep
<1> QED
  BY <1>1, <1>2, PTL DEF Spec

\* A process that serves has the whole schema and a row for each of its sources,
\* after any crashes and with any routing.yaml.
THEOREM ServesReady == Spec => []ReadyToServe
<1>1. SchemaInv /\ SourcesInv => ReadyToServe
  BY DEF SchemaInv, SourcesInv, ReadyToServe
<1> QED
  BY <1>1, SchemaInvariant, PTL

TornIsDown == torn => pc \in {"down", "script"}

\* A migration torn by a crash keeps the process down for ever: no later start
\* gets past the script, whose first statement finds its table there.
THEOREM TornForEver == Spec => []TornIsDown /\ [][torn => torn']_torn
<1>1. SchemaInv => TornIsDown
  BY DEF SchemaInv, TornIsDown
<1>2. [Next]_vars => [torn => torn']_torn
  BY DEF Next, Boot, Start, Create, CreateFails, RecordMigration, SyncSources, SyncUsers, Credit,
         IdentitySync, Stop, schemaVars, vars
<1> QED
  BY <1>1, <1>2, SchemaInvariant, PTL DEF Spec

-----------------------------------------------------------------------------
\* The entries of routing.yaml

Last(n, entries) == n \in entries /\ \A k \in entries : k <= n

\* Some entries of a list have a last one: their distances from its end have a
\* least one.
LEMMA LastExists ==
    ASSUME NEW len \in Nat, NEW entries \in SUBSET (1 .. len), entries # {}
    PROVE  \E n \in entries : Last(n, entries)
<1> DEFINE Left == {len - n : n \in entries}
<1>0. \A n \in entries : n \in 1 .. len /\ len - n \in Nat
  OBVIOUS
<1>1. Left \subseteq Nat /\ Left # {}
  BY <1>0
<1>2. PICK x \in Left : \A y \in Left : ~(<<y, x>> \in OpToRel(<, Nat))
  <2> HIDE DEF Left
  <2> QED
    BY <1>1, NatLessThanWellFounded, WFMin
<1>3. \A y \in Left : x <= y
  <2>1. ASSUME NEW y \in Left
        PROVE  x <= y
    <3>1. x \in Nat /\ y \in Nat
      BY <1>1, <1>2
    <3>2. ~(y < x)
      <4> HIDE DEF Left
      <4> QED
        BY <1>2, <3>1 DEF OpToRel
    <3> QED
      BY <3>1, <3>2
  <2> QED
    BY <2>1
<1>4. PICK n \in entries : x = len - n
  BY <1>2
<1>5. \A k \in entries : k <= n
  BY <1>0, <1>3, <1>4
<1> QED
  BY <1>5 DEF Last

LEMMA LastIsMax ==
    ASSUME NEW len \in Nat, NEW entries \in SUBSET (1 .. len), NEW n, Last(n, entries)
    PROVE  Max(entries) = n
<1>1. \A x \in entries : (\A y \in entries : x >= y) <=> x = n
  BY DEF Last
<1>2. n \in entries
  BY DEF Last
<1> QED
  BY <1>1, <1>2 DEF Max

EntryType == [member : Members, active : BOOLEAN, identities : SUBSET Identities]

LEMMA ListingNumbers ==
    ASSUME config \in Configs
    PROVE  /\ config.users \in Seq(EntryType)
           /\ DOMAIN config.users = 1 .. Len(config.users) /\ Len(config.users) \in Nat
           /\ \A m : Entries(m) \subseteq DOMAIN config.users
           /\ \A i : Listing(i) \subseteq DOMAIN config.users
           /\ \A n \in DOMAIN config.users :
                 /\ config.users[n].member \in Members
                 /\ config.users[n].identities \subseteq Identities
<1>1. config.users \in Seq(EntryType)
  BY ConfigsAssumption DEF EntryType
<1>2. DOMAIN config.users = 1 .. Len(config.users) /\ Len(config.users) \in Nat
  BY <1>1
<1>3. \A n \in DOMAIN config.users : config.users[n] \in EntryType
  BY <1>1
<1>4. \A x \in EntryType : x.member \in Members /\ x.identities \subseteq Identities
  BY DEF EntryType
<1> QED
  BY <1>1, <1>2, <1>3, <1>4 DEF Entries, Listing

\* The last of some entries is one of them.
LEMMA LastIsOne ==
    ASSUME config \in Configs, NEW entries \in SUBSET DOMAIN config.users, entries # {}
    PROVE  \E n \in entries : LastOf(entries) = config.users[n] /\ LastOf(entries) \in EntryType
<1>1. PICK n \in entries : Last(n, entries)
  BY ListingNumbers, LastExists
<1>2. Max(entries) = n
  BY <1>1, ListingNumbers, LastIsMax
<1> QED
  BY <1>2, ListingNumbers DEF LastOf

\* The member who owns a listed identity is one whose entry lists it.
LEMMA OwnerListed ==
    ASSUME config \in Configs, NEW i \in Identities, Listing(i) # {}
    PROVE  /\ Owner(i) \in Members
           /\ Entries(Owner(i)) # {}
           /\ \E n \in DOMAIN config.users :
                  i \in config.users[n].identities /\ Owner(i) = config.users[n].member
<1>1. PICK n \in Listing(i) : LastOf(Listing(i)) = config.users[n] /\ LastOf(Listing(i)) \in EntryType
  BY ListingNumbers, LastIsOne
<1>2. n \in DOMAIN config.users /\ i \in config.users[n].identities
  BY DEF Listing
<1>3. Owner(i) = config.users[n].member /\ Owner(i) \in Members
  BY <1>1 DEF Owner, EntryType
<1> QED
  BY <1>2, <1>3 DEF Entries

-----------------------------------------------------------------------------
\* Who is mapped to whom

PeopleType ==
    /\ users \in [Members -> {"active", "inactive", Absent}]
    /\ identities \in [Identities -> Members \cup {Nobody, Absent}]
    /\ config \in Configs
    /\ \A i \in Identities : identities[i] \in Members => users[identities[i]] # Absent

\* A row of the map goes back to an entry that lists the identity.
MappedAsConfigured ==
    \A i \in Identities : identities[i] \in Members => <<i, identities[i]>> \in configured

UncreditedSeen == uncredited \subseteq Identities /\ \A i \in uncredited : identities[i] # Absent

CreditInv ==
    /\ credited \subseteq Identities \X Members
    /\ credited \subseteq configured

\* What MapFollowsConfig says, of the two tables apart: a later observation
\* changes neither.
LastEntryHolds ==
    pc = "serving" =>
        \A n \in DOMAIN config.users :
            /\ \A i \in Identities :
                  Last(n, Listing(i)) => identities[i] = config.users[n].member
            /\ \A m \in Members :
                  Last(n, Entries(m)) =>
                      users[m] = IF config.users[n].active THEN "active" ELSE "inactive"

PeopleInv == PeopleType /\ MappedAsConfigured /\ UncreditedSeen /\ CreditInv /\ LastEntryHolds

\* An observation changes only a row that was not there, and never to a member.
LEMMA ObservedRow ==
    ASSUME PeopleType, NEW i \in Identities, identities' = Observed(i)
    PROVE  /\ identities' \in [Identities -> Members \cup {Nobody, Absent}]
           /\ identities'[i] # Absent
           /\ \A k \in Identities :
                  \/ identities'[k] = identities[k]
                  \/ identities[k] = Absent /\ identities'[k] = Nobody
BY NamesAssumption DEF PeopleType, Observed

\* Nor does it disturb the invariant.
LEMMA ObservedKeeps ==
    ASSUME PeopleInv, NEW i \in Identities, identities' = Observed(i),
           UNCHANGED <<users, config, configured, credited, pc>>,
           uncredited' \in {uncredited, uncredited \cup {i}}
    PROVE  PeopleInv'
<1>1. PeopleType'
  BY ObservedRow, NamesAssumption DEF PeopleInv, PeopleType
<1>2. MappedAsConfigured'
  BY ObservedRow, NamesAssumption DEF PeopleInv, MappedAsConfigured
<1>3. UncreditedSeen'
  BY ObservedRow, NamesAssumption DEF PeopleInv, UncreditedSeen
<1>4. CreditInv'
  BY DEF PeopleInv, CreditInv
<1>5. LastEntryHolds'
  <2> SUFFICES ASSUME pc = "serving", NEW n \in DOMAIN config.users
               PROVE  /\ \A k \in Identities :
                            Last(n, Listing(k)) => identities'[k] = config.users[n].member
                      /\ \A m \in Members :
                            Last(n, Entries(m)) =>
                              users[m] = IF config.users[n].active THEN "active" ELSE "inactive"
    BY DEF LastEntryHolds, Last, Listing, Entries
  <2>1. config.users[n].member \in Members
    BY ListingNumbers DEF PeopleInv, PeopleType
  <2>2. \A k \in Identities : Last(n, Listing(k)) => identities[k] = config.users[n].member
    BY DEF PeopleInv, LastEntryHolds
  <2>3. \A k \in Identities : Last(n, Listing(k)) => identities'[k] = config.users[n].member
    BY <2>1, <2>2, ObservedRow, NamesAssumption DEF PeopleInv
  <2> QED
    BY <2>3 DEF PeopleInv, LastEntryHolds
<1> QED
  BY <1>1, <1>2, <1>3, <1>4, <1>5 DEF PeopleInv

LEMMA SyncKeeps ==
    ASSUME PeopleInv, SyncUsers
    PROVE  PeopleInv'
<1>1. /\ users' = [m \in Members |-> UserRow(m)]
      /\ identities' = [i \in Identities |-> Owner(i)]
      /\ configured' = configured \cup
             UNION {config.users[n].identities \X {config.users[n].member} :
                        n \in DOMAIN config.users}
      /\ UNCHANGED <<config, credited, uncredited>>
  BY DEF SyncUsers, eventVars
<1>2. config \in Configs
  BY DEF PeopleInv, PeopleType
<1>3. \A m \in Members : UserRow(m) \in {"active", "inactive", Absent}
  BY DEF PeopleInv, PeopleType, UserRow
<1>4. \A m \in Members : UserRow(m) = Absent => users[m] = Absent /\ Entries(m) = {}
  <2>1. Absent \notin {"active", "inactive"}
    BY NamesAssumption
  <2> QED
    BY <2>1 DEF UserRow
<1>5. ASSUME NEW i \in Identities, Listing(i) = {}
      PROVE  identities'[i] = identities[i]
  BY <1>1, <1>5 DEF Owner
<1>6. ASSUME NEW i \in Identities, Listing(i) # {}
      PROVE  /\ identities'[i] \in Members /\ Entries(identities'[i]) # {}
             /\ <<i, identities'[i]>> \in configured'
  <2>1. identities'[i] = Owner(i)
    BY <1>1
  <2>2. PICK n \in DOMAIN config.users :
            i \in config.users[n].identities /\ Owner(i) = config.users[n].member
    BY <1>2, <1>6, OwnerListed
  <2>3. <<i, Owner(i)>> \in config.users[n].identities \X {config.users[n].member}
    BY <2>2
  <2>4. <<i, Owner(i)>> \in configured'
    BY <1>1, <2>3
  <2> QED
    BY <1>2, <1>6, <2>1, <2>4, OwnerListed
<1>7. PeopleType'
  <2>1. \A i \in Identities : identities'[i] \in Members \cup {Nobody, Absent}
    BY <1>5, <1>6 DEF PeopleInv, PeopleType
  <2>2. ASSUME NEW i \in Identities, identities'[i] \in Members
        PROVE  users'[identities'[i]] # Absent
    BY <1>1, <1>4, <1>5, <1>6, <2>2 DEF PeopleInv, PeopleType
  <2> QED
    BY <1>1, <1>2, <1>3, <2>1, <2>2 DEF PeopleType
<1>8. MappedAsConfigured'
  BY <1>1, <1>5, <1>6 DEF PeopleInv, MappedAsConfigured
<1>9. UncreditedSeen'
  BY <1>1, <1>5, <1>6, NamesAssumption DEF PeopleInv, UncreditedSeen
<1>10. CreditInv'
  BY <1>1 DEF PeopleInv, CreditInv
<1>11. LastEntryHolds'
  <2> SUFFICES ASSUME NEW n \in DOMAIN config.users
               PROVE  /\ \A i \in Identities :
                            Last(n, Listing(i)) => identities'[i] = config.users[n].member
                      /\ \A m \in Members :
                            Last(n, Entries(m)) =>
                              users'[m] = IF config.users[n].active THEN "active" ELSE "inactive"
    BY <1>1 DEF LastEntryHolds, Last, Listing, Entries
  <2>1. ASSUME NEW i \in Identities, Last(n, Listing(i))
        PROVE  identities'[i] = config.users[n].member
    <3>1. Max(Listing(i)) = n /\ Listing(i) # {}
      BY <1>2, <2>1, ListingNumbers, LastIsMax DEF Last
    <3> QED
      BY <1>1, <3>1 DEF Owner, LastOf
  <2>2. ASSUME NEW m \in Members, Last(n, Entries(m))
        PROVE  users'[m] = IF config.users[n].active THEN "active" ELSE "inactive"
    <3>1. Max(Entries(m)) = n /\ Entries(m) # {}
      BY <1>2, <2>2, ListingNumbers, LastIsMax DEF Last
    <3> QED
      BY <1>1, <3>1 DEF UserRow, LastOf
  <2> QED
    BY <2>1, <2>2
<1> QED
  BY <1>7, <1>8, <1>9, <1>10, <1>11 DEF PeopleInv

LEMMA PeopleStep ==
    ASSUME PeopleInv, [Next]_vars
    PROVE  PeopleInv'
<1>1. ASSUME NEW i \in Identities, Credit(i)
      PROVE  PeopleInv'
  <2>1. UNCHANGED <<users, configured, pc, config>>
    BY <1>1 DEF Credit
  <2>2. CASE \E m \in Resolved(i) :
                 credited' = credited \cup {<<i, m>>} /\ UNCHANGED <<identities, uncredited>>
    <3>1. PICK m \in Resolved(i) :
              credited' = credited \cup {<<i, m>>} /\ UNCHANGED <<identities, uncredited>>
      BY <2>2
    <3>2. m \in Members /\ identities[i] = m
      BY DEF Resolved
    <3>3. <<i, m>> \in configured
      BY <3>2 DEF PeopleInv, MappedAsConfigured
    <3>4. CreditInv'
      BY <2>1, <3>1, <3>2, <3>3 DEF PeopleInv, CreditInv
    <3> QED
      BY <2>1, <3>1, <3>4 DEF PeopleInv, PeopleType, MappedAsConfigured, UncreditedSeen,
             LastEntryHolds, Last, Listing, Entries
  <2>3. CASE identities' = Observed(i) /\ uncredited' = uncredited \cup {i} /\ UNCHANGED credited
    BY <2>1, <2>3, ObservedKeeps
  <2> QED
    BY <1>1, <2>2, <2>3 DEF Credit
<1>2. ASSUME NEW i \in Identities, IdentitySync(i)
      PROVE  PeopleInv'
  BY <1>2, ObservedKeeps DEF IdentitySync, eventVars
<1>3. CASE SyncUsers
  BY <1>3, SyncKeeps
<1>4. ASSUME UNCHANGED <<users, identities, configured, credited, uncredited>>,
             config' \in Configs, pc' = "serving" => pc = "serving" /\ config' = config
      PROVE  PeopleInv'
  <2>1. LastEntryHolds'
    BY <1>4 DEF PeopleInv, LastEntryHolds, Last, Listing, Entries
  <2> QED
    BY <1>4, <2>1 DEF PeopleInv, PeopleType, MappedAsConfigured, UncreditedSeen, CreditInv
<1>5. CASE Start
  BY <1>4, <1>5 DEF Start, peopleVars, eventVars
<1>6. CASE Create \/ CreateFails \/ RecordMigration \/ SyncSources \/ Stop \/ UNCHANGED vars
  <2>1. /\ UNCHANGED <<users, identities, configured, credited, uncredited, config>>
        /\ pc' = "serving" => pc = "serving"
    BY <1>6 DEF Create, CreateFails, RecordMigration, SyncSources, Stop, peopleVars, eventVars, vars
  <2> QED
    BY <1>4, <2>1 DEF PeopleInv, PeopleType
<1> QED
  BY <1>1, <1>2, <1>3, <1>5, <1>6 DEF Next, Boot

LEMMA PeopleInvariant == Spec => []PeopleInv
<1>1. Init => PeopleInv
  BY NamesAssumption DEF Init, PeopleInv, PeopleType, MappedAsConfigured, UncreditedSeen, CreditInv,
         LastEntryHolds
<1> QED
  BY <1>1, PeopleStep, PTL DEF Spec

\* The rest of the state.
CountersInv ==
    /\ step \in 0 .. Statements /\ migrated \in BOOLEAN /\ torn \in BOOLEAN
    /\ stops \in 0 .. MaxStops

\* The state has its shape, and no restart or new routing.yaml leaves an identity
\* mapped to a member without a row.
THEOREM TypeCorrect == Spec => []TypeOK
<1>1. Init => CountersInv
  <2>1. 0 \in 0 .. Statements /\ 0 \in 0 .. MaxStops
    BY BoundsAssumption
  <2> QED
    BY <2>1, Zenon DEF Init, CountersInv
<1>2. SchemaInv /\ CountersInv /\ [Next]_vars => CountersInv'
  <2> SUFFICES ASSUME SchemaInv, CountersInv, [Next]_vars
               PROVE  CountersInv'
    OBVIOUS
  <2> USE BoundsAssumption DEF schemaVars
  <2>1. CASE Start
    BY <2>1 DEF Start, CountersInv
  <2>2. CASE Create
    <3>1. /\ pc = "script" /\ UNCHANGED <<migrated, torn, stops>>
          /\ \/ step' = step
             \/ step # Statements /\ step' = step + 1
      BY <2>2 DEF Create
    <3> QED
      BY <3>1 DEF CountersInv
  <2>3. CASE CreateFails \/ RecordMigration \/ SyncSources \/ SyncUsers \/ UNCHANGED vars
    <3>1. UNCHANGED <<step, torn, stops>> /\ migrated' \in {migrated, TRUE}
      BY <2>3 DEF CreateFails, RecordMigration, SyncSources, SyncUsers, vars
    <3> QED
      BY <3>1 DEF CountersInv
  <2>4. CASE Stop
    BY <2>4 DEF Stop, CountersInv
  <2>5. CASE \E i \in Identities : Credit(i) \/ IdentitySync(i)
    BY <2>5 DEF Credit, IdentitySync, CountersInv
  <2> QED
    BY <2>1, <2>2, <2>3, <2>4, <2>5 DEF Next, Boot
<1>3. SchemaInv /\ CountersInv /\ PeopleInv => TypeOK
  BY DEF SchemaInv, CountersInv, PeopleInv, PeopleType, CreditInv, UncreditedSeen, TypeOK
<1> QED
  BY <1>1, <1>2, <1>3, SchemaInvariant, PeopleInvariant, PTL DEF Spec

\* The last entry of routing.yaml decides: the map follows a new file at the next
\* start whatever it held before, and no observation takes an identity off it.
THEOREM FollowsConfig == Spec => []MapFollowsConfig
<1>1. PeopleInv => MapFollowsConfig
  <2> SUFFICES ASSUME PeopleInv, pc = "serving",
                      NEW n \in DOMAIN config.users, NEW i \in config.users[n].identities,
                      \A k \in n + 1 .. Len(config.users) :
                          i \notin config.users[k].identities
                              /\ config.users[k].member # config.users[n].member
               PROVE  /\ identities[i] = config.users[n].member
                      /\ Resolved(i) = {m \in {config.users[n].member} : config.users[n].active}
    BY DEF MapFollowsConfig
  <2>1. config.users[n] \in EntryType /\ n \in 1 .. Len(config.users) /\ Len(config.users) \in Nat
    BY ListingNumbers DEF PeopleInv, PeopleType
  <2>2. i \in Identities /\ config.users[n].member \in Members
    BY ListingNumbers DEF PeopleInv, PeopleType
  <2>3. \A k \in DOMAIN config.users : k <= n \/ k \in n + 1 .. Len(config.users)
    BY <2>1, ListingNumbers DEF PeopleInv, PeopleType
  <2>4. Last(n, Listing(i))
    BY <2>3 DEF Last, Listing
  <2>5. Last(n, Entries(config.users[n].member))
    BY <2>3 DEF Last, Entries
  <2>6. /\ identities[i] = config.users[n].member
        /\ users[config.users[n].member] = IF config.users[n].active THEN "active" ELSE "inactive"
    BY <2>2, <2>4, <2>5 DEF PeopleInv, LastEntryHolds
  <2> QED
    BY <2>2, <2>6 DEF Resolved
<1> QED
  BY <1>1, PeopleInvariant, PTL

\* Nobody is credited by guess, and no identity without a member is lost, with
\* any versions of routing.yaml and observations in any order.
THEOREM NoGuess == Spec => []NeverGuesses
<1>1. PeopleInv => NeverGuesses
  <2> SUFFICES ASSUME PeopleInv, NEW i \in uncredited
               PROVE  identities[i] = Nobody \/ <<i, identities[i]>> \in configured
    BY DEF NeverGuesses, PeopleInv, CreditInv
  <2>1. i \in Identities /\ identities[i] # Absent
    BY DEF PeopleInv, UncreditedSeen
  <2> QED
    BY <2>1 DEF PeopleInv, PeopleType, MappedAsConfigured
<1> QED
  BY <1>1, PeopleInvariant, PTL
=============================================================================
