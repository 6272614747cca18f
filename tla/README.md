# Costanza in TLA+

Costanza takes the webhooks of a household's media services (Seerr, Radarr,
Sonarr, Tautulli), keeps them as canonical events in one SQLite file, and sends
a few of them on to Discord channels. It is one process: an asyncio event loop
with a web server, two worker loops and a scheduler, whose jobs and store work
run on threads. This directory holds a specification of its moving parts, the
TLC configurations that check them on small instances, and the proofs of the
properties that hold for every instance.

All paths below are relative to `src/costanza/` unless they start with `docs/`,
`fixtures/` or `tests/`.

## 1. The system

```
 sources --webhook--> ingest/routes --raw_events, outbox--> worker.outbox_loop
    ^                                                          |
    | poll                                     normalize, correlate, route
    |                                                          v
 jobs/reconcile ------------------> events, request_chains, notifications
 jobs/digest    ------------------------------------------^    |
 jobs/prune --> raw_events, outbox                   worker.notify_loop
 api (kill switch) --> kill_switch_audit                       v
                                              limits -> adapters/discord
```

Everything shared is in SQLite, behind one connection and one `RLock`
(`store/db.py`): **every `Store` method is one transaction, and nothing larger
is.** An operation that calls several of them can be interleaved with any other
thread, and can stop between any two. That is where the difficulty of this code
lies, and it is the grain of every model here: one action per `Store` call (or
per stretch of code between two of them).

### Components

| component | state | operations | with whom | hard behaviour | what makes it correct |
|---|---|---|---|---|---|
| Webhook ingest (`ingest/routes.py`, `sources.py`) | `raw_events`, `outbox` | archive, enqueue, dead-letter what is no JSON | sender; outbox worker | crash between the two writes; duplicates | a 202 is never forgotten |
| Outbox worker (`outbox.py`, `worker.py`) | `outbox` rows and their attempts | claim, process, done / retry / dead | ingest, correlation, ledger, prune | crash at any step, poison payloads, raw rows pruned or redacted meanwhile | done means stored and fanned out; one row's trouble is its own |
| Correlation (`correlate/engine.py`) | `events`, `request_chains` | `apply`, `_advance_chain` | called by the worker and by reconcile, at once | read-then-write across transactions, any order, duplicates | chains go forward, closing is final, no event is lost |
| Media (`Store.find_or_create_media`) | `media` | find by id or title, fill up, insert | correlation, reconcile | ids that arrive in pieces, from sources that know different ones | a row never mixes two titles; a tmdb id has one row; an event keeps its row |
| User identity (`Store.sync_users`, `correlate/identity.py`, `jobs/identity_sync.py`) | `users`, `identities` | sync from `routing.yaml`, resolve, observe | startup, correlation | identities observed before, after and between configurations | the map follows the configuration; nobody is guessed |
| Router (`notify/router.py`) | configuration | `channels_for` | pipeline, reconcile | none: a pure function | |
| Ledger and send pass (`notify/pipeline.py`, `worker.py`) | `notifications` | enqueue, claim, defer, send, record | router, digest, limiter, notifier | an await in the middle of a pass; send and record are two steps; retries | settled once, dead only after its tries, copies bounded |
| Rate limiter (`notify/limits.py`) | stamps per channel, in memory | `allow` | send pass | stamps carry the start of the pass; lost in a restart | no more than the budget leaves in the window |
| Kill switch (`notify/limits.py`, `api/app.py`) | newest `kill_switch_audit` row | `engaged`, `set` | pipeline, digest, reconcile, send pass | flipped at any time, read once per pass | what leaks is bounded; nothing floods when it goes off |
| Reconcile (`jobs/reconcile.py`) | `job_cursors`, events of origin `reconcile`, gap markers | poll, diff, repair, mark gap, advance the cursor | clients, correlation, ledger, worker | runs that die, things that happen during a run, webhooks that arrive late | nothing polled is missed; what it stored it announces; suppressed stays silent |
| Digest (`jobs/digest.py`) | `job_cursors`, one ledger row per period | period, enqueue, cursor, rendering | kill switch, ledger | crash between enqueue and cursor, double fires, rows sent weeks later | no instant skipped, none reported twice without a crash, each row tells its own week |
| Prune (`jobs/prune.py`) | `raw_events`, `outbox` | delete and redact | outbox worker | races the worker | nothing the queue refers to disappears |
| Discord adapter (`adapters/discord/adapter.py`) | client, supervising task | connect, reconnect, `send`, `stop` | send pass | a send that raises although the message went out | failures stay inside the port |
| Normalizers (`normalize/`) | none | payload to events, their keys and media | worker; their keys must meet those of reconcile | keys built in two places, without code in common | one event for one fact, and never one for two |
| Startup (`main.build_runtime`, `Store._migrate`, `sync_sources`) | `schema_migrations` and all tables | migrate, sync sources, sync users | everything | a crash at any statement | what serves is ready to |
| Clients (`clients/`) | none | paged GETs | reconcile, identity sync | a poll ends at its cap (arr.py:22, tautulli.py:23, seerr.py:16), and the cursor moves past what it left out | what had its place in the polls is covered |
| Renderer, statistics, read API, replay, configuration files, logging, metrics, CLI | none that the others read | | | | |

`docs/council/` and ADRs 7-11 describe a domain that has no code yet; it is not
part of the system.

## 2. The modules

| module | models | extended by |
|---|---|---|
| `Retry` | `outbox.backoff` | `Delivery`, `Ingest` |
| `Ledger` | the abstract promise of the ledger | instantiated by `Delivery` |
| `Delivery` | `notifications`, `send_due_once`, limiter, kill switch | `MCDelivery`, `DeliveryProofs` |
| `Intake` | the abstract promise of the inbound half | instantiated by `Ingest` |
| `Ingest` | the webhook handler, the outbox worker, prune, enqueue-time kill switch | `MCIngest`, `IngestProofs` |
| `Lifecycle` | the abstract promise of the request timeline | instantiated by `Chains` |
| `Chains` | `Correlator.apply` on request events, one or several appliers | `MCChains`, `ChainsProofs` |
| `Reconcile` | the reconcile job beside a live source, the worker and the switch | `MCReconcile`, `ReconcileProofs` |
| `MediaRef` | `schemas.MediaRef` | `Media`, `Keys` |
| `Media` | `find_or_create_media` for any refs; also the promise `Capture` implements | `Capture`, `MediaProofs` |
| `Keys` | what the normalizers make of a webhook and the reconcile job of a record | `Capture` |
| `Capture` | one event store and media table under the worker and the reconcile job | `MCCapture`, `CaptureProofs` |
| `Digest` | `run_digest`, its cursor, and what its rows report | `MCDigest`, `DigestProofs` |
| `Startup` | migration, source and user sync, identities while serving | `MCStartup`, `StartupProofs` |

The modules meet in the tables. `Ingest` and `Reconcile` end where a ledger row
is created, `Delivery` begins there; `Ingest`'s `EventBehindEveryRow` is the
reason why the `EventMissing` of `Delivery` is not reached for event rows.
`Ingest` and `Reconcile` each see the other as the few steps by which it writes
the shared tables (`StoredByReconcile`; `HookStored` and `HookAnnounced`), and
`Chains` takes the calls of `apply` both of them make. `Capture` composes
`Keys` and `Media`: it looks inside what is a constant elsewhere, `EventsOf` of
`Ingest` and `KeyOf`, `HookKeyOf`, `Alike` of `Reconcile`. The row a `Digest`
run enqueues goes on in `Delivery` like any other; `Digest` keeps of that only
that a row may be sent late, more than once, out of order or never. `Startup`
is what has happened before any of the others begins.

### Delivery

`status`, `attempts`, `wait` are columns of `notifications`; `kill` is the
newest audit row; `batch`, `inflight`, `lag` are the locals of `send_due_once`;
`window` is `RateLimiter._sent`. A pass is `Claim` (pipeline.py:115),
`CheckKill` (119), then per row `EventMissing` (127), `OverBudget` (132) or
`BeginSend` (137), `SendEnds`, and one of `RecordSent`, `RecordDead`,
`RecordRetry`. The await is the gap between `BeginSend` and `SendEnds`; with the
switch engaged every row takes `DeferForKill`. `Crash` loses the pass and the
limiter's stamps, `PassError` only the pass. `begun`, `delivered`, `handed`,
`leaked` are history.

Instants are kept relative to now (`wait`, `lag`, ages of stamps), so time has
no end in the model; `Ahead` converts a delay that the code counts from the
pass's own now.

`Ledger`, `Intake` and `Lifecycle` say what three of the parts owe, without claims,
passes, lookups and crashes: a row is settled once and sent only if delivered; a
post is settled once, done only with everything it says told; an event moves its
chain in one step. Each is a `PROPERTY` of a run (`KeepsPromise`,
`KeepsAccount`, `AppliesAtomically`) and the subject of a theorem.

### Ingest

`raw` and `age` are `raw_events`, `box`, `attempts`, `wait` are `outbox`,
`stored` is `events` by key, `ledger` is `notifications` by key and channel.
`Archive` and `EnqueueOutbox` are the handler's two writes. The worker goes
`Claim`, `Load` (`get_raw`), then for each event of the body `Apply`, `Route`
(allowlist and kill switch, read once per event), `EnqueueNotification` per
channel, at last `OutboxDone`, `OutboxRetry` or `OutboxDead`. `Raise` is any
exception out of `process`, `WorkerError` one outside it, `Crash` the process.
`Prune` is one transaction. What `normalize` makes of a body is the constant
`EventsOf`; of a redacted body, `BlindEvents`. `Account` maps this to `Intake`:
the row's state is the life of its post (a pruned row is still done), its
attempts are the post's failures, a body that is redacted or gone is expired;
`Archive`, `Claim`, `Load`, `Raise` and `Crash` are no step of it.

### Chains

`chain[r]` is the `request_chains` row that request `r` opened. `apply` is
`Insert`, `ByRequest`, `ByMedia`, then one of `Create`, `Advance`, `Ignore`:
four transactions, the last acting on `seen`, the row as the lookups returned
it. `Fail` is an exception or a crash between them; the outbox then repeats the
event, which is another `Start`. `Timeline` maps this to `Lifecycle` by the
tables alone: the lookups are no step, `Insert` stores, the last write tells. `requested_by` and `opened_at` are left out:
no decision of the code depends on the first, and for the second `ByMedia`
takes any open chain of the media where the code takes the newest.

### Reconcile

The source goes on beside the job: `Happen`, `HookLost`, `HookStored`,
`HookAnnounced`. A run is `StartRun` (window and now), `Fetch` (the poll), per
item `Known` (with `Repair`), `Collapsed` (the fuzzy lookups) or `Missing`
followed by `Synthesize` or `LateInsert` and `AnnounceRecovered`; then the gap
marker (`RepairMarker`, `MarkerExists`, `MarkGap`, `AnnounceGap`) and
`SetCursor`. `RunDies` ends a run anywhere, as a crash or an exception does.
One source is modelled, because the sources of a run share nothing; what
differs between their diffs is in the constants `Since`, `Alike`, `MarksGaps`.

A poll ends at its cap: `Reported` is what the source holds of the window, and
`Fetch` takes what fits (`FitsPoll`): at most `Cap` items, the newest ones where
the API sorts by date (`NewestFirst`; seerr's list has the server's order).
Records that no event is made of, failed grabs or partial plays, take places
too, so a poll may return fewer than `Cap` items and still be cut. The history
variable `cut` keeps what some poll had no place for.

architecture.md:147 says that "request/library/watch analytics can be trusted
after any outage". The code does not keep that: after an outage with more than
2000 history records or 500 plays, reconcile.py:156 moves the cursor past what
was cut, and no later run asks for it (but for a play of the day the cursor is
in). Seerr is asked for all its requests every time, and its cap of 5000 counts
those of all times. `TruthCovered` is therefore stated for items outside
`cut`, and `RecoveredIsAnnounced` for keys of which no item is in it: a run that
dies in a long backfill can store an item that newer ones have displaced when
the next run polls, and then nothing announces it. TLC violates either property
when its condition is dropped.

### Keys and Media

`Keys` is a table of pure operators. `Normalized` is what `normalize` returns
for the body of a webhook: for each source the type, the `source_event_key` and
the `MediaRef` of its events. `Recorded` is what `jobs/reconcile.py` derives
again from the API's record of the same fact. A key is the sequence of its
segments, so that `event_key_like` can look at its first three and its last.

`Media` is one action: the lookup (`Matches`: tmdb, tvdb, imdb, and the title
only for a ref without ids) and the write (`Filled`, or a new row) share one
transaction. Where several rows match, any may be returned.

### Capture

A fact is told by a webhook (`HookOf`) and by records (`RecordsOf`). `Deliver`
is one processed webhook, in time, late, again, or never; it is one step,
because the worker's media lookup and insert write different tables and
`Chains`, `Ingest` model what may come between them. The job's lookups and its
apply are separate transactions and separate steps: `Skip` (the exact or a
similar key is stored), `LookNear` (a delete, with its media resolved first),
`Look`, then `Apply`; `cur` is what it holds between them and `RunDies` loses
it. `passed` and `late` are history: records passed over though their fact was
not stored, and webhooks that came behind the job.

### Digest

`cursor` is the row of `job_cursors`, `rows` and `open` the ledger rows by
their key, which is a window. A run is `Begin` (now, `Since`, MIN_PERIOD), then
`Suppress` or `Enqueue` and `Advance`, with `Fail` between them. `Send` renders
a row from its own window (`KeyWindow`, `DigestData`); it may raise after that
and send it again, or the row may die. An item happens (`Occur`) and reaches
the store later (`StoreItem`).

### Startup

`created` counts the objects of the migration that exist, `migrated` is its row
in `schema_migrations`. A start is `Start`, `Create` statement by statement or
`CreateFails`, `RecordMigration`, `SyncSources`, `SyncUsers`; `Stop` ends the
process anywhere. `executescript` commits each statement on its own, so a stop
inside the script leaves the database torn. While serving, `Credit` is
`resolve_user` for an event, `IdentitySync` the job. `routing.yaml` may be
another one (`Configs`) at each start.

## 3. What is checked

Twelve runs. A property is chosen for a hazard that `PROJECT.json` lists at its
line; each is also broken by a plausible slip in the code (the mutants).

| run | instance | shows |
|---|---|---|
| `delivery_safety` | three rows, two channels, one row without its event; budget 1, batch 2, window 2, two attempts, one fault; fair | claims stay fresh over awaits, copies are bounded, at most one batch leaks through the switch, the budget holds for any real stretch of the window less the length of a pass, `Ledger` is implemented (settled once, sent only if delivered, dead only after its tries), every row settles once the switch stays off |
| `delivery_exactly_once` (finding) | two rows, one fault | a second copy of one message |
| `delivery_unavailable` (finding) | two rows, a notifier that always refuses | rows go dead |
| `ingest` | two deliveries of one body with two events (two channels, none) beside a poison post; one event also stored by reconcile; retention 0, one fault; fair | nothing accepted is lost, done means fanned out, `Intake` is implemented (settled once, no row or silence without its event, dead only for cause), only expired bodies are read blind, the poison charges the others nothing, every post leaves the queue, what was accepted fans out |
| `chains_worker` | one applier, two requests for one media, all states | forward only, what was applied shows and closing events close, the four transactions of `apply` act as the one step of `Lifecycle` |
| `chains_race` (finding) | worker and reconcile at once, six events | a chain goes back |
| `chains_merge` (finding) | one applier | a request without a chain of its own |
| `reconcile` | two records of one download, one with a webhook key of its own; three instants, polls with two, one or no places, one dying run | nothing before the cursor is missing but what was cut off, what was recovered and not cut off since is announced, suppressed stays silent |
| `reconcile_gap` (finding) | the same | a gap without its marker |
| `capture` | five facts of a film and two series of one name, from all four sources | a fact is one event whichever path told it, where its paths share an id; a record is passed over only for a sibling's event; two facts are never one event; events point at rows of their own title, whose ids stay unique and unmixed |
| `digest` | period 3, MIN_PERIOD 2, seven instants, one item, one crash | no instant skipped, overlaps only after a crash, the silenced stays silent, a digest misses only what came late |
| `startup` | three statements, three stops, four configurations of two members and three identities; restarted for ever | what serves is ready, the map follows the configuration, nobody is guessed, every uncredited identity has its row, the process comes up unless the migration was torn |

**Bounds and why they are enough.** Two rows of one channel make them compete
for the budget, a second channel shows that they do not compete across; a batch
smaller than the rows makes `LIMIT` bite; two attempts make a first, a last and
a retry. One fault places one crash at every point of every history, and the
proofs below need no bound on them. `MaxLag` bounds how long one pass may last;
it only matters to `RateHolds`, which names it. In `Chains` two requests are
the least that can share a media; the code has two appliers, the worker and the
reconcile job. In `Reconcile`, `MaxTime = 2` allows a
first run, one that dies and one that completes, at three different instants.
`Cap = 2` has places for both items, and as other records may take any of them,
each poll returns both, the newest or none.
In `Ingest`, retention 0 lets prune overtake whatever waits a tick; a body that
is no JSON (`Invalid`) is dead from the start and is left to the proofs.
In `Capture` each fact stands for a hazard: a pack of two episodes with one
webhook and two records, two deletes of one film two days apart (one told late),
a request partly available, a completed watch told without ids, and a series
that Seerr knows by a number which Radarr uses for the film. In `Digest` seven
instants hold three periods, so that a run can fall behind and a row be sent
after the next one. In `Startup` three statements have a first, a middle and a
last; three stops tear a migration and still restart afterwards; the
configurations hand an identity over, switch a member off, list one twice and
drop everybody.
No symmetry is used.

**Fairness.** `Delivery!FairSpec` has weak fairness of the pass, because
`notify_loop` is an endless loop that catches everything but its cancellation,
and of the clock. An await of `send` that never ends is thereby excluded: the
adapter relies on discord.py's own timeouts. `Ingest!FairSpec` has the same for
`outbox_loop`, and for the second write of a handler that has made the first
(no await stands between them). Nothing is assumed of producers, the kill
switch, prune or faults; faults are finitely many. `Startup!Spec` has weak
fairness of `Boot`: whoever runs the process starts it again, and a start goes
on until it serves or raises. `EveryRowSettles` is
conditional on the switch staying off, as an engaged switch defers for ever.

### Disagreements

Five statements of the repository do not hold of the code; each is the single
property of a run that TLC refutes (`findings` in `PROJECT.json`): delivery is
at least once, not exactly once; an unavailable adapter burns attempts to the
dead letter instead of leaving rows pending; a gap marker is lost when the run
that recovered the events dies; with two appliers a closed chain moves back;
and a second request for the same media shares the chain of the first.

## 4. What is proved

TLAPS checks these for all values of the constants that the named assumptions
allow: any number of rows, channels, items, appliers, faults.

* **DeliveryProofs.** `TypeCorrect`; `ClaimsStayFresh`; then `Inv`, which joins
  types, fresh claims and `AttemptsAccount`. Neither bound (`DeadAfterTries`,
  `CopiesAreBounded`) is inductive: each needs that attempts, sends begun and
  faults agree for every row, also in the middle of a send, and that the
  attempts a pass read are those of the table. `SettledForever` follows from
  fresh claims: a settled row is in no batch. `ImplementsLedger` maps an open
  row to "open" and shows that each step is a step of `Ledger` or a stutter.
  `LeakIsBounded` counts the claimed rows still to be handled against the
  sends already leaked (`LeakInv`, with finiteness of the batch).
  `RateIsHeld` needs the stamps ordered and none younger than the running pass,
  so that popping the expired ones takes a prefix and nothing recent; then,
  counted from the newest, every recent hand-over has a stamp at most one pass
  older than itself (`Covers`), and the stamps are no more than the budget
  (`RateInv`). That is why the bound is for `Window - MaxLag`, not `Window`.
  `OverrideSilences` has its own invariant `Frozen`: with the environment
  override no pass gets past `CheckKill`.
* **IngestProofs.** Nine theorems, the first eight for the safety properties of
  the module, from one invariant `IInv`. `TypeCorrect` is not inductive alone: that a routed
  event is an event of the row needs `Progress`. `AcceptedKept` needs
  `Lifecycle` (what the handler archived but has not queued is too young to be
  pruned; a body goes only past the retention). `DoneIsComplete` needs
  `Progress` (every event behind the current one is fanned out, and of the
  current one every channel but those still listed) and that events, rows and
  suppressions only accumulate. `SettledForGood` and `DeathHasCause` rest on
  `ClaimsFresh`, `FailuresPaid` on `RaisePaid` (the fault behind a raise is not
  yet an attempt). `AccountKept`: every step is a step of `Intake` or none. What
  the worker has in hand is a pending post (`InHand`), and what it says is one of
  the things the post may be read as, its own events or, once its body has
  expired, the blind ones; that a poison post is read only blind is an invariant
  added for it (`ReadsOnlyReadable`).
* **ChainsProofs.** With any number of appliers: `TypeCorrect`, and
  `ClosingSurvives` under `SameMedia` (events of one request agree on its
  media; the invariant adds that a chain's media comes from its own events and
  that what an applier holds is linked to its event). With one applier
  (`OneApplier`): `ClosedAgreesAlways`, `ChainsMoveForward`, `ClosedForever`,
  from the invariant that what the applier has seen is what the table holds;
  and `NothingIsLost` (`AppliedIsReflected`), which adds that the row an applier
  goes on with is one its event belongs to (`HeldBelongs`), and that a chain
  which has a media keeps it.
  `AppliesAsOne` is the refinement of `Lifecycle`: what the lookups found is
  still so when the last transaction writes (`LookupsHold`), and a row that is
  not there is blank (`AbsentIsBlank`). `chains_race` shows that `OneApplier`
  cannot be dropped; with two appliers TLC refutes `AppliesAtomically` as well.
  `OwnChains` is for any number of appliers again: as long as no two requests
  are for one media (`OwnMedia`), every request that applied an event has a
  chain of its own, as a chain found by media is then the request's own
  (`OwnInv`). So what `chains_merge` refutes comes from shared media alone.
* **ReconcileProofs.** `TypeCorrect`. `TruthIsCovered` from `CoverInv`: while a
  run is comparing, an item in its window that no poll cut off is on its list or
  represented, and afterwards represented (`DiffInv`; `CutGrows`: what was cut
  stays noted, so the condition only weakens with time); windows abut (`WindowInv`: the window of
  a run starts at the cursor and its now is the next one); events are never
  deleted (`EventsStay`). `QuietForever` from the same: what a completed run
  stored has a `received_at` that no later window start precedes.
  `RecoveredAnnounced`: what is stored and neither announced nor suppressed
  (`Pending`) is of a run that has not completed, so its `received_at` is past
  the cursor; the source still reports it to the next run, whose poll has a place
  for it by the condition, and a run that gets
  past the comparison has repaired it (`PendingInv`). `OwedInv` joins this to
  `CoverInv` and to what the run under way has already announced; markers, which
  no source reports, need `GapInv` and `MarkerInv` of their own. What runs
  without a cursor left behind has an invariant of its own, `FirstInv`: within
  the reach of the window it is still to be compared, or nothing of it is owed,
  and nothing can come to be owed once there is a cursor (`JobInserts`).
* **MediaProofs.** `OneRowPerTmdbId`, `PureRows`, `GrowingRows`. Each step fills
  one row that the ref matches or appends the ref when nothing does (`Step`).
  A row that lacks a tmdb id takes one only from a ref whose tmdb id no row
  has, because tmdb is looked up first: that is why ids stay unique without an
  index. Purity needs `IdsAssumption`, that an id of a kind names one title.
* **CaptureProofs.** `UsesMedia`: every step of the worker and the job together
  is one `find_or_create_media` or none, so `Capture` implements `Media` and
  inherits its theorems (`CaptureKeepsRows`). `PointHome` needs `Home`, which
  adds that the row the job holds between lookup and apply shares an id with
  its item too, and that no filling takes it away (`StaysHome`).
  `CaptureTypes` is the uniqueness of keys and that no pointer dangles.
  `OneEvent` has two halves. The first is about `Keys`: for every body and every
  record that agrees with it (`RecordsAssumption`), the two derivations give one
  key, source by source (`OneName`), unless the fact is a pack of episodes or a
  deleted file. The second is about those two: the records of a pack end with
  its download id, and `event_key_like` finds whatever is stored of it by that
  (`PackNames`); a delete resolves its media to the only row that has the tmdb
  id of its title (`TmdbInv`, `LookedAtTmdb`), where `has_event_near` finds the
  other one unless it is more than a day off. `OnceInv` says so of every state:
  while its webhook was not behind the job, such a fact has at most one event,
  and none while the job holds an item of it. `Recovered` shows the converse:
  nothing else is found. Each event was told by a webhook or a record of some
  fact (`AllTold`); a key that begins like the key of a grab or an import is one
  (`OtherPrefix`, through the keys of every event type of every source), and all
  deletes that point at a row are of one title, as rows are pure (`NearSibling`).
  `StayApart` is about `Keys` only: from `IdsApart`, a statement about ids, it
  follows that two facts have no event in common. Every key is read back to the
  source, the type and the id it was built from (`KeysApart`, from `TitleRead`,
  `FileRead`, `OtherArrRead`, `SeerrRead`, `TautulliRead`, one for each group of
  layouts), so no two layouts meet: not those with and without an episode, not the two scopes of a delete,
  not a webhook's key and the record's.
* **DigestProofs.** `TypeCorrect`; `NothingSkipped`, `SilenceKept` and
  `OverlapPaid` from `Timely` (windows begin at the cursor and end by now; a row
  that is enqueued but not yet the cursor belongs to the run under way) and an
  invariant each; `DigestsComplete` from the same with what was stored when.
* **StartupProofs.** `ServesReady` from `SchemaInv` (how far the schema is where
  the process stands); `TornForEver`: a torn migration keeps it down.
  `TypeCorrect`, `FollowsConfig` and `NoGuess` from `PeopleInv`: a mapped
  identity was configured under its owner, the identity of an uncredited event
  has a row, credits are configured, and while the process serves, the last
  entry of each identity and of each member holds, which no observation changes.

Assumptions are those named in the modules (`...Assumption`: positive limits,
functions of the right type, keys of markers distinct from keys of items,
`Since` not after the window start, refs that are `MediaRef`s and are listed,
ids that tell titles apart, records that say what their webhook says as far as
both say it, a positive MIN_PERIOD no longer than the period), which TLC
evaluates in every run, and hypotheses that a theorem names because the code
does not enforce them:

* `SameMedia` and `OneApplier` of `ClosingSurvives` and of the second part of
  `ChainsProofs`, as above.
* `OneTmdbId`: a title has one tmdb id, the converse of `IdsAssumption`.
* `DeletesHaveTmdb`: webhook and history of a deleted file carry the tmdb id, as
  `fixtures/*/*-file-delete.json` and `fixtures/reconcile/*-history.json` do.
  Without it a series may have two rows (section 5), and a delete is looked for
  at the wrong one.
* `DeletesHaveIds`, `TitlesKnown`: an arr sends some id with what is deleted (a
  deleted series comes without its tmdb id: `fixtures/sonarr/series-delete.json`),
  and knows a title by one id, so that one title has one segment in the keys.
* `DownloadsApart`: no download id is the id of a file, a body or a history
  record.
* `IdsApart`, for `OneEvent` and `StayApart`: two facts that a source tells by one
  type of event differ in the ids it sends with them (title, episodes and
  download, or the id of the file or record; a request and its status; user,
  item and session). Facts that share them do become one event: an item watched
  again, a health issue that comes back (section 5).
* `OwnMedia`, for `OwnChains`: no two requests are for one media.

`MCCapture` assumes those of `CaptureProofs` of its instance, so no theorem
speaks of nothing. A key is the sequence of its segments: that the text between
two ":" never holds one is part of that abstraction, and so is that an id the
reconcile job makes up (`history-<id>`) is no id of a file, since no file id has
that form.

`AttemptsAccounted`, `DeadAfterTries`, `SettledForever`, `ClosingSurvives`,
`ClosedAgreesAlways`, `ClosedForever`, `OwnChains`, `RowsHaveEvents`,
`DeathHasCause`, `SettledForGood` and `GrowingRows` are proved only: no run repeats them, because a checked property implies them there
or the others break first. `ClosingSurvives` and `OwnChains`
are those that say something of two appliers.

**Only model-checked:** all liveness (outside the prover's reach, as is
`ENABLED`): that rows settle (`EveryRowSettles`), that posts leave the queue and
fan out (`EveryPostSettles`, `AcceptedFansOut`), that the process comes up
(`ServesUnlessTorn`). Every safety property of a passing run is the subject of a
theorem; the properties of the other runs are refuted.

## 5. What the models leave out

* Order within a claim: among due rows `Delivery` and `Ingest` take any, where
  the code sorts by `next_attempt_at`. All properties hold for any order.
* A post that fails source, secret or size checks changes nothing and has no
  action.
* `RawMissing` (outbox.py:42) and `EventMissing` for event rows are kept as the
  code has them although `NothingAcceptedIsLost` and `EventBehindEveryRow` show
  that they are not reached.
* `DoneMeansFannedOut` accepts a row that the switch suppressed. A duplicate
  delivery or a retry after the switch is off does create it, although
  pipeline.py's header says such a row never exists.
* The kill switch leak (at most one batch) and the limiter's use of the pass
  start are modelled as they are: `KillLeakBounded` and `RateHolds` state the
  bound the code keeps, not the one a reader may expect.
* `Reconcile`: one poll is one step, though the pages are several requests; the
  source never forgets an item inside the window; an announcement is one row.
  An item's date is the instant it becomes visible at the source: a play that
  Tautulli dates by its start and that ends after midnight could be visible only
  after a run of the new day, whose successors no longer ask for it.
* `RateHolds` speaks of one life of the process. The stamps are in memory, so
  after a restart another budget may go out within the same window.
* `Capture`: days are whole, a fact has one delay of each kind, and a record
  the job reads is one of the fact's own. Attributes of events are left out, as
  nothing compares them.
* `Digest`: all statistics of a digest are items with one instant.
* `Startup`: one migration, as in the repository. Settings are constants of the
  modules; parsing them keeps no state.
* The Discord adapter's supervisor (connect, reconnect, close) is not modelled:
  what it does to a send is one of the three outcomes of `SendEnds`.
* Rendering, metrics, logging, read endpoints and replay: no state that the
  rest reads back.

Things a reader of the models may stumble over, which are so in the code:

* Refs with only a tmdb id and only a tvdb id make two rows of one series, and
  a later ref with both ids resolves to the first: the title stays split.
* `sync_users` never takes a mapping back: whoever left `routing.yaml` is still
  credited. The identity of an inactive member is credited to nobody, and is not
  in the list of unmapped identities either. Members are keyed by the slug of
  their display name; two names with one slug are one member.
* `health.issue` keys have no instant: an issue that comes back with the same
  words is a duplicate. A watch of the same item by the same user is one event
  for ever, and a Tautulli webhook without `user_id` has another key than the
  history.
* Before the first completed reconcile run there is no cursor and the window
  moves with the clock. A first run that stores an event and dies before the
  announcement is made good only if what the event tells of still lies in the
  window of the run that completes: `RecoveredIsAnnounced` says so
  (`InFirstWindow`), and TLC refutes it without that condition on an instance
  with four instants. An item a little younger than the lookback of a day is
  stored, drops out of the next window and is never announced.
* An import without a download id is stored once by its webhook and once for
  each of its records. A second file of a title, deleted within a day of the
  first, is not recovered if its webhook was lost.
* An event stored after its week's digest was made is in no digest
  (`MissingOnlyIfLate` names the exception).
* A crash inside the migration needs a hand: every later start fails at its
  first `CREATE TABLE`.

## 6. Plan

1. **Adapter** (`_supervise`, `start`, `stop`): the client a send uses against
   reconnects and shutdown.
2. **Ingest and Delivery over one ledger**: `EventMissing` is unreachable, an
   accepted post is delivered at last.
3. **Proofs**: the migration as the implementation of one atomic step where no
   stop tears it; which facts outside `IdsApart` merge, and that nothing but a
   notification is lost by it.
