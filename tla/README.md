# nostr-watch: specifications of the relay monitor

nostr-watch is a monorepo around NIP-66: daemons that check nostr relays and publish what
they find (`apps/relaymon`), a service that aggregates such events (`apps/rstate`), a web
dashboard (`apps/gui`), a crawler, and the libraries below them, with the check engine
(`libraries/nocap`) at the bottom. This directory specifies, checks and proves properties of
the parts that have the hard control flow:

- **relaymon**: the scheduling of checks, the queue its events are published from, the deletion
  of the events of ignored relays, and the migrations that run before it at every start;
- **nocap**: one call of `check()`, its deferred promises and everything that may settle them;
- **rstate**: the event publisher, whose cycles overlap;
- **gui**: keep-alive subscriptions of a browser tab through changes of the leading tab.

The rest is inventoried here and planned, or listed as not modelled.

A path without a prefix below is relative to `src/apps/relaymon/src/`.

1. [The system](#1-the-system)
2. [The modules and the code](#2-the-modules-and-the-code)
3. [What the runs check](#3-what-the-runs-check)
4. [What is proved](#4-what-is-proved)
5. [Where code and documentation disagree](#5-where-code-and-documentation-disagree)
6. [What is not modelled](#6-what-is-not-modelled)
7. [Plan](#7-plan)

## 1. The system

### relaymon

| part | state | operations | hard part |
| --- | --- | --- | --- |
| daemon (`core/daemon.ts`) | phase: boot, warmup, normal loops | `runWarmup`, `kickstartPublishing`, `checkExpiredRelays`, `runIgnoredRelayReevaluation`, the deletion, sync, seed and announcement loops | loops interleave with one another and with the checks; the process may end anywhere |
| worker (`core/worker.ts`) | `relayRetries`, `knownRelayStatus`, `warmupMode`, the queue of trusted assertions | `processRelay`, `recheckIgnoredRelay`, `publishResult`, `publishDeltaEvent`, `publishTrustedRelayAssertion`, `handleRetryForRelay` | state is read before awaits of up to a minute and used after them |
| queues (`utils/queueManager.ts`) | `checkQueue`, `publishQueue` (p-queue), `enqueuedRelays`, counters | `addCheckJob`, `addPublishJob`, `waitEmpty` | retries from timers, priorities, counters kept apart from the queues |
| database (`db/db.ts`, `libraries/db`) | `relay_status` (one row per relay: online, ignore and its reason, retries, `checked_at`, `deletion_published_at`), delta state, period snapshots, remediation queue | `persistResult`, `incrementRetryCount`, `markDeletionPublished`, `getIgnoredRelaysPendingDeletion`, migrations | it is what survives a restart; every statement is synchronous |
| deletions (`utils/deletion.ts`) | `deletedRelays` | `deleteRelayCheckEvent` | six callers; "published already" is recorded in two places |
| ignore lists (`utils/IgnoreListSync.ts`) | local and synced lists, a changed flag | `sync`, `publish`, `publishDeletions` | stale snapshots, flags cleared after awaits |
| remediation (`utils/remediation.ts`, `libraries/db/src/nato-purge.ts`) | `remediation_deletion_queue`, migration sentinels | sweeps at startup, `drainRemediationDeletionQueue` | crashes between statements |
| seeder (`core/seeder.ts`) | new rows | `seed` | runs beside the checks |
| deltas (`delta/`), assertions (`tra/`) | last state, snapshots per period, observations | detection and event building | state stored before the event is out |
| health, status, CLI, announcements | read-only views | | |

How they interact: relaymon runs nocap inside a check job, with a timeout on each of its checks,
and publishes to relays; rstate reads those events and publishes aggregates of its own; the
dashboard reads either through the relay connections of its leading tab. Between the programs
there is nothing but signed events, so each is modelled by itself. Inside relaymon the loops of the daemon call `QueueManager.addCheckJob`; a check job runs
`Worker.processRelay`, which asks nocap for an answer, writes the row and adds jobs to
`publishQueue`; a publish job signs an event and hands it to a pool of relays; a failed one
sets a timer that adds it again. Ignored relays lose their check event through
`deleteRelayCheckEvent`, called by the check job, by hostname dedup inside a check, by the
deletion loop, by the sync with other monitors, by the blocklist gate and by the remediation
drain. All of this is one JavaScript thread: whatever lies between two awaits that leave the
process is atomic, everything else interleaves.

### The rest

| part | what it does | why it is interesting |
| --- | --- | --- |
| nocap (`libraries/nocap`) | checks one relay: open, read, write, dns, ssl, info, geo. State: `results`, the deferred promises and their timers, `current`, `hard_fail`, the socket | promises raced against timers, adapters and socket events, answers that come late, a failure that takes every check with it |
| rstate (`apps/rstate`) | ingests monitor events, computes relay state, serves it over REST and MCP, publishes aggregates. State of the publisher: `previousStates`, `operationalStatuses`, `accumulatedDeltas`, `previousKind30385Assertions`, times of the last publish by kind | a publish cycle that a timer starts every 30 s without waiting for the one before, over shared maps; selective cache invalidation, pagination by timestamp, bounded notification queues |
| gui (`apps/gui`) | dashboard; one browser tab leads and serves the others by RPC. State: in a follower `pending`, streams and their sinks, `keepAliveSubs`, the leader monitor; in the leader the clients of each subscription | the leader closes with requests and answers under way; retries, joined calls and a resubscription that interleave with the page's own |
| trawler, umon, purist, docker-stacks, nocapd | crawler, extension, placeholder, compose files, deprecated daemon | |
| route66, relay-chronicle, relay-charts | client-side aggregation and charts | |
| auditor, nostrings, schemata, schemata-js-ajv, nip66 | conformance suites, URL rules, schemas | |
| websocket, memory-relay, worker-relay, negentropy, nostrawl, uptime-kuma-monitor | transports and ports | |
| internal packages | publishing, logging, utilities, seeds | |

`PROJECT.json` lists every component with its status and, under "hazards", what in this code is
hard to test, each at its line with the properties that cover it or a note.

### What makes each part correct

- *Check cycle*: a relay has one check at a time and is never lost to the scheduler; publishing
  is suppressed for all of a warmup check; a check never overwrites an ignore verdict; the two
  copies of the retry count do not cross; warmup ends; an outage is recovered from.
- *Publish queue*: an event is tried until it is published or its attempts are used up, never
  beside itself; the counters say what happened; first attempts go before retries.
- *Remediation*: whatever statement fails and wherever a run is killed, a row a migration removes
  is announced or known to be lost, a sentinel tells the truth, and a deletion that got through is not
  sent again.
- *Deletions*: an ignored relay's check event is deleted once per ignore episode, as far as the
  daemon is told, and it is really deleted; a relay that is not ignored is left alone; the record of what was deleted is
  true.
- *A check call of nocap*: it ends; what it returns fits together; the first answer to a check
  counts and no late one replaces it; no socket is left behind unless `open` timed out.
- *rstate's publisher*: the deltas published of a relay lead to its state, and never to another; the
  last status told is the one on record; a published score is never far from the computed one.
- *Leader tab*: no caller is left waiting for nothing; a subscription that a page keeps is served
  by whichever leader there is, and goes on being served until something that the page knows of ends
  it; one that it gave up costs the leader nothing.

## 2. The modules and the code

| module | models | checked by | proofs |
| --- | --- | --- | --- |
| `CheckCycle` | daemon, worker and check queue of relaymon | `MCCheckCycle` | `CheckCycle_proofs` |
| `PQueue` | the order p-queue keeps entries in (external, from how the code uses it) | through the two below | `PQueue_proofs` |
| `PublishQueue` | `publishQueue`, its retry chains and counters | `MCPublishQueue` | `PublishQueue_proofs` |
| `PublishPromise` | the abstract promise: an event is published or its attempts are used up | as a property of `PublishQueue` | in the above |
| `RelayRows` | the abstract table: what may become of a relay when a check is one step | as a property of `CheckCycle`, `RelayDeletion` and `Remediation` | in theirs |
| `RelayDeletion` | `deleteRelayCheckEvent`, its callers, and the check events it competes with | `MCRelayDeletion` | `RelayDeletion_proofs` |
| `Remediation` | the migrations of `initializeDB`, `remediation_deletion_queue` and its drain | `MCRemediation` | `Remediation_proofs` |
| `NocapCheck` | one `check()` of nocap and its default adapters | `MCNocapCheck` | `NocapCheck_proofs` |
| `CheckPromise` | the abstract call: checks that come out in turn, or all fail, and then the answer | as a property of `NocapCheck` | in the above |
| `StatePublisher` | `EventPublisher.onAggregationComplete` of rstate and the timer that calls it | `MCStatePublisher` | `StatePublisher_proofs` |
| `DeltaFollower` | the abstract follower: it lags behind a relay's state and is only brought to states the relay is in | as a property of `StatePublisher` | in the above |
| `LeaderTab` | a follower tab's RPC client and subscription adapter, and the leader's server | `MCLeaderTab` | `LeaderTab_proofs` |

`PROJECT.json` "map" gives the lines of each definition.

### CheckCycle

`row` is `relay_status` (durable), `known` and `mem` are `knownRelayStatus` and `relayRetries`,
`enqueued` is `enqueuedRelays`, `waiting` counts the queued check jobs of each relay, and `slot`
holds the running ones, each with the mode it began in. A *step* is the code between two awaits
that leave the process:

- `StartCheck` is `processRelay` from its start to the first network await: the blocklist gate
  (which deletes the row), the ignore gate, or the beginning of the check.
- `FinishCheck` is the rest: verdict, retry counters, `persistResult`, and the release of the
  relay by the wrapper of `addCheckJob`. `CheckThrows` is its `catch`.
- `WarmupRound` is one round of `runWarmup`; it waits for an idle queue, as `waitEmpty` does.
- `EnterNormal` is the end of `runWarmup`: leaving warmup, the drain of the remediation queue
  (awaited, with nothing else running), the retry-poisoning reset and `kickstartPublishing`. They
  are one step because no loop has started and the check queue is idle, so nothing else could
  run in between; a crash inside is the same as one before, since nothing but the reset is
  durable and the reset is one statement.
- `ExpiredPass` is one pass of `checkExpiredRelays`. Which relays are due depends on clocks and
  on `RetryManager.getDelay`: any set that contains the never-checked ones may be.
- `RecheckBegin`, `RecheckKeeps` and `RecheckUnignores` are `runIgnoredRelayReevaluation`, which
  checks relays outside the queue, one at a time.
- `Restart` is a crash or shutdown at any step; the next run has the database and may find an
  edited blocklist.

The initial database may hold malformed rows (a URL with a `|`), which older versions wrote.
Abstracted: `online`/`ignore`/`checked_at` are what the code tests, not the values it stores;
a retry counter saturates at `RetryCap`; `seenOnline` is a history variable.

### RelayRows

The three modules about `relay_status` each see it from one side, and none of them composes the
others: a check lasts in `CheckCycle`, is one step in `RelayDeletion` unless dedup holds it up, and
only its outcome appears in `Remediation`. `RelayRows` is what they have in common. Its `status` is
the verdict on a relay (no row, never checked, fine, ignored as fake or otherwise), and its `Check` reads
the ignore gate and writes the verdict in one step; further there are the seeder, the startup sweeps,
re-checks, deletions of rows and restarts. Each of the three ends with a mapping of its state to this
table (`StatusOf`, `RunPhase`, `Table`) and the property that it implements it: `ChecksAtomic`,
`ChecksAtomic` and `TableKept`. A step that does not write a verdict is a stutter of the table.

The mapping calls a row without a first check `new` whether it is ignored or not: warmup checks it
either way. What that costs is in section 5.

### PQueue, PublishQueue, PublishPromise

`queue`, `running` and `timers` are the three places an event can be in: waiting in p-queue,
its attempt under way, or waiting for its backoff. An entry carries the attempt number and the
category it was added under, as the closures do. `Insert` is p-queue's rule: *larger* priority
numbers first, first in first out among equals. `retrying`, `published`, `failed` and
`byCategory` are the counters with the code's own arithmetic (the floor at zero of
`retryingPublishes` included); `fate` and `tries` are history, and are what `PublishPromise`
speaks of. `CategoryOf` decides the retry policy, as the call sites do: check results, deltas
and assertions retry themselves, deletions and announcements do not.

### RelayDeletion

`status` is the row (`gone`, `new`, `ok`, ignored as `fake` or as `other`), `marked` the rows
with a `deletion_published_at` (both durable), `deleted` is `deletedRelays`. `Canonical` is
`normalizeURL`: hostname dedup deletes and remembers under that form of the URL, while a row is found
by its URL as it stands (`Marks`). `Sendable` and `Skip` are the decision of `deleteRelayCheckEvent`; `DeleteQueued` and `DeleteDirect` its two ways of
publishing. The callers:

- `Drop`, `GateDeletes` and `CheckIgnores` are the outcomes of a check job that delete;
  `DedupBegins`/`DedupEnds` is hostname dedup, which awaits the publish inside the check, of
  the canonical URL or in its defensive branch of the row's own (`DedupUrls`);
- `SweepBegins`/`SweepNext` are `publishDeletions` over its snapshot, `SyncNext` one entry of the
  deletions of `sync`; each has at most one publish under way (`direct`) and waits for it;
- `Recheck` un-ignores.

`StartJob`, `EndResult`, `EndDeletion` and `TimerFires` are `publishQueue` with its one slot.
A relay takes a deletion under way (`NetworkTakes`, `NetworkTakesJob`) some time before the
publish comes back, and only then does the daemon write the set and the column: the process may end
in between, and a publish may also be given up although a relay has taken the event. `taken` holds the
publishes that are that far. `sent` and `heard` are history: the URLs of which the network has ever
taken a deletion, and the ignored rows of which the daemon was told so in this ignore episode.
The update of the column does not fail here: `markDeletionPublished` would only log it
(`db/db.ts:1347-1356`), and the set would know of the deletion until the restart.

Abstracted: a check is one step up to its verdict unless dedup publishes inside it, where the model
has the two steps. That this loses nothing is what `ChecksAtomic` says, proved for `CheckCycle`,
where every check lasts, and for this module, where one that dedup holds up does: both write the
table as one in which checks are single steps. The number of retries of a check event is any (`again`);
`PublishQueue` has the bound. A relay may be reported by other monitors at any time.

### Remediation

`row`, `fresh` and `marked` are the columns of `relay_status` that matter here (absent, fine, ignored
by a check or by the sweep; `checked_at = -1`; `deletion_published_at`), `dq` is
`remediation_deletion_queue`, `swept` and `purged` the sentinels, `file` is
`nato-purged-urls.txt`: all of this is durable. `stage` is how far a run has come, `todo` the rest
of the list the current loop goes through. Each statement that writes is an action, because the
process can be killed between two of them:

- `BeginSweep` to `EndSweep` are `rerunNostringsSweepMigration`. `SweepRemoves` is `hardDeleteRow` up to
  its `COMMIT`, `SweepIgnores` is `softIgnoreRow` up to its `UPDATE`, and `EnqueueDeletion` the call both
  make afterwards (`gap` is the URL in between). With the sentinel in place the loop is empty.
- `BeginPurge` to `EndPurge` are `purgeNatoPhoneticSpam`: the deletes, the file, the sentinel.
  `ReadsFile` and `FileRow` are `enqueueNatoPurgedUrls`, which runs at every start.
- `SweepErrs`, `PurgeErrs`, and the `ok` of `EnqueueDeletion`, `WritePurged` and `FileRow` are statements
  that fail: the sweep skips the row, the purge is given up for this run, the others are only logged. A
  file that cannot be read is passed over in silence (`readable`).
- `BeginDrain` to `EndDrain` are `drainRemediationDeletionQueue`. `DrainSends` is up to the wait for the network,
  `DrainTaken` the mark in the row, `DrainRemoves` the removal of the entry; `DrainSkips` is a
  deletion that the row says is published, for which `deleteRelayCheckEvent` returns false.
  `DrainKeeps` is a removal that fails, `DrainErrs` any other statement of the drain, which ends it.
  The drain runs once per start and before everything else that deletes, so
  `deletedRelays` is empty and left out.
- `Seed`, `Check`, `Recheck` and `SweepPublishes` are what the daemon does to the same rows, reduced to
  its effect; `CheckCycle` and `RelayDeletion` have the detail.
- `Restart` is a kill at any point; the next process may come with a newer nostrings.

`removed`, `done`, `lost` and `failed` are history. `lost` records the URLs whose removal a kill or a
failed write has cut off from its announcement for good; `unfiled` those of the file that this run
could not queue, which only the file still names, until the next start reads it again.

### NocapCheck

One call of `check()` on an instance of its own, as relaymon makes it. `deferred`, `timer` and
`results` are what the code keeps under the same names, per check; `todo` and `awaited` are the
loop of `check()`; `options` are the failure options, with whether the url of the call holds an IPv4
address, in which case the geo adapter needs no result of dns; `running` are the adapters that have not come back, `asked` the messages the
relay has not answered, `ws` the socket.

- `Start`, `Settle` and `Return` are the loop: `start` of the next check up to its first wait
  (promise, timer, precheck, adapter), the end of its promise, the end of the call. They run
  before any event is handled, which is what `Quiet` says.
- `Timeout`, `AdapterDone`, `WsOpen`, `WsError`, `WsClose`, `Garbage`, `Answered` and `Notice`
  are the events. Each may come when its own check is awaited, when a later one is, or when the
  call is over. `Finish` is `finish` with `ignore_result`, `HardFail` is `websocket_hard_fail`.

What the code makes unreachable is left out: `session.initial` is never cleared, so the branch of
`check()` that resets an instance is dead; `isConnecting` compares a `readyState` of 0 by its
truth, so it is never true and the wait for a connection is none. Adapters may hang, and then
only the timer answers.

`CheckPromise` is the call as its caller knows it, without promises, timers and sockets: checks are
decided one after the other by `Rank`, each once; a location needs an address, from the url or from dns; reading and writing are
skipped without a connection; a failure of the connection decides all checks together, once; and the
caller gets the verdicts, or an exception where it asked for one. Its `verdict` is read off the
implementation (`Verdict`): the result of a check while the call runs, and afterwards what was
returned, since results go on changing in an object that the caller no longer looks at.

### StatePublisher

`core` is the state cache of the core, `previous`, `status`, `acc`, `asserted` and `last` are the
publisher's maps, `cycle` its calls in flight, each with the snapshot it was called with. One
thread runs them all: `busy` is the cycle that runs until its next await, and every wait for a
publish is a pair of actions (`Scan` and `TransitionSent`, `Batch` and `BatchSent`,
`PublishAssertion` and `AssertSent`, `Snapshot` and `ToAssertions`). `Tick` is the timer: the
states are recomputed, in any way, and a new cycle begins, whatever is in flight. The cycle reads the clock
when its scan is over (`ScanDone`), which may be ticks later, and decides once whether its assertions
are to be refreshed (`ToAssertions`). `BatchDone`
clears `accumulatedDeltas` with what has failed, `BeatsSent` is the end of the heartbeats,
`EndCycle` replaces the previous states of the changed relays.

A delta has a value that is replaced (the version) and a set that is added to and taken from (the
NIPs), which are its two kinds of tags; `Merge` is `mergeDeltas`, `Wire` what the tags of an event
can say. `view` and `told` are history: a relay as someone who applies its deltas knows it, and
its status as the kind 20066 events say. `off` names the relays of which an event failed, or with
which two cycles had to do at once; the properties speak of the others, which is what the code
promises at most.

`DeltaFollower` has, for each relay, the state it was last found in and what a follower makes of it; its
steps are a new state that followers do not hear of, and an event that brings a follower to
the state of the moment. The first is what the publisher has accounted for (`Found`, from
`Reached`: the previous state, or that of the cycle that has been through the relay), the second is
`view`.

### LeaderTab

One follower and the leaders it meets, numbered by `term`. `tab` is the follower: `kept` is
`keepAliveSubs`, `pend` the pending calls of the RPC client, `sinks` and `source` the stream of a
hash (its handlers, and the leader it takes messages from), `call` the callers of
`leaderCallStream` with their attempts, `resub` the resubscription. `inbox`, `attached` and `wire`
are the leader's server and the answers on their way. Followers meet only in the server,
where each adds and removes its own id, so one follower is enough.

- `Elect` and `Close` are the leaders; a closed tab takes its server with it, but not the answers
  already posted. `Serve` and `Refuse` are a request when Route66 is ready, or does not get so.
- `Subscribe` and `Unsubscribe` are the adapter's methods. `Tick`, `HelloAnswer` and
  `HelloTimeout` are the leader monitor; `Learn` starts the resubscription.
- `CallAnswer` and `CallTimeout` settle a call and all who joined it; `Look`, `Retry` and `GiveUp`
  are the retry loop of `leaderCallStream`.

`faults` names the hashes of which the follower may be wrong for a reason the code accepts: an
`unsubscribe` with a call of the hash under way; a call given up after its attempts; a change of
leader heard during a resubscription that has passed the hash; an `unsubscribe` that the leader
refused; an answer that came after its timeout (the request id is the hash, so it would settle
the next call). Two things are taken from the platform: one receiver gets the messages of a
`BroadcastChannel` in posting order, and what `waitForLeader` asks is answered before anything
posted later.

## 3. What the runs check

| run | instance | states | shows |
| --- | --- | --- | --- |
| `check_safety` | 3 relays (one may be blocklisted, one is malformed), 2 slots, batches of 2, retries to 3 | 78 354 | `TypeOK`, `OneJobPerRelay`, `WarmupDrains`, `RetriesBehind`, `OnlineHasNoRetries`, `ChecksAtomic`, `EnqueuedReleased`, `WarmupEnds` |
| `publish_safety` | 4 jobs (check, delta, deletion, other), 2 slots, 2 retries | 12 251 | `TypeOK`, `EachJobOnce`, `CountersRight`, `KeepsPromise`, `JobsSettle` |
| `deletion_safety` | 2 rows, one the canonical form of both, blockable and synced; 1 publish job outstanding | 512 137 | `TypeOK`, `BelievedDeleted`, `NotSentAgain`, `ChecksAtomic`, `PendingPublished` |
| `remediation_safety` | garbage, a disqualified URL and spam that later rules disqualify; 3 versions of the rules | 3 802 277 | `TypeOK`, `RemovedAnnounced`, `SentinelHonest`, `DrainClears`, `OnlyFileResends`, `TableKept` |
| `nocap_safety` | every set of checks, every combination of the failure options, url with and without an IPv4 address | 1 134 214 | `TypeOK`, `FailsTogether`, `NoSocketLeft`, `KeepsPromise`, `CheckReturns` |
| `publisher_safety` | 1 relay, 3 states, 4 ticks, 2 cycles in flight | 2 367 738 | `ToldOnRecord`, `AssertionsNear` |
| `publisher_batches` | 2 relays, 2 states, 4 ticks, 2 cycles in flight | 7 725 441 | `TypeOK`, `ChainIntact`, `FollowersLag` |
| `leader_safety` | 2 subscriptions, one may be given up; 2 leaders, 2 attempts | 5 570 752 | `TypeOK`, `KeptIsServed`, `CallersHeard`, `ServiceLasts` |
| `leader_live` | 1 subscription that may be given up, 2 leaders, 1 timeout too early | 1 439 815 | `DroppedIsDetached`, `KeptGetsServed` |

Three more runs expect a violation and are the subject of section 5.

**The bounds.** `check_safety`: two slots let two checks overlap and a third relay is what a
full slot set makes wait; the three relays differ in kind (ordinary, blockable, malformed), so
they are not symmetric. `PoisonAt = 1` and `RetryCap = 3` let a counter pass the poisoning
threshold and then still grow (the code's threshold is 7; only the comparison matters).
`MaxBatch = 2` splits a batch of three. The queue is empty or idle between rounds, so `waiting`
needs no bound: `OneJobPerRelay` says it is at most one. `publish_safety`: two retries give a
retry of a retry, which is where an attempt number could slip; two slots let a retry run beside
other jobs (the daemon has one slot; the module allows more, and every property holds for
both). `deletion_safety`: one publish job that waits, runs or backs off (`MaxQueue`), a deletion or a
check event, which its timer brings back, beside the deletions published directly by dedup, the sweep
and the sync, so that several deletions of one URL are under way at once. The bound holds back the
checks that would queue another job, and nothing else. `r2` is `r1` in a form that is not
canonical: dedup's deletions of either row are deletions of `r1`.

`remediation_safety`: one URL of each kind, since they do not interact
except through the lists; the third version of the rules sweeps again what the second has swept,
which is how an entry comes to be queued for a deletion that was published, and a purge may
still fail in between.

`nocap_safety` has no bound: the module is finite.

`publisher_safety` and `publisher_batches`: two cycles in flight are the least that overlap
(`Slots`). With a schedule boundary every 3 ticks (`Period`) the third of the four cycles publishes a
batch, of what the second and third have gathered, and the fourth begins beside it or after it. The states of `publisher_safety` move a score by half the threshold
(2) at a time, so that only the sum of two steps passes it; those of `publisher_batches` differ in
everything a delta may hold, so that opposite deltas meet in the accumulated one. The constraint
`Warm` of the second keeps to that scenario: the first cycle ends with both relays known (what is
unknown has no deltas), the first three do not overlap, the fourth begins when a batch has, and
transitions and, up to then, assertions get out, on which deltas do not depend. Other overlaps are
left to `ChainHolds` and `FollowersFollow`, which have no bounds, and for the statuses and scores to
`publisher_safety`, where any cycles overlap. The two relays of that run are symmetric; the others' members are not.

`leader_safety` and `leader_live`: two leaders (`MaxTerm`) are one change of leader, with
answers of the first still on the wire; two attempts (`MaxTries`, four in the code) are a retry and
a last one. Two hashes are what a resubscription needs to have an order. `MaxLate` bounds the
timeouts that fire although the answer is under way: none in `leader_safety`, whose constraint
`Clean` also leaves out what follows an accepted fault and more than three messages under way;
`leader_live` has one, and no constraint.

**Deadlock** is checked for `CheckCycle`, `Remediation` and `LeaderTab`. The publish queue stops when
every job is settled, the deletion model when there is nothing left to delete and its `MaxQueue`
bound is reached, a call of nocap when it has ended and nothing is under way, the publisher after
`MaxTicks`; these runs switch the check off.

**Fairness.** `CheckCycle.FairSpec`: the loops go on; a check ends, since nocap bounds each by
timeouts; p-queue is first in first out, which the model's bag of waiting jobs forgets, so a
queued job's start is strongly fair in its place. `AnsweringSpec` adds what the network owes:
not every single check of a relay throws. `PublishQueue.FairSpec`: p-queue fills its slots,
publishes settle by their timeouts, timers go off. `RelayDeletion.FairSpec`: the sweep comes
round every `deletion_interval` and goes through its list; and when the sweep tries a relay's deletion
again and again, some relay takes it at some time, and the publish succeeds in time at some time. `NocapCheck.FairSpec`: the loop
goes on when its promise is settled, and timers go off; no adapter, socket or relay need ever
answer. `LeaderTab.FairSpec`: a lock that is free is granted to some tab, messages are handled,
timers fire and intervals tick. No fairness is assumed of check jobs, re-checks, other monitors
or restarts, nor of pages or of leaders that close.

**The properties.** Those that several actors would have to get wrong together:

- `OneJobPerRelay`: warmup and kickstart queue relays without asking `enqueuedRelays`, only the
  expiry loop asks. It holds because warmup waits for an idle queue and the kickstart batch is
  queued before the loop starts.
- `ChecksAtomic`: the ignore gate is read before the awaits of a check and relied upon after them,
  while loops, re-checks and other checks write the same table. It has `IgnoreSticks` in it (nothing
  but the re-evaluation of fake relays un-ignores one) and rests on `GateHolds` (the relay of a running
  check is not ignored); both are proved apart. In `RelayDeletion` the wait is dedup's publish.
- `TableKept`: the migrations write the same table as the checks do after them, in statements that
  may fail or be cut off; no state of the table comes of it that the daemon does not know.
- `RetriesBehind`, `OnlineHasNoRetries`: two copies of the retry count, five places that write them.
- `EnqueuedReleased` and `WarmupEnds`: every queued relay is released again, and warmup ends unless
  a malformed row was never checked (section 5).
- `EachJobOnce`, `CountersRight`, and the refinement `KeepsPromise` (of `PublishQueue`) of
  `PublishPromise` with each job's own attempt limit.
- `NotSentAgain`: once the daemon was told that an ignored relay's deletion is taken, none of the
  callers signs another, under whichever form of the URL and restarts included, although deletions of it
  may be queued and direct at once. It is about what the daemon was told: a deletion taken just before a
  kill, or by a relay whose answer came too late, is signed again (section 5).
- `BelievedDeleted`: what the set or the column says was deleted was, although the publish that ends may
  be of another form of the URL than the row whose check waits for it.
- `PendingPublished`: an ignored relay's deletion is published in the end, unless the set in
  memory holds an earlier one of the same relay (see section 5).

- `RemovedAnnounced`: the deletion of a removed row gets into the queue from a statement after a
  `COMMIT`, or by way of a file; what can get lost on the way is what `lost` names, and
  nothing else.
- `SentinelHonest`: a second attempt of a sweep makes good what a kill left half done, because it looks at
  ignored rows again. Its mutant does not, like the dedup migration beside it.
- `DrainClears` and `OnlyFileResends`: what a drain may leave behind, and what it may send again.

- `KeepsPromise` (of `NocapCheck`): an answer after its timeout, of the socket after the call, of an
  adapter while another check is awaited, changes nothing that was decided; no check is left out, decided
  out of turn or missing from the answer; and a failure of the connection decides all of them, once.
- `FailsTogether`: what failed hard stays so, in the results themselves, with no check made good
  afterwards. `NoSocketLeft`: the only socket left open by a call opened after the open check had timed
  out. That case is exempt because the code has it: nothing closes such a socket.
- `ChainIntact`: a delta is gathered against the previous states, which the same cycle replaces only
  when it ends, while a batch that began earlier empties the map it was gathered in.
- `FollowersLag`: the same seen over time. Deltas that are merged, replaced or told twice might also lead to
  the right state by way of one that the relay was never in; no single event does that to a follower.
- `ToldOnRecord`: the status remembered is that of the snapshot the cycle began with, not of the
  states recomputed while its event was under way.
- `AssertionsNear`: what a score is compared with is the last one *published*; compared with the last
  one computed, it could drift for ever in small steps.
- `KeptIsServed`, `DroppedIsDetached`, `KeptGetsServed`: the leader, the stream's source and its
  handlers are set by three different programs at different times, and have to agree when it is quiet.
  A subscription given up while requests for it are queued, lost or about to be retried is a recorded
  fault, of which `DroppedIsDetached` says nothing: such a request may attach the follower again.
- `ServiceLasts`: what works is not broken by what goes on beside it, namely a second subscribe,
  a resubscription, late answers of a leader that is gone, requests still queued; only a new
  leader, the page's own unsubscribe, or a failed call of the same hash ends it. (A failed call does:
  `callStream` closes the stream that a subscription before it opened.)
- `CallersHeard`: callers join a pending call, and the end of the call, by whichever way, has to reach all of them.

Each property of a passing run has a mutant of the modelled code that violates it, listed in
`PROJECT.json`; the mutated operators stand beside the originals, marked "Mutant".

## 4. What is proved

`CheckCycle_proofs` proves for every set of relays, malformed and blockable ones, every set of
slots, every batch size and every bound that satisfy `CheckCycleAssumption` (retry bounds are
naturals with `PoisonAt < RetryCap`, batches are not empty, the null value is no relay and no
job):

| theorem | property | argument |
| --- | --- | --- |
| `TypeCorrect` | `TypeOK` | inductive as it stands |
| `OneJobEach`, `ChecksKeepTheirMode` | `OneJobPerRelay`, `WarmupDrains` | together, with `BootIdle`: during boot the queue is idle |
| `RetriesStayBehind`, `OnlineMeansNoRetries` | `RetriesBehind`, `OnlineHasNoRetries` | strengthened to `RetryInv` |
| `GateStays` | `GateHolds` | with `JobsInv` |
| `VerdictsStick` | `IgnoreSticks` | an action property, from `GateHolds` |
| `ChecksAreAtomic` | `ChecksAtomic` | the refinement of `RelayRows`, from `RowsInv` with `JobsInv` and `GateInv` |

*The queue* (`JobsInv` = `OneJobPerRelay`, `WarmupDrains`, `BootIdle`). `OneJobPerRelay` alone is
not inductive: `WarmupRound` and `EnterNormal` queue relays without a look at `enqueuedRelays`.
What saves them is that both wait for an idle queue, and that in an idle queue
`enqueuedRelays` is empty (`IdleMeansReleased`), which is one direction of the equivalence in
`OneJobPerRelay`. `WarmupDrains` needs that no job is running when the phase changes, for
`BeginWarmup` by `BootIdle`.

*The retry counters* (`RetryInv`). `row.retries <= mem` is disturbed by a thrown check, which bumps
the row only if `mem` is positive. `OnlineHasNoRetries` needs more than that: an online row must
have `mem = 0` (`OnlineReset`), or a thrown check could bump it; and an absent row must have no
retries (`AbsentClean`), or a new one could be born with some. `OnlineMeansNoRetries` is at the same
time the reason why the poisoning query of `daemon.ts:430` can select no row (section 5).

*The ignore gate* (`GateInv`). A row is ignored by the checks themselves, by a sweep at boot, when
no check runs (`BootIdle`), and by nothing else; and a relay's own check is its only one
(`OneJobPerRelay`), so no other check can ignore it in between.

*One step* (`RowsInv`). The result of a check is a `Check` of the table if, when it is written, the
table would still let the relay be checked (`Admitted`): it has a row, which in warmup has not had its
first check, it is not on the blocklist, which is read once per run, and after warmup it is not
ignored. A queued relay keeps its row, and in warmup stays without a first check (`JobHasRow`),
because whoever else would touch the row would need a job of the same relay, or would have to wait for
an idle queue. A re-check writes "fine" over what is still ignored as fake, or finds the row deleted
as blocklisted, and then writes nothing (`StillFake`). After warmup no ignored row lacks its first
check. Three lemmas cover the steps: those that leave every status alone (`StatusSame`), change one
(`StatusOne`), or delete rows (`StatusGone`).

`Remediation_proofs` proves all six properties of `remediation_safety`, for any URLs, any rules and any
number of versions (`RemediationAssumption`: garbage is neither spam nor parseable, `None` is
nothing else):

| theorem | property | argument |
| --- | --- | --- |
| `TypeCorrect` | `TypeOK` | inductive as it stands |
| `RemovalsAnnounced` | `RemovedAnnounced` | strengthened to `AnnounceInv`, with `FileInv` and `RowsInv` |
| `DrainsClear` | `DrainClears` | from `DrainInv` |
| `ResendsFromFileOnly` | `OnlyFileResends` | from `ResendInv`, with `GarbageInv` and the above |
| `SentinelsHonest` | `SentinelHonest` | from `SweepInv` |
| `TableIsKept` | `TableKept` | the refinement of `RelayRows`, with `FreshInv`: once the daemon monitors, every row has been checked |

*Announcements* (`AnnounceInv`). `RemovedAnnounced` speaks of the stages at which the daemon monitors;
before them a removed URL may also be the one between two statements, on the purge's list, or in the
file. What the file is worth depends on the sentinel (`FileInv`): before it is there, all the
file names counts as lost, since the next attempt writes over it; afterwards it is read at every
start, and what could not be queued in this run (`unfiled`) is at least still named there. Removed URLs
have no row (`RowsInv`), so no check takes an announcement back.

*Sending again* (`ResendInv`). As long as a URL has a row the column remembers; without a row nothing
does, and then an entry for it can only come from the file or from a purge that was cut off.
Garbage is queued after its row is gone and never gets a row again (`GarbageInv`).

`PQueue_proofs` has the facts about the order of p-queue that both its users need: `Insert` adds
one element, keeps the others, their number and their distinctness, and `Tail` takes one away.

`PublishQueue_proofs`, for any jobs, retry policy, number of retries and slots:

| theorem | property | argument |
| --- | --- | --- |
| `TypeCorrect`, `EachOnce` | `TypeOK`, `EachJobOnce` | together, `Places`: an entry leaves one place for one other |
| `CountersAreRight` | `CountersRight`, which is `RetryingCount` and `PublishedCount` | `Counts`, from `Places` |
| `PromiseKept` | the safety part of `KeepsPromise` | every step is one of `PublishPromise` or a stutter |

`Places` is what makes the counters exact: a retry that is queued twice, or beside its first
attempt, would be settled twice. In `PromiseKept` the attempt number of the entry under way is the
number of attempts in `tries`, which is where "used up" in the queue and in the promise meet.

`RelayDeletion_proofs`, for any relays, blocklists and queue bound:

| theorem | property | argument |
| --- | --- | --- |
| `TypeCorrect`, `BeliefIsTrue` | `TypeOK`, `BelievedDeleted` | `Inv`, with: a relay whose check dedup is in has a row, what a relay has taken of what is under way was sent (`TakenInv`), and what the daemon was told of an ignored row is marked |
| `SentOnce` | `NotSentAgain` | from `Inv`: a row in `heard` is marked, and each caller reads the mark in the step in which it signs |
| `ChecksAreAtomic` | `ChecksAtomic` | the refinement of `RelayRows`, from `DedupInv`: a relay that dedup is publishing about could still be checked |

`heard \subseteq marked` is the strengthening. It holds because a row keeps its mark while the
relay is ignored (`Kept`), and a deletion settled after the row is gone finds no row to mark, and
no ignored relay either. What was taken and not told is in neither set, and a restart forgets it.

`NocapCheck_proofs`, for any requests and any installed adapters. `IInv` consists of

- `LoopInv`: what the loop awaits has begun and is not in `todo`, and `current` is it or nothing;
- `ResultInv`, `DoneInv`: a promise that is pending has no result yet unless a hard failure gave it
  one, and a check that the loop is through with has a result, or was refused, or the call failed hard;
- `AnswerInv`, `SocketInv`, `GeoInv`: `FailsTogether` and `MissingExplained`, and what
  `NoSocketLeft` and `GeoFollowsDns` (a location comes from the url's own address or from dns) need to
  know before the call returns.

| theorem | property |
| --- | --- |
| `TypeCorrect`, `FailTogether`, `NoSocketIsLeft` | `TypeOK`, `FailsTogether`, `NoSocketLeft` |
| `PromiseKept` | `KeepsPromise`, the refinement of `CheckPromise` |
| `WaitsAreTimed` | `WaitsOnTimer`: whatever check is awaited, its promise is settled or its timer is running. This is the half of `CheckReturns` that is not fairness |
| `FirstAnswer` | `FirstAnswerCounts`, an action property: an event answers a pending check, rejects the open check, fails all of them or does nothing (`EventEffect`) |
| `MissingIsExplained`, `GeoHasDns` | `MissingExplained`, `GeoFollowsDns`, which no run checks by themselves: `KeepsPromise` says as much of every call |

*The promise.* `PromiseKept` adds `CallInv` to `IInv`: the loop takes the checks by rank, so that whatever
precedes the check awaited has been decided (`OrderInv`); until all has failed, a promise that was
answered has the result it was answered with, and one refused or rejected has none (`PromiseInv`); only an
open check is rejected, on request, and an open that is to fail all others is settled in the next
step (`OptionInv`). Every event is then a decision about the check awaited, a failure of
all, or nothing: what comes of a check that is no longer awaited finds its promise settled, and its result
as well.

`StatePublisher_proofs`, for any relays, any states, any threshold and schedule, and any number of
cycles in flight:

| theorem | property | argument |
| --- | --- | --- |
| `ChainHolds` | `ChainIntact` | `ChainInv`, below |
| `FollowersFollow` | `FollowersLag` | the refinement of `DeltaFollower`, from `ChainInv`, one lemma per action |
| `ToldIsOnRecord` | `ToldOnRecord` | inductive, once a cycle that waits for a transition has a snapshot of the relay |
| `AssertionsStayNear` | `AssertionsNear` | `Near`, which says it of every cycle and relay it is through with |
| `TypeCorrect` | `TypeOK` | `Types`, `CycleInv`, `Followed` and `Recorded` |

*The chain.* `ChainIntact` compares three things: what followers know, what is accumulated, and the
state the relay was brought up to. The last is in the previous states or in the hands of a cycle
in flight; `Chain` says that unless the relay is in `off` only one cycle has it in hand (`Hands`),
so that `Reached` is not ambiguous. A delta under way (`Sending`) is still the accumulated one, or has no
effect any more; one that a batch is through with but has not cleared may be told again without
effect (`ApplyTwice`); and what is merged with a delta that nobody has sent still leads to the state,
because its sets are apart from what it is applied to (`Apart`, `MergeLeads`).

*Followers.* That the chain is intact in every state does not say that each event leads to a state the
relay was in. `Lags` is what the abstract follower may do in one step; each action's lemma shows it for
every relay outside `off`, which never shrinks (`OffGrows`): `Scan` finds a new state and tells nobody;
an event that is out changes `view` to what `Reached` says, because the delta in it *is* the
pending one, or one without effect (`Sending`), and the pending one leads there exactly (`Fits`, which for this says what
becomes of a version, too); and nothing else moves either (`ReachedByNext`).

`LeaderTab_proofs`, for any subscriptions, any number of callers on each, and any number of
leaders, attempts and timers that fire too early. `IInv` is `TabInv`, about the follower alone,
with `Link`, about each hash between the follower and the leader, and the order of terms (`Times`,
`Past`):

| theorem | property | argument |
| --- | --- | --- |
| `CallersAreHeard` | `CallersHeard` | a part of `TabInv` |
| `KeptServed` | `KeptIsServed` | `Covered`, `Past`, `Link` |
| `DroppedDetached` | `DroppedIsDetached` | `Dropped`, `Link` |
| `ServiceStays` | `ServiceLasts` | an action property, from `Link`, `Handled` and `Behind` |
| `TypeCorrect` | `TypeOK` | `TabType`, where a caller that waits has an attempt left, and `Channels` |

*Why it is served.* `Covered`: a kept hash that nobody is calling has a handler and is locked to a
leader not before the one the follower knows, or the resubscription has yet to come to it. It
survives a change of leader because `Learn` starts a resubscription of all that is kept, or, when
one is in flight, puts the hashes that it has passed in `faults`. Terms on the wire are in order and no
stream is locked to a leader that has not been (`Times`, `Past`), so that the leader it is locked to
is the one there is. `Link` says that such a stream is attached there. It has to follow both
channels for that: at most one request or answer of a hash is under way, and only while its
call is pending, and an unsubscribe is ahead of any subscribe in the inbox. A timeout with the answer under
way, or an unsubscribe during a call, breaks exactly this, and these are the faults of the hash.

*Why it lasts.* Three things have to stay. The attachment goes only with an unsubscribe, and one
in the inbox means that the stream has no source (`Link`), so that the hash was not served. The handlers
go only with the end of a call or by the page (`Handled`). The source changes to the leader of
the answer taken, and no answer under way is of a leader before the one that a stream is locked to
(`Behind`, which needs the order of terms); none is after the present one, either.

**Only model-checked**: liveness and fairness, which are out of the prover's reach (`EnqueuedReleased`,
`WarmupEnds`, `JobsSettle`, the fairness in `PublishQueue`'s `KeepsPromise`, `PendingPublished`,
`CheckReturns`, of which `WaitsAreTimed` is the safety half, and `KeptGetsServed`).

## 5. Where code and documentation disagree

Three are shown by a run whose only property states the documentation; the counterexamples are
short.

- `check_outage` (`OutageRecovers`): the recovery from retry poisoning after an outage
  (`core/daemon.ts:421-441`) looks for rows that are online with more than 7 retries. No row is:
  every online result resets the retries, and an outage sets `online = 0` with the first retry.
- `deletion_reignored` (`ReignoredPublished`): a relay that is deleted, un-ignored and ignored again
  is not deleted again before a restart, because `deletedRelays` is never cleared, contrary to
  what the tests of the column say.
- `nocap_fake` (`FakeIsOnline`): a relay that connects and then does not speak nostr fails hard, and a
  hard failure writes `open` as well as `read`; what `core/worker.ts:265-272` looks for in order to
  tell a fake relay, an `open` that succeeded beside such a `read`, never comes.

Others, met while modelling, have no run of their own.

In relaymon: a never-checked row with a `|` in its URL is skipped by every warmup round, which
therefore never ends. Retries get priority 2, "lower priority" according to
`utils/queueManager.ts:128`, but p-queue runs larger numbers first. `utils/deletion.ts:148`
rethrows "to trigger retry mechanism", but the queue has none: a queued deletion gets one attempt, and
`PendingPublished` shows that the sweep makes up for it while the row remains. The sweep does not
look again at a relay un-ignored while earlier entries of its list were being published
(`utils/IgnoreListSync.ts:403`). A check event waiting in the queue, or for its retry, is
signed after the relay's deletion and stays published although the relay is ignored. The retry of a
check event is counted under delta and that of a delta event under check (`core/worker.ts:514`,
`744`), which is why `PublishedCount` speaks of their sum. A queued deletion published after the
relay was un-ignored marks a row that is not ignored, although `db/db.ts:1327-1330` says the mark
only stays while the relay is. "Publish each deletion once" is to survive reboots
(`utils/deletion.ts:66-70`), but the mark is written after the publish (135-141, 156-160): a process killed in
between signs the deletion again in its next run. `utils/hostnames.ts:300-304` has both forms of a URL
resolve to the same row "via normalizeURL on-read", but `db/db.ts:1335` and `1350` compare the URL as it is:
a deletion under the canonical form marks no row of another form, the sweep publishes a second one for
that, and the first one takes down the check event of the canonical row, if there is one.

In the migrations: the file of purged URLs is queued at every start, the queue forgets an entry once
it is published, and a purged URL has no row to remember it, so its deletion is sent at every
start, although `db/db.ts:271` calls the repeated call idempotent; a URL of the file that has
been seeded again in the meantime has its new check event deleted. Warmup checks a row with
`checked_at = -1` although the sweep has just ignored it, and the result un-ignores it for good, since
the sentinel is in place. `utils/remediation.ts:536-537` has a partial run retried on
the next start; a kill between the `COMMIT` of `hardDeleteRow` and its enqueue is not made good
by it, nor is one between the purge's deletes and its sentinel, after which the second attempt
writes an empty list over the file: these are what `lost` stands for. An entry whose deletion is
published already is skipped with "false" and stays in the queue for ever (`DrainClears` says what stays).

In nocap: its README has `check` reject when an adapter that is needed is missing, but `produce_result`
throws inside `start`, and the promise waits for its timer, whose own `finish` throws likewise, so
that such a call hangs; relaymon makes one (`utils/hostnames.ts:752`, an `info` check with the info
adapter only, while every call adds `open`), with a `timeout` that is a number where nocap
takes one per check, and the worker passes its own under `timeouts`, a key nocap does not read
(`core/worker.ts:236`, `420`). An open that comes after its timeout leaves the socket open for good.

In rstate: the heartbeats skip the relays that have deltas, "already covered" by the batch
(`src/apps/rstate/src/services/event-publisher.ts:251`), but the map has been cleared by then, so every relay of the
batch is published twice. `lastKind1066Publish` is set when the batch is over, so a cycle that begins
meanwhile publishes it again. What only the clock takes offline is not among the changed relays, and no
transition is published of it. A value that is gone has no tag in a delta event.

In the gui (`src/apps/gui/src/lib/runtime/`): a resubscription that fails "will retry on next leader change"
(`tab-client-adapters.ts:254`), but a change heard while a resubscription is in flight does not
restart it, so a hash it has passed stays with the old leader until the change after. The first
keep-alive subscription of a tab starts the leader monitor, whose first answer finds that call
pending and joins it with a second handler for the same callbacks (`leader-tab-client.ts:257-261`), so that
the page gets each event twice.

## 6. What is not modelled

Of relaymon: the contents of events, of the check results and of the configuration; which relays
are due; the dedup and re-hash migrations (the first is not called); the publishing of kind 10006 lists, deltas, period
snapshots and trusted assertions (planned); the "DISABLED" re-evaluation loop of hostname dedup,
which the daemon does not start; status, health and CLI, which only read.

Of nocap: what a result says and its latencies; a second `check()` on one instance; relay
authentication; adapters other than the default ones.

Of rstate: how states are computed from observations (`Tick` takes any), the contents of events other
than deltas, statuses and scores; ingestion, caches, subscriptions, REST, MCP and payments.

Of the gui: `ActivityManager`'s election where there are no Web Locks; `fetch`, `publish`,
`unsubscribeAll`, abort and `destroy`; the leading tab's own subscriptions; snapshots and preferences;
views and stores.

The other libraries are data transforms, schemas, views, ports of third-party code or
deprecated. The hazards found while surveying them are in `PROJECT.json`, each with the properties
that cover it or a note.

## 7. Plan

Done: `CheckCycle`, `Remediation`, `PublishQueue` with `PublishPromise`, `RelayDeletion`,
`NocapCheck`, `StatePublisher` and `LeaderTab`, all with their proofs, and the abstract specifications
`PublishPromise`, `RelayRows`, `CheckPromise` and `DeltaFollower`, each shown to be implemented by a run
and by a theorem.

Next modules, in this order:

1. `TraQueue`, `DeltaChain`, `IgnoreListSync`: the rest of the worker and of the ignore lists.
   Properties: an observation is processed or counted as dropped; a published chain of deltas
   leads to the stored state; the published list becomes the local one.
2. `StateCache`, `Pagination`, `Subscriptions`: the rest of rstate's services. Properties: a cached
   group is never older than its relays; a paginated fetch returns what is stored; a notification is
   delivered or counted as dropped.
3. `RetryDelay`: `getDelay` and the expiry rule as operators, against a reference definition.
