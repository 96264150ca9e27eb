# Sandbox lifecycle of e2b-infra in TLA+

e2b-infra runs sandboxes (Firecracker micro VMs) for its clients. The API is a
set of identical, stateless instances: what they know of the sandboxes is in
Redis, and the VMs run on orchestrator nodes. So every request of a client, and
every tick of the evictor, is a race of short Redis commands and long node calls
against all the others. A node in turn runs many requests on its sandboxes at
once, shares its network slots and its limits among them, and uploads their
snapshots in the background, for hours if need be, while other nodes already
resume from them. This project models these two halves of the system in TLA+,
checks them with TLC and, with TLAPS, proves the safety properties of every module
for instances of any size.

Paths in this file are relative to `packages/` unless they say otherwise, and
`storage/redis` is short for `api/internal/sandbox/storage/redis`.

## 1. The system

### Components, their state and their operations

| Component | State | Operations | Modelled in |
|---|---|---|---|
| Sandbox states (`api/internal/sandbox/states.go`) | none | the four states, the three actions, `AllowedTransitions` | `SandboxStates` |
| Redis store (`storage/redis`) | the record, the transition key, result keys and two locks per sandbox ID; the team index; the expiration index | `Add`, `Get`, `Update`, `Remove`, `StartRemoving`, `WaitForStateChange`, `Reconcile`, `ExpiredItems` | `SandboxTransitions`, `ExpirationIndex`, `SandboxReservations` (`Reconcile`) |
| Subscription manager (`storage/redis/subscription_manager.go`) | the channels of the local waiters per routing key | `subscribe`, `dispatch` | `SandboxTransitions` |
| Evictor (`api/internal/orchestrator/evictor`) | none; one goroutine per expired item | the tick | `SandboxTransitions`, `ExpirationIndex` |
| Reservations (`api/internal/sandbox/reservations/redis`) | per team the pending set, per ID a result key | `Reserve`, `finishStart`, `waitForStart`, `Release` | `SandboxReservations` |
| Store (`api/internal/sandbox/store.go`) | none of its own | `Reserve`, `Add`, `Remove`: order of storage, reservations and callbacks | all three |
| Handlers (`api/internal/orchestrator`) | the goroutine's local variables | `CreateSandbox`, `RemoveSandbox`, `CreateSnapshotTemplate`, `KeepAliveFor`, `UpdateSandboxNetworkConfig` | `SandboxTransitions`, `SandboxReservations` |
| HTTP handlers (`api/internal/handlers`) | none | resume, connect and auto-resume loops around the operations above | planned |
| In-memory store and `populate_redis` | maps under mutexes | the same interface in one process | planned |
| Routing catalog (`shared/pkg/sandbox-catalog`) | per ID the node and the execution | `StoreSandbox`, `GetSandbox`, `DeleteSandbox` | planned |
| Placement, node manager (`api/internal/orchestrator/placement`, `nodemanager`) | per node its metrics, the placements in progress, the status | `PlaceSandbox`, `Sync` | planned |
| Orchestrator: sandbox map and server (`orchestrator/pkg/sandbox/map.go`, `pkg/server`, `pkg/factories/run.go`) | live sandboxes, lifecycles, permits of starts, uploads in flight, the phase of a shutdown | `Create`, `Checkpoint`, `Pause`, `Delete`, the exit and the cleanup of a VM, drain and close | `SandboxServer` |
| Orchestrator: network pool (`orchestrator/pkg/sandbox/network`) | two channels of slots, the slots acquired, the returns in flight, the address index | `Populate`, `Get`, `Return`, `Close` | `NetworkPool` |
| Orchestrator: uploads, peers, template cache (`orchestrator/pkg/sandbox/uploads.go`, `build_upload*.go`, `template`) | futures per build, cached headers, peer flags; peer keys in Redis; data and headers in storage | snapshot, `Upload.Run` with retries, `Uploads.Wait`, `Finish`, peer and storage reads | `SnapshotUploads` |
| Snapshot headers (`shared/pkg/storage/header`, `orchestrator/pkg/sandbox/block`, `build`) | the mapping of a header, the diff files | `CreateMapping`, `MergeMappings`, `NormalizeMappings`, deduplication, `ReadAt` | `HeaderMappings` |
| Orchestrator: Firecracker, NBD, userfaultfd, cgroups | kernel and guest | drivers | no |
| Client proxy, envd, auth, dashboard API, database, ClickHouse, infrastructure | | I/O, SQL, configuration | no |

### How they interact

*Create.* `CreateSandbox` calls `Store.Reserve`. One Lua script decides whether
the ID is stored already, is being created by another call (then this one waits
for that call's result), exceeds the team's limit, or is reserved. The holder of
the reservation reads the sandbox's data, has a node start the VM, stores the
record with `Store.Add` and completes the reservation in a deferred
`finishStart`, with the sandbox or the error, which the waiters decode.

*Transitions.* `RemoveSandbox` (kill and pause) and `CreateSnapshotTemplate`
call `StartRemoving`. Under the lock on the sandbox key it reads the record and
the transition key. If there is a transition in progress it releases the lock,
waits for it and then is done (same target) or starts over (another target);
otherwise one script writes the new state, the transition key and an empty
result. Without the lock, the owner has the node stop or checkpoint the VM,
deletes the record (kill, pause) or restores it to running (snapshot), and runs
the callback: result, deletion of the transition key, message to the waiters.

*Updates.* `KeepAliveFor` and the network update read and write the record under
the same lock.

*Eviction.* Every 50 ms the evictor of every instance takes the entries of the
expiration index that are due, reads their records and starts one
`RemoveSandbox` per expired record.

*Reconciliation.* Each instance compares the sandboxes of the nodes with the
records and kills the VMs without one.

*On a node.* `Create` takes a permit of the limited number of starts, has the
sandbox resumed, which takes a network slot, and puts it in the map: into `live`
first, then into `lifecycles`. `Checkpoint` takes the old lifecycle out of
`live`, snapshots it, resumes a new one from the snapshot under the same sandbox
ID and stops the old one. A goroutine per lifecycle waits for its VM, cleans up
and takes exactly this lifecycle out of both indexes. A graceful shutdown waits
until `live` and then `lifecycles` are empty, then for the calls and the uploads.

*Network slots.* A resume gets its slot in a goroutine of its own and may have
given up by the time it arrives. A slot is returned with a delay, reset, and
either reused or removed, while `Populate` makes new ones and `Close` drains both
channels.

*Uploads.* A snapshot is put in the template cache, its future and its peer key
are registered, and it is uploaded in the background: the data, then the header,
which maps each block to the build that has it. The header needs an entry per
build it maps to, so the upload waits for those of its ancestors: for the local
future, or for the header to appear in storage. Other nodes read the snapshot
from its peer until the upload is over. What the header maps is computed by
merging the mapping of the snapshot before with the dirty and the empty blocks,
at the granularity of pages when the memory is deduplicated.

### What is hard

Nothing but the two locks, the transition key and the atomicity of a Lua script
orders these commands; every key that orders them has a TTL; any instance may
die between two commands, any command may fail with or without its effect, the
client may go away and take its context along; messages get lost; and a sandbox
ID outlives its executions, so a late command of one execution may hit the next.
On a node, calls and background goroutines overlap on the same sandbox, an old
lifecycle is cleaned up while its successor runs, and a shutdown may come at any
point; a snapshot has descendants, on other nodes too, before it is durable.
`hazards` in `PROJECT.json` lists these places line by line.

### What makes it correct

- one transition of a sandbox at a time, along the allowed table, and the record
  under it is its owner's (`OneTransition`, `OwnerKeepsRecord`,
  `ImplementsLifecycle`);
- no lost update between GET and SET (`NoLostUpdate`);
- a running record has a VM (`RunningHasVM`), a restored one is restored before
  others may go on (`RestoredBeforeRelease`);
- the evictor kills only what has expired (`EvictsOnlyExpired`) and nobody
  outlives the maximum length (`WithinMaxLength`);
- what a handler that waited reports is true (`AlreadyDoneIsDone`), and every
  handler returns (`HandlersReturn`);
- one creator per ID, within the team's limit, its VM never lost, its waiters
  told about this attempt and no earlier one (`OneCreator`, `WithinLimit`,
  `NoLostVM`, `NoStaleResult`, `WaitersReturn`);
- the evictor can find every sandbox, those apart whose `Add` has lost its index entry
  (section 4), and the index does not fill up (`LeaksOnlyInAdd`, `IndexAgrees`,
  `ExpiredIsFound`, `StaleRecordIsRemoved`, `OrphanEntryIsRemoved`);
- no VM, permit or lifecycle is left behind on any path (`NoStrayVM`,
  `PermitsBalance`, `TracksOutstanding`); no slot is in two places, and none stays
  behind in a closed pool (`SingleOwner`, `ClosedPoolIsEmpty`), though one race of a
  cancelled resume does lose its slot (section 4); and nothing of an old lifecycle
  touches its successor (`KeepsSuccessor`, `RoutesToHolder`);
- a shutdown waits for what is in progress and ends (`DrainSeesCheckpoint`,
  `KeepsSnapshots`, `ShutdownEnds`, `CloseReturns`);
- what is in storage can be read from storage (`OpenedAncestorsFirst`,
  `HeadersComplete`), a resumed snapshot can be read at any time (`Readable`), an
  upload is not held up for ever (`LandsAfterAncestors`);
- a snapshot reads as the guest wrote it (`ReadsWhatWasWritten`,
  `SnapshotGetsHeader`).

## 2. The modules

```
SandboxStates ── SandboxLifecycle (the abstract store)
      │                 ▲ implemented by
      └────────── SandboxTransitions ── SandboxTransitionsProofs
                        └ MCSandboxTransitions
SandboxReservations, ExpirationIndex       one team's creations; one ID's index entry
SandboxServer         one node: calls, lifecycles, shutdown
NetworkPool           one node: network slots
SnapshotUploads       several nodes: uploads of a chain of snapshots
HeaderMappings        the mappings of the headers
```

Each module `M` of the last six has its instance for TLC in `MCM` and its theorems in
`MProofs`; `HeaderMappingsProofs` rests on `HeaderMappingsTheorems`, which is about the
operators rather than the steps. The inductive invariant of a module is
defined at the end of the module itself, so that TLC and the proofs use the same one.

The first three detailed modules look at the same store from three sides, and
each says in its comments where the other two take over. They share no variables: a
team's reservations, one ID's transitions and one ID's index entry are too large
a product to check at once, and each concern needs little of the others. The
node's modules are cut the same way: `SandboxServer` has an upload as registered,
in flight or over, which `SnapshotUploads` opens up with the header as a set of
entries, which `HeaderMappings` computes.

**`SandboxStates`** is `states.go`: the states, the actions with their target and
effect, and the table.

**`SandboxLifecycle`** is the abstract specification of the store for one ID: a
state (or "absent"), the transition in progress, and whether its owner still has
the record in hand. A transition starts only when none is in progress and only
along the table; the record disappears or returns to running only through the
transition in progress.

**`SandboxTransitions`** is one sandbox ID with any number of requests. `pc[r]`
is the Redis command or node call the goroutine runs next, so an action is one
command with the local code up to the next one. `rec`, `key`, `result`, `lock`,
`cbLock` and `published` are Redis; `sbx[r]` is the record the goroutine has in
its hands, which may be stale; `vm` is what the nodes run, per execution.
`Create` makes a new execution of the ID whenever no record exists, which is
when the reservation script allows it. A transition's uuid is the pair of the
request and the action it carries out, unique because a request starts each
action at most once (a failed checkpoint continues as a kill in the same
request). The actions follow the code's order:

| Code | Actions |
|---|---|
| `StartRemoving` (`state_change.go`) | `Obtain`, `Get`, `GetMissing`, `RefuseEviction`, `AlreadyInState`, `RejectTransition`, `AcceptTransition`, `StartTransition` |
| `handleExistingTransition`, `waitForTransition`, `checkTransitionResult`, `WaitForStateChange` | `JoinTransition`, `AwaitKey`, `Subscribe`, `CheckKey`, `Woken`, `Poll`, `LostCheck`, `CheckResult`, `Dispatch` |
| `removeSandboxFromNode`, `CreateSnapshotTemplate` | `NodeRemoves`, `NodeRemoveFails`, `Checkpoint`, `CheckpointFails` |
| `Remove`, `restoreToRunning`, `createCallback` | `RemoveObtain`, `RemoveRecord`, `RemoveFails`, `Restore...`, `Callback...`, `AfterCallback` |
| `KeepAliveFor` with `Update` | `Update`, `UpdateRefused`, `KeepAliveEnd` |
| evictor | `BeginEviction` |
| TTLs | `LockExpires`, `CbLockExpires`, `KeyExpires`, `ResultExpires` |
| failures | `CommandFails`, `Crash`, `Cancel` |

The network update writes the record back with all modelled fields unchanged;
that is the case of `Update` in which the end time stays.

**`SandboxReservations`** is one team with several IDs. A creator is one
`CreateSandbox` call and stands for the execution it makes, so `record[i]`,
`result[i]` and `vms` name creators. A remover is the tail of `RemoveSandbox`
after its transition has started. Scripts are one step. The limit -1 (no limit)
is left out: it is the case in which there is always room. The team index is the
set of IDs with a record, as `addSandboxScript` and `removeSandboxScript` write
both together. Calls on one ID may overlap in any way: a removal still has its
`Release` to run, or a creator its `finishStart`, when the ID is reserved again.
The history variable `mixed` keeps the IDs to which that has happened (or whose
entry grew stale under its creator), `unreached` the removals whose node did not
answer; no action reads them, and the properties say with them what they except.

**`ExpirationIndex`** is one ID's record and its entry in the global sorted set,
which lies in another slot and is written by commands of its own. Adders,
updaters and removers are calls; the scan is `ExpiredItems`. Times are small
naturals, and a timeout may be 0, as in the API. `Add` takes no lock, so a scan or
the end of a removal may come between its two writes; the history variable `raced`
says whether that has happened to the record that is stored.

**`SandboxServer`** is a node with the calls in progress. `call[c]` is a call with
its place in the handler, `lc[l]` a lifecycle: its VM, a pending `Stop`, its
cleanup goroutine and the upload of its snapshot. `live` and `lifecycles` are the
two indexes of `map.go`, `used` and `limit` the semaphore of starts.

| Code | Actions |
|---|---|
| `Create`, `Delete`, `Pause`, `Checkpoint` (`server/sandboxes.go`) | `BeginCreate`, `BeginCall`, `Acquire`, `Mark`, `Snapshot`, `Resume`, `StopOld`, `SetupLifecycle` |
| `MarkRunning` in two steps, `MarkStopping`, `MarkStopped` (`map.go`) | `MarkRunning`, `TrackLifecycle`, `Mark`, `MarkStopped` |
| `uploadSnapshotAsync`, the upload of a checkpoint | `UploadAsync`, `UploadSync`, `UploadDone` |
| `setupSandboxLifecycle`, `stopSandboxAsync` | `Stop`, `Exit`, `Cleanup`, `MarkStopped` |
| shutdown (`factories/run.go`, `server/main.go`) | `Signal`, `Drain`, `WaitLifecycles`, `GracefulStop`, `CloseServer` |
| the limit's flag | `SetLimit` |

**`NetworkPool`** is the pool with the three threads of every sandbox that uses
it: the resume, the goroutine that fetches its slot and the return of the slot.
The order inside `Cleanup` (`cleanup.go`) is modelled because it decides whether a
slot that arrives late is returned, and the IP index of `map.go` because a slot
that is handed out again must not be routed to its last holder. `Populate` stops with
the pool or with its context; a `Get` that then finds `newSlots` closed and empty takes
a nil slot and panics, which ends the process (`crashed`). The `Populate...`,
`Return...` and `Close...` actions are the steps of the functions of these names.

**`SnapshotUploads`** is a chain of builds, each a snapshot of a sandbox resumed
from the one before, on any node. A header is reduced to the set of builds it maps
to (`maps`, chosen by `Snapshot` among those the header before maps to, since a guest
may overwrite all the blocks of a build), the set of builds it has an entry for, and
the flag `IncompletePendingUpload`. `hdr` is the template cache
of each node, `flag` the resolver's `uploadedBuilds`, `key` the peer keys in Redis,
`data` and `stored` the objects in storage, `future` and `up` the upload of a
build. `UploadData` to `Publish` are an attempt (`uploadFramed`); the four ways out
of `Uploads.Wait` are `WaitFuture`, `WaitCached`, `WaitAssumed` and `WaitPolled`;
`Retry` and `GiveUp` are `retry.Do`; `Finish` and `Advertise` are `completeUpload`.
`FetchFromPeer`, `FetchFromStorage`, `Resolve`, `UseStorage` and `Promote` are the
reads of a node that did not take the build. A crashed node comes back empty,
which is what another node of the model is.

**`HeaderMappings`** is the arithmetic of the headers, with real offsets. A
behaviour is a sequence of snapshots of a device. `Snapshot` picks any dirty,
empty, zero and unchanged pages, deduplicated or not; then each iteration of the
loop of `MergeMappings` is an action, one per case, so that a case that is left
out, in which the code would loop for ever, shows as a behaviour that stops.
`ReadAt` goes through the binary search and the shifts of the read path, and the
reference is `memory`, what the guest had in its pages. Which unchanged pages the
deduplication stores all the same (not cached, or to keep the reads of a block
together) is left open. Entries of length zero are not modelled, as
`CreateMapping` makes none. The loops that are not actions (`NormalizeMappings`, the
binary search, the segments of a read) are recursive functions and the order of a
bitmap's elements is `Ascending`, so that they can be reasoned about.

Each module has a `TypeOK`, which is the first conjunct of its inductive invariant
and is proved (section 5).

**Mutants.** Definitions named `X_Reason` are deliberately wrong forms of `X`,
one for each property: with `X_Reason` in the place of `X`, TLC refutes the
property. They show that a property depends on the code it is about, and take
no part in any specification.

### Faults

Every detailed module but `HeaderMappings` has a constant `Faults`, so that a run says exactly what
may go wrong. Most faults are ordinary (a failing command, a crash, a cancelled
context, a lost message) and the passing runs allow them. A few stand for timing
that the code assumes away without enforcing it; they are named assumptions:

| Fault | Assumption when absent | What the code offers |
|---|---|---|
| `slowHolder` | no lock expires under a live holder | the commands under it take milliseconds, `lockTimeout` is a minute |
| `slowTransition` | no transition key expires under its live owner | `transitionKeyTTL` is 70 s, the API's `requestTimeout` too; the evictor's requests and the snapshot callback have no deadline |
| `slowWaiter` | no result expires before its waiter reads it | results live for 30 s, the waiter's ticker runs every second |
| `slow` (reservations) | a creation is faster than `staleTTL` and `orphanGracePeriod` | 90 s and 60 s against the 70 s of a request |
| `duplicate` (server) | the API creates a sandbox on a node that no longer runs one with the ID | the reservation of the ID, which fails for the IDs that are `mixed`, and the removal of the old VM, which may fail |

Where the code offers nothing against an ordinary interleaving, there is no fault to
leave out: the model has the interleaving, a history variable records it, and the
properties that it breaks name it as their exception (`mixed`, `unreached`, `raced`,
`AddedTooLate`). Section 4 lists these.

## 3. What TLC checks

| Run | Instance | What it shows |
|---|---|---|
| `transitions` | three requests (kill, pause, snapshot), two executions, failing nodes | one transition at a time, nobody touches the record under it, restored before released; who is told "already done" finds it done |
| `handlers` | two requests (kill, snapshot, update, pure waiter); failing nodes and commands, crashes, cancellations and lost messages together | the types, the inductive invariant of the proofs, the refinement of `SandboxLifecycle`; every handler returns (liveness) |
| `eviction` | two clients and one evictor, a clock of 0..3, maximum length 2, cancellations, failing checks, transition keys and results that expire early | no lost update, only expired records evicted, end time bounded: these three need only the lock |
| `reservations` | three creators, three IDs, limit 2, one remover; failures, crashes, unreachable nodes, calls that overlap (605 000 states) | the inductive invariant of the proofs; one creator per ID, limit, no lost VM, but for mixed IDs; no stale answer |
| `waiters_return` | three creators on one ID, overlapping calls, slow creations, nodes that cannot be reached (368 000 states) | every waiter returns (liveness) |
| `index` | two adds, an update and two removals, a clock of 0..4, timeouts from 0, any call failing or dying at any command (780 000 states) | the inductive invariant of the proofs; a record without an entry only after a race in its `Add`; otherwise the entry has the running record's end time and expired sandboxes are found (liveness); orphan entries are removed (liveness) |
| `network_pool` | two slots, two sandboxes, channels of capacity 1; failing set-ups and resets, cancelled resumes, a `Populate` that stops before `Close`, a `Close` at any time (480 000 states) | the inductive invariant of the proofs; a slot is in one place, routed to its holder; nothing is left in a closed pool, and what is acquired then has somebody to return it or was added too late; `Close` returns, unless a nil slot has ended the process (liveness) |
| `server` | one ID, two lifecycles, two calls, limits 1 and 2; failing resumes, snapshots and uploads, VMs that exit, a forced or a graceful shutdown (731 000 states) | no VM, permit or lifecycle left behind, successors untouched, snapshots kept by a graceful shutdown, which ends (liveness) |
| `uploads` | three builds on two nodes, each mapping to all builds before it or to all but one; one failed attempt, failed upload, Redis failure or crash (1 340 000 states) | a stored header needs only what is stored, of the ancestors its node has opened; snapshots stay readable; an upload lands after its ancestors (liveness) |
| `mappings` | a device of four pages in blocks of two, two snapshots after the template, all of their contents (463 000 states) | every read returns what was written, every snapshot gets its header (liveness) |

The inductive invariants `ServerInv`, `UploadsInv`, `RemovalInv` and `MappingsInv` hold on
the instances of `server`, `uploads`, `transitions` and `mappings` as well (add them to the
`.cfg`);
these runs list the properties that follow from them.

**Why the bounds are enough.** The interactions are between an owner, somebody
who arrives during its transition, and somebody who arrives afterwards: three
requests. Two executions make the ID be created again after a removal, which is
when a late command could hit the wrong record. With more fault kinds the
instance has two requests, of which one may run two transitions (a failed
checkpoint and its kill). For the clock, the maximum length 2 with durations 0,
1 and 2 and the clock up to 3 puts an end time before, at and after the limit
and lets the stale cutoff pass. For reservations, three IDs under a limit of 2
let the limit bind with stored and pending entries mixed, and three creators on
one ID are a holder, a waiter and a third that comes too early. Two adds and two
removals make one ID's entry be written, removed and written again.
On a node, two calls on one ID are a checkpoint and whatever meets it (another
checkpoint, a delete, a pause), and two lifecycles are the old and the new one; a
lifecycle ID is free again once it is forgotten, so a behaviour has any number of
them. Two slots and channels of capacity one let both channels be full and empty. Three
builds are an upload, its ancestor and an ancestor of that one, on two nodes in
any distribution; a snapshot that has dropped one of them (`MaxDropped = 1`) waits for
its parent only, for the build before that only, or for none. Four pages in
two blocks, twice snapshotted, give the merge every relation of two ranges
(disjoint, nested on either side, overlapping, sharing an end) and entries that are
split twice and joined again.
`MaxTime` bounds the clock and `InTime` keeps end times below it, so that
liveness runs do not end with a clock that has stopped too early.

Failures of the first GET or of a poll (`lostCheck`) are left out of `handlers`:
a request that wants another target than the transition it waits for starts over
after each, so it would go on for as long as they go on.

Deadlock checking is off in all runs: every request of an instance may be done,
a node may have shut down, and a chain of snapshots ends at `MaxBuilds`.

**Symmetry** permutes requests that are not evictors, executions, IDs, creators and
removers; nothing orders them. The liveness runs use none.

**Fairness.** Weak fairness of each goroutine's steps says that Go schedules it
and that a lock that stays free is obtained (the lock client retries with a
backoff). Weak fairness of the expirations says that Redis deletes what is due;
of `Dispatch`, that a published message is dispatched, though with `pubsub` it
may reach nobody. Failures, crashes and cancellations have no fairness. In
`ExpirationIndex` the ticker and the clock are weakly fair, and the second and
third command of a scan strongly: a cycle may fail any number of times but not
for ever. `EvictorSpec` adds the clock and the evictor's ticker.
Weak fairness would not give an individual request the lock against an endless
stream of others; requests are finitely many here, so `HandlersReturn` says
nothing about starvation under unbounded load.
In the node's modules weak fairness is per goroutine: of a call, of a lifecycle's
cleanup, of `Populate`, of a return, of an upload, of `Close` and of a shutdown
that has begun. Nothing is assumed about calls, signals, exits of VMs and failures.
An upload's fairness includes that its retries end, which the budget of `retry.Do`
enforces. `ToDiffHeader` is a computation in one goroutine.

## 4. Where code and comments disagree

Two runs are expected to fail. Each checks one property that a comment or a log
line of the code states; TLC's trace shows the code doing otherwise. `findings`
in `PROJECT.json` quotes the lines.

| Run | Property | What happens |
|---|---|---|
| `stale_record` | `StaleRecordIsRemoved` | the evictor never gets rid of a record whose removal was cancelled: `StartRemoving` says it is done already |
| `incomplete_header` | `HeadersComplete` | a node resumes a snapshot from a peer and never reads from that snapshot's ancestor; its next snapshot no longer maps to the one it was resumed from, so its upload waits for nothing, takes the ancestor for stored, and stores a header without the ancestor's entry before the ancestor's header is there. One that still maps to its parent waits for that, and lacks the entry only |

A third comment does not hold. `Add` writes the entry of the expiration index before the
record, "so there's no possibility of leaking" (`operations.go:31`), but holds no lock
between the two commands, and two interleavings lose the entry without any failure:

- an `Add` with timeout 0 (the minimum in `spec/openapi.yml`) writes its entry, a scan
  finds it due and without a record, the record is stored, and the scan removes the entry
  as an orphan (`items.go:130-138`);
- a removal has deleted its record and has yet to run its `ZREM` when the ID is created
  again, with any timeout, and takes the entry of the new `Add`.

The evictor does not see the sandbox again unless an update moves its end time.
`LeaksOnlyInAdd`, checked in `index` and proved, says that there is no third way: whatever
fails, the entry of a stored record is lost only in its own `Add`. Without its exception
(the invariant `rec # None => score # None`) `index` is refuted by the first interleaving.

These were met as well. The first four are behaviours of the instances above, which the properties
name as their exceptions; the next three are reproduced by adding the fault named to
the configuration of the run named; the last follows from the lines quoted.

- A removal's `Release` (`store.go:138`), or the `finishStart` of a creator whose sandbox
  was removed at once, deletes the pending entry of the creation that follows it, and a
  third call creates the same ID. `OneCreator`, `WithinLimit` and `NoLostVM` are about
  the IDs that are not `mixed`; without that exception `reservations` refutes the first.
- `RemoveSandbox` deletes the record although the node could not be told to stop the VM,
  and a failed `Add` leaves its VM to a goroutine whose failure is only logged
  (`create_instance.go:342`): such a VM runs without a record until `Reconcile` finds it.
- `Cleanup.Add` reads `hasRun` before it takes the mutex (`cleanup.go:38-52`). When a
  resume is cancelled while its slot arrives, `Cleanup.Run` may go through the list in
  between, and the return of the slot is appended to a list that is never run again: the
  slot, its network namespace and its index stay acquired for the life of the process
  (`AddedTooLate` in `ClosedPoolIsEmpty`).
- `Get` does not look whether `newSlots` is closed (`pool.go:213-222`). Once `Populate` has
  stopped and the channel is empty, the receive yields a nil slot, on which
  `ConfigureInternet` panics. With `done` closed the select may take either; when the context
  of `Populate` ends first, as in `cmd/resume-build`, it is the only case that is ready.
  `CloseReturns` is about processes that have not died of it (`crashed`).
- A GET of the transition key that fails counts as a completed transition
  (`state_change.go:261`): `AlreadyDoneIsDone` in `transitions` with `lostCheck`. It is
  false with `crash` too: the owner's instance dies, its result key, still empty, expires
  before its transition key or is read as it is, and the waiter takes it for success
  (`state_change.go:295` says "assume success").
- `Reconcile` kills the VM of a creation that is slower than the grace period,
  because the VM starts before the record is stored; `storage/redis/main.go:23-24`
  says the opposite. The fault `slow` lets it happen.
- When two `Create` calls of one ID reach a node, the second to call
  `MarkRunning` runs, and is closed later, without being in `live` or
  `lifecycles` (`map.go:173`): `NoStrayVM` and `TracksOutstanding` in `server` with
  `duplicate`.
- `RemoveSandbox` turns every error of `StartRemoving` into success when the
  record it had read was in the killing state (`delete_instance.go:41`), so a kill
  that joined a kill which failed on the node is answered with success.

## 5. What is proved

The theorems hold for any sets of requests, calls, executions, IDs, slots, nodes and
builds, any limits, capacities and times. The named assumptions on the constants
(`ParameterAssumption`, `NoneAssumption` and the like) give the parameters their
types and say that `None` is none of the values it stands beside. What is assumed
about `Faults` is in the tables; each assumption is a line of the table in section 2,
or one of the counterexamples of section 4, and every other fault may happen at any
time.

| `SandboxTransitionsProofs` | Statement | Assumes |
|---|---|---|
| `TypeCorrectness` | `[]TypeOK` | nothing |
| `LengthIsBounded` | `[]WithinMaxLength` | nothing |
| `UpdatesAreSerial`, `EvictionIsDue` | `[]NoLostUpdate`, `[]EvictsOnlyExpired` | no `slowHolder` |
| `TransitionInvariance` | `[]TransitionInv` | no `slowHolder`, no `slowTransition` |
| `MutualExclusion`, `OwnershipOfRecord`, `SnapshotIsRestored`, `RunningIsAlive` | `[]OneTransition`, `[]OwnerKeepsRecord`, `[]RestoredBeforeRelease`, `[]RunningHasVM` | the same |
| `LifecycleRefinement` | `ImplementsLifecycle`, the refinement of `SandboxLifecycle` | the same |
| `RemovalInvariance`, `RemovalIsSeen` | `[]RemovalInv`, `[]AlreadyDoneIsDone` | `NoLoss`: no faults but `node` and `pubsub` |

| `SandboxReservationsProofs` | Statement | Assumes |
|---|---|---|
| `TypeCorrect`, `ResultsAreOfTheAttempt` | `[]TypeOK`, `[]NoStaleResult` | nothing |
| `SingleCreator`, `LimitHolds` | `[]OneCreator`, `[]WithinLimit`, which except the IDs in `mixed` | nothing |
| `ReservationInvariance`, `StoredVMsAreKnown` | `[]ReservationInv`, `[]NoLostVM`, which excepts `mixed` and the removals that died or are `unreached` | nothing |

| `ExpirationIndexProofs` | Statement | Assumes |
|---|---|---|
| `TypeCorrect`, `IndexInvariant` | `[]TypeOK`, `[]IndexInv` | nothing |
| `StoredIsIndexed`, `IndexCarriesEnd` | `[]LeaksOnlyInAdd`, `[]IndexAgrees`, which except a record whose `Add` was `raced` | nothing |

| `NetworkPoolProofs` | Statement | Assumes |
|---|---|---|
| `PoolInvariance`, `TypeCorrect`, `SlotsHaveOneOwner`, `RoutesAreRight`, `CloseLeavesNothing` | `[]PoolInv`, `[]TypeOK`, `[]SingleOwner`, `[]RoutesToHolder`, `[]ClosedPoolIsEmpty` | nothing |

| `SandboxServerProofs` | Statement | Assumes |
|---|---|---|
| `TypeCorrect`, `PermitsAreReturned`, `SnapshotsAreKept`, `SuccessorIsKept` | `[]TypeOK`, `[]PermitsBalance`, `[]KeepsSnapshots`, `KeepsSuccessor` (an action property) | nothing |
| `ServerInvariance`, `VMsAreKnown`, `OutstandingIsTracked`, `CheckpointIsSeen` | `[]ServerInv`, `[]NoStrayVM`, `[]TracksOutstanding`, `DrainSeesCheckpoint` (an action property) | `NoDuplicate`: no `duplicate` |

| `SnapshotUploadsProofs` | Statement | Assumes |
|---|---|---|
| `UploadsInvariance`, `TypeCorrect`, `AncestorsAreStoredFirst`, `SnapshotsAreReadable` | `[]UploadsInv`, `[]TypeOK`, `[]OpenedAncestorsFirst`, `[]Readable` | nothing |

| `HeaderMappingsTheorems` | Statement, for every device, block size and mapping |
|---|---|
| `CreateMappingPacks` | the entries of a set of blocks are in order, on the device, cover exactly its pages, and lead to each page's place in the packed file |
| `NormalizeKeeps` | `NormalizeMappings` of a mapping that tiles the device and is right is one too |
| `NewMappingKeeps` | `Slice` of the compact form gives the entries back; `Validate` accepts it if they tile the device |
| `SearchFinds`, `LookupFinds` | the binary search ends at the last entry that starts at or before the page; `GetShiftedMapping` gives the place and the rest of the entry that covers it |
| `ReadsTheDevice` | `ReadAt` through a header that tiles the device and is right returns the device's pages, for every offset and length |

| `HeaderMappingsProofs` | Statement | Assumes |
|---|---|---|
| `MappingsInvariance`, `TypeCorrect`, `ReadsAreRight` | `[]MappingsInv`, `[]TypeOK`, `[]ReadsWhatWasWritten` | the device is a whole number of blocks |
| `NoSnapshotFails` | `[](pc # "failed")`: `Validate` never refuses a merged mapping | the same |
| `NoCaseLeftOut` | two entries of a merge are always in one of its cases | the same |

Each module of proofs has one lemma per conjunct of the invariant (or per group of
conjuncts that need each other), with one step per action, and derives the theorems
from them. None of the properties is inductive as it stands; what each invariant adds
is what the code relies on at each of its commands.

**`TransitionInv`.** From a state that has one owner, but in which another request
stands before its start script with an outdated view, the next step has two. So:

- `HoldersHoldLock`: a goroutine inside a locked section is the lock's holder;
  this makes GET and SET one unit;
- `OwnerHasKey`: an owner's ID is in the transition key until it deletes the key;
  two owners would need two values of one key, hence `OneTransition`;
- `ChecksStillHold`: what a request checked before its start script (no
  transition, an allowed one, expired if it is an eviction) still holds when the
  script runs, because a key is only written under the lock, a record only under
  the lock or by an owner (and there is none), and time only moves on;
- `NoLostUpdate`: the record in hand is the stored one, under the lock;
- `OwnerKeepsRecord`: no command of others writes a record in a transition state:
  `Update` refuses it, `StartTransition` needs the key to be free, `Create`
  needs the record to be gone;
- `RunningHasVM` with `SnapshotHasVM`: a snapshot that will restore the record
  has a VM to go back to, while a failed checkpoint never restores;
- `RestoredBeforeRelease`: the record after a restore stays running until the
  key is deleted;
- `OpAtPC`: which operation can be at which command, and that it has a record in
  hand where it uses one;
- `ClockReadings`, `CopiesWithin` and `WithinMaxLength`: a clock reading is never in
  the future, and no record in a goroutine's hands, however old, ends later than its
  start plus the maximum length. That makes `LengthIsBounded` independent of the lock: a
  stale copy that is written back is within the limit too.

`NoLostUpdate` and `EvictsOnlyExpired` do not need the transition key at all: every
write of a record, the owner's removal and restore included, is under the lock, and
their theorems use the conjuncts about the lock only. The refinement maps the transition key
to the transition in progress and "some request is between its start script and its
removal or restore" to `claimed`; `LifecycleStep` gives for each action the abstract
step or the stutter.

**`RemovalInv`.** Why may a kill that waited for another kill report success? Its
transition has an owner for as long as its key exists (`KeyIsOwned`), the owner has
stopped the VM or has an error to tell (`StoppedOrTold`), and the waiter, wherever in
its wait it is, is either awaiting a transition that runs for the execution it has
read, or one that is over and left the VM stopped or the error in its result
(`WaitersSeeRemoval`). `IdsAreNew` and `PublishedIsOver` keep a message or a result of
another transition from ending the wait. A crash breaks `KeyIsOwned`, a failing
command `StoppedOrTold`: `NoLoss` is where section 4's counterexamples begin.

**`ReservationInv`.** `HoldsId` says that a creator of an ID that is not mixed has its
pending entry, alone, until it stores its record, that a removal's record is its own until
it deletes it, and that whoever creates the ID under a removal that has yet to run its
`Release` has made the ID a mixed one; the mixed IDs only grow, so what is claimed of the
others needs no look back;
`SlotsCounted` bounds the union of records and fresh entries, which is what the script
compares with the limit, so that turning an entry into a record changes nothing;
`ResultsAreNew` says that the reservation script has deleted the results of attempts
that were over before a waiter joined; `VMsAccounted` ties VMs, records and removals,
those whose node did not answer apart.

**`IndexInv`.** `UnderLock` makes `Update` and `Remove` exclude each other, `AddsAlone`
says that between the two writes of an `Add` there is no record, and the entry has its
end time or is gone, `RemovesOwn` that a removal deletes the entry when no record is left
or when it has raced the `Add` of the one there is, and `EntryKept` that the entry of a
record that was not raced is neither missing nor about to be cleaned up. `raced` is
decided when the record is stored: from then on every `ZREM` is of a removal of this
record, or of a scan that has seen it, and so cannot lose it.

**`PoolInv`.** `SlotAtPC` says which thread has a slot at which step, `SlotsApart` and
`SlotsKept` that the acquired slots are partitioned among channels, `Populate`,
sandboxes and returns; `ReturnsCounted` that the WaitGroup counts exactly the returns
`Close` waits for; `SlotAtPC` also says that a sandbox that has ended with a slot has
it either in a promise that will return it or in the list that was appended to too late,
which is all that `ClosedPoolIsEmpty` leaves; `ClosesInOrder` what `Close` may rely on at each of its steps: no new
return, no `Populate`, an empty channel behind it; `RoutesKnown` who may still be in the
index.

**`ServerInv`.** `CallAtPC` gives what a call knows at its step, `OneReplaces` that a
sandbox has one call at a time which has taken a lifecycle off the map or is about to
put one there, `LiveIsTracked` and `HeldIsTracked` that what is live or held is tracked
until its VM is dead, `VMsHeld` that every VM has somebody who will see to it, and
`ShutdownInOrder` that the calls are over before the uploads are waited for.

**`UploadsInv`.** `EntriesStored` says that an entry is only made of a build whose header
is stored, at whichever node; `UploadAtPC` that each ancestor the node had opened is in
the entries as soon as its wait is over, whichever of the four ways out it took;
which builds a snapshot maps to is fixed when it is taken and the waits are for these
only; `Published` that a future that is done has the complete header behind it, `OriginCaches`
and `PeersServe` that a build can be read from its node until its upload is over.

**`MappingsInv`.** `MergeMappings` has one loop and two uses, of which only the second
meets the condition its comment states ("The baseMapping must cover the whole size",
`mapping.go`). The invariant says why each is right. In the merge of the dirty and
the empty blocks (`DiffInv`) the two lists are apart, because the two bitmaps are, and so
are in the two cases "before" all the time; every entry of the three lists leads to what
its pages held at the snapshot, and the header before does for the other pages. In the
merge of that into the header (`MergeInv`) the result tiles the device up to `Cut`, its
end, and there the rest of the base begins, or an entry of the diff that reaches to the
rest of the base (`Remain`): without the second possibility the case in which a base
entry is dropped inside a diff entry would not keep it. The base is right only for the
pages that no entry of the rest of the diff maps. When one list is used up the result
and the other list tile the device (`MergedWhole`), whichever list it is. Deduplication
uses the properties of the snapshot before: that a page read through the old header is
what the device held (`SharedIsKept`, by `ReadsTheDevice`) is what allows to leave it out.

What the loops compute is an induction over the mapping. It is done on sets of numbers:
`Induction` says that a set that has 0 and is closed under successor is `Nat`, from the
least element of a nonempty set, and each loop has a set of the lengths for which its claim
holds. That the recursive functions exist (`JoinedExists`, `SearchExists`, and
`ReadsTheDevice` for the reads) is proved in the same way.

**Only model-checked.** The liveness properties (`HandlersReturn`, `WaitersReturn`,
`ExpiredIsFound`, `OrphanEntryIsRemoved`, `CloseReturns`, `ShutdownEnds`,
`LandsAfterAncestors`, `SnapshotGetsHeader`): fairness is out of the prover's reach. Of
`SnapshotGetsHeader` the safety part is proved (`NoCaseLeftOut`, `NoSnapshotFails`): a
merge never stops in the middle and never ends with a refused header.

## 6. What is not modelled

- Data: what is in a snapshot, a template, a network configuration, an error
  message. Records carry the five fields the transitions tell apart.
- The calls to the nodes and the database are reduced to their outcome and their
  effect on the VM; a failed call may or may not have had its effect.
- The reads (`TeamItems`, counts), metrics, analytics, webhooks and the pruning
  of the teams set, which affect no modelled state.
- The evictor's batch limit of 256: it needs many IDs.
- On a node: the start of a VM in detail, `Update` and the reads of the server, the
  prefetch harvest after a checkpoint, the number of sandboxes that `Create` checks
  before it takes a permit and that concurrent calls may overshoot.
- A checkpoint whose resume fails leaves its registered upload without a run: its
  future never fires and its peer key expires (`server/sandboxes.go:764-797`).
  `SandboxServer` has the state ("registered" for good); no build descends from it.
- Of the uploads: the builds a snapshot of the instance has dropped are bounded by
  `MaxDropped` (the theorems hold for any bound). The data is compressed: a
  `GetTemplate` that finds no header falls back to a header of the oldest format over the
  uncompressed file (`template/storage.go:60-118`), of which there is none here, and fails,
  so the model has no step for it. V3 headers, a failing `Register` (the build is then not found at
  a peer at all), the eviction of templates and diffs from the caches, frames,
  chunks and checksums, the metadata and the snapfile beside the two devices.
- Of the headers: the serialized formats, the backfill of missing entries by
  `LoadHeader`, headers from before the normalisation fix, and the limits of the
  compact columns (2^32 pages, 2^16 - 1 builds).
- Components marked "no" in section 1: drivers of kernel and hypervisor, I/O,
  SQL and configuration, without protocol state of their own; and those marked
  "planned".

## 7. Plan

Done: the store's transitions, the reservations, the expiration index; a node's
server, its network pool and the uploads of its snapshots; and the mappings of the
snapshots' headers; all with their proofs. Next, in this order:

1. **Routing catalog** (`RoutingCatalog`): the GET, comparison and DEL of
   `DeleteSandbox` against the `StoreSandbox` of a resume, with the callbacks of
   `Store.Add` and `Store.Remove`; property: a running sandbox's route names its
   execution.
2. **Reconciliation with several nodes** (`Reconciliation`): VMs by ID and
   execution on each node, the node's listing against the records, VMs of an
   older execution that survive under a newer record.
3. **Resume and auto-resume** (`ResumeLoop`): the handlers' loops over
   `WaitForStateChange`, `KeepAliveFor` and `CreateSandbox`; properties: the loop
   ends, and never creates from an older snapshot than the last pause's.
4. **In-memory store** (`MemoryStore`): the second implementation of
   `SandboxLifecycle`, by refinement.
5. **Placement** (`Placement`): the retry loop and the optimistic accounting
   against the node's sync.
6. **Evictor's batch** (several IDs in `ExpirationIndex`) and the order of
   network updates on record and node.

## 8. Running

In this directory, with the configurations named in `PROJECT.json`:

```
tlc -workers 2 -config MCTransitions.cfg MCSandboxTransitions
for m in *Proofs.tla *Theorems.tla; do tlapm $m; done
```

The largest runs, `eviction` with three million states and `server` and `uploads` with
their liveness properties, take one to two minutes each.
