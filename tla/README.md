# EasyZFS: TLA+ models, model checking and proofs

EasyZFS is one Go daemon. It wraps `zpool`, `zfs` and `smartctl`, keeps its state
in one SQLite database (a single connection), serves a REST API, an SSE stream and
a web client, and runs a dozen background goroutines: collectors, scheduler,
replication, notification senders. Almost everything that is hard about the daemon
is hard because of those goroutines: each reads some state, lets go of it (there
are no transactions across calls and few locks), talks to a slow outside world, and
writes back. The web client is hard for the same reason with other actors: every
request is answered later, in any order, and what the client does then it does to
the session, the view and the dialog it finds.

This directory holds the specifications of that behaviour, the TLC runs that
check them on small instances, and the TLAPS proofs that hold for every instance.

## 1. Inventory

| Component | State | Operations | Hard behaviour | What makes it correct |
|---|---|---|---|---|
| `internal/replication` | `replication_jobs`; slots in memory; ZFS snapshots, bookmark, destination | tick, run now, one run (snapshot, send, wait, bookmark, prune, record), CRUD | two starts of one job, stale copies of a job, a run cut anywhere by a restart, cancel and commands that fail | one run per job; a bookmark names only what was received; a destination is destroyed only when asked for and needed |
| `internal/longops` | registry of operations in memory | Start, watch, Cancel, List (with purge), RunningFor | watch and Cancel race; Cancel in two critical sections; the kill may not work | a final status is true and final |
| `internal/push` | subscriptions, preferences, quiet hours, queue (tables) | Subscribe, Unsubscribe, SetPreference, SetQuietHours, Notify (one goroutine per alert), drain every 60 s | a drain racing with an alert that queues, a restart between send and delete, endpoints that change hands | every alert has one fate per user; a queued alert that was read leaves only processed; critical alerts are never delayed |
| `internal/webhook` | channel of 64, one worker, dead letters (table) | Notify, worker with retries, Close | full queue, Close during a delivery, Notify after Close | an accepted event is delivered, dead-lettered or dropped by a shutdown, once |
| `internal/notifier` | one SMTP connection | Send (called by a goroutine per alert), Close | none of its own: best effort, errors are logged | a mail is tried once per recipient |
| `internal/alerts` | `alerts`, `known_pools` (tables) | RaiseKind, EvaluatePools with trackPools, EvaluateDisks, Ack | select then update/insert without a transaction; an active alert that gets worse; pools that were not listed | one active alert per (source, kind), announced once; what is wrong has an alert |
| `internal/scheduler` | `jobs` | tick, RunNow, Next | a job deleted or disabled after listing; two starts of one job | a due job runs once per due time |
| `internal/hub` | subscriber channels of 32 | Publish, Subscribe, Unsubscribe, Close, UserActive | slow subscribers, Close during Subscribe | Publish never blocks; no send on a closed channel |
| `internal/updater` | in-progress flag, pending marker, binary on disk | Check, Apply, confirmation at start | Check clears Apply's flag | one Apply at a time; a marker is cleared |
| `internal/users`, `auth`, `totp`, `apikeys` | users, sessions, login limiter | login, logout, CRUD | check then delete of the last administrator | an administrator always exists |
| `internal/backup` | backup files, `.import` file | daily backup, export, import | import swap cut in the middle | a good copy is never lost |
| `internal/series`, `internal/db` | samples, daily roll-up | insert, roll up, purge | a roll-up that fails before the purge | what is purged was rolled up |
| `internal/collectors` | caches of pools, disks, events; the follower's process | light and full passes, events follower | two passes share a cache; a follower that restarts reads old events again | what is shown was read; one event, one alert |
| `internal/settings`, `config`, `recs`, `security`, `model` | key-value rows, flags | reads, clamped writes | none of their own | bounds |
| `internal/actions`, `internal/httpapi` | none | build and run one command each | concurrent commands are ZFS's business | argument validation |
| `web/src/ui/store.tsx`, `data/events.ts`, `data/index.ts`, `data/http.ts`, `Login` | provider, user, demo flag, the EventSource with its retry and failure count, the form | boot, login in two steps, logout, enter and leave the demo, `AUTH_EXPIRED_EVENT`, connect, probe, retry | a 401 of an old request that arrives in a new session; a probe that comes back after a disconnect; a stream that is closed and one that opens again by itself | a session that is gone is noticed; the stream never falls silent |
| `web/src/ui/useData.ts`, `views`, `components` (dialogs) | one copy per view of each resource, the dialog on screen | read, reload on an event, on a success or on a choice; submit, close | answers out of order, an event lost or read before the collector's cache has the change, a dialog closed while it waits | a view does not go back nor stay behind; one submit at a time; a chart is of the source chosen |
| `web/src/data/mock.ts` | four lists of pools, disks, datasets and snapshots; operations, replications, history; intervals | each method waits, then reads and writes; intervals tick; `dispose` | calls that overlap; an interval that outlives what it ticks | the lists agree; an operation ends once; nothing ticks after `dispose` |
| `web/src` (i18n, formatting, icons, capabilities) | none | presentation | none of their own | |
| `internal/mcp` | none | JSON-RPC over the stores | none of its own | |
| `deploy`, `landing` | none | packaging, static pages | none of their own | |

Interaction: alerts are raised by collectors, scheduler and HTTP handlers, and fan
out to the hub (SSE), webhook, mail, channels and push; replication and the
dataset rewrite start their processes through longops; push asks the hub whether a
user is looking; everything is wired in `main.go`, which on shutdown closes the
hub, the HTTP server, webhook, mail and the database, in this order. A tab of the
web client talks to the daemon through REST calls with a session cookie and hears
its events on one SSE stream; a view reads when it is mounted, when an event it
knows arrives and when a dialog calls `refresh()`. In the demo the provider is
`mock.ts` and no server is asked.

`PROJECT.json` lists every hazard found, each at its line, with the properties
that would catch it going wrong.

## 2. Modules

| Module | Models |
|---|---|
| `LongOps` | `internal/longops`: the registry, with a most general client |
| `Replication` | `internal/replication`, composed with `LongOps` (it EXTENDS it and uses its actions) and with the ZFS commands it issues |
| `Push` | `internal/push`: Notify, the quiet-hours queue, its drain, the tables users change |
| `Outbox` | what the webhook promises to the code that raises alerts |
| `Webhook` | `internal/webhook` with the shutdown in `main.go`; implements `Outbox` |
| `Alerts` | `internal/alerts` with the three collectors that raise through it |
| `Session` | a tab's session: `store.tsx`, `events.ts`, `index.ts`, the 401 of `http.ts`, `Login`, with the server's sessions |
| `Dialogs`, `Views` | as data: what each dialog of `Modals.tsx` reads and calls, what each view holds, hears, asks and opens |
| `Client` | a resource from the server to the copy on screen: `useData`, `refresh`, the events, the dialogs; EXTENDS `Views`, which EXTENDS `Dialogs` |
| `Demo` | `mock.ts`: the state the demo keeps, its calls and intervals |
| `LongOpsProofs`, `ReplicationProofs`, `PushProofs`, `WebhookProofs`, `AlertsProofs`, `SessionProofs`, `ClientProofs`, `DemoProofs` | the theorems about them |
| `MCReplication`, `MCReplicationFaults`, `MCPush`, `MCWebhook`, `MCAlerts`, `MCSession`, `MCClient`, `MCDemo` | instances for TLC |

### LongOps

One entry per operation ever started: `status` (`none` before, `gone` once out of
the registry), `target`, whether a cancel was `requested`, where a `Cancel` call
is (`canceller`) and the operating system's process (`proc`). `Start` registers;
`Exit` is the process; `Watch` is the tail of `watch` after EOF and `Wait`, the
switch over `canceledReq` and the exit code included; `Cancel` is three actions,
because the code looks up under the lock, unlocks, marks under the lock, unlocks
and kills: `CancelFind`, `CancelRequest`, `CancelKill`. The kill may fail to reach
the process (its error is ignored). `RestartOps` empties the registry and lets any
subset of the live processes survive. Output lines, PIDs, times and the SSE events
are abstracted. At most one `Cancel` call per operation is in progress at a time.

### Replication

`job` is the table (`force`, `bookmark` = `last_bookmark`), `inFlight` the slots,
`worker` the goroutines with the copy of the job each holds, and one action per
step at which another goroutine or the outside can come in between:

| Action | Code |
|---|---|
| `Read` | `Get` in `RunNow`, `List` in `check`: the copy is made here |
| `TryAcquire`, `Release` | the slot |
| `TakeSnapshot` | `zfs snapshot`, named by the second |
| `StartSend`, `StartFull` | `longops.Start` of the pipeline, incremental when the copy has a bookmark |
| `WaitOp` with `Verdict`, `WaitFull` | the poll that sees the end, and what `run` does with it |
| `DestroyDest` | `force_full`'s destroy |
| `DropBookmark`, `MakeBookmark`, `Prune` | `postSuccess` |
| `MarkRun` | the UPDATE, which writes `last_bookmark` back in every case |

What ZFS does is external and modelled as this code uses it: `CanReceive` (a full
stream needs no dataset; an increment needs the newest snapshot of the destination
to be the one it starts from), `CutShort` (a receive cut short may leave partial
state, as `recv -s` does), refusals to destroy what is in use. `reached` records
which snapshots each destination ever received whole. A command that times out is
reported as failed although it may have done its work; it is then modelled as
having done it before the error is seen.

`Events` chooses what may happen around the runs in an instance: failing commands,
broken transfers, cancel, divergence of the destination, restart, failing UPDATE,
PATCH, DELETE, purge.

Not modelled here: schedules (a job may be due at any time, which only adds
behaviours), SSH transport, clock changes (the clock is monotone), the history and
SSE side effects.

### Push

The tables are `owner` (rows of `push_subscriptions`; a row deleted never comes
back, ids are AUTOINCREMENT), `muted`, `window` and `queue`; `watching` is who has
an SSE stream open. Each alert has a goroutine (`notify[a]`), the drain is one
(`drain`). Every database statement and every HTTP attempt is a step, since nothing
runs in a transaction and the one connection is given back after each statement.

| Action | Code |
|---|---|
| `List` | `Notify`'s list of subscriptions, kept for the whole call |
| `Consider` | the next device: the decision of its user if there is one, else level and `prefEnabled` |
| `CheckQuiet`, `Enqueue` | `inQuietHours`, then the INSERT: two statements |
| `CheckActive`, `Send` | `hub.UserActive`; one attempt of `sendTo` |
| `Wake`, `Drain` | `drainQueue`: the users, the one reading of the clock, each user's window |
| `ReadRows`, `ListUser`, `NextItem`, `NextDevice`, `Push`, `Clear` | `drainUser`, statement by statement; an attempt of `sendTo`; `clearQueue` |
| `Subscribe`, `Unsubscribe`, `SetPreference`, `SetQuietHours`, `Watch` | what users do meanwhile |
| `Restart` | goroutines are lost, tables stay; the decisions of `Notify` are in memory |

A failed read takes the default the code takes (enabled, not quiet, nothing
listed). Attempts count up to `maxIntentos`; a 2xx and a refusal for good are one
outcome because the code treats them alike. `enqueued`, `tried` and `excused` are
history. A query for users that fails in `drainQueue` is a tick that does nothing,
so it has no action. A reading that breaks off half-way is a third outcome where the
code does not report it: `drainQueue` deals with the users read so far, `drainUser`
takes the rows read so far for all there are (`GoOnWith`), and `clearQueue` then deletes
the others with them. `list` and `listUser` return the error instead. Not modelled: the deletion of a user with its cascade, queue
rows that do not parse (the code skips and then clears them), demo mode.

### Webhook and Outbox

`Notify` is two steps (`CheckDone`, `Offer`), because the notifier may be closed in
between; the worker is `Stop`, `Take`, `GetURL`, `Send` (one attempt), `Save`. When
both branches of its `select` are ready either may happen. `main` closes `done`
(`CloseDone`), waits for the worker (`CloseWait`) and closes the database
(`CloseDB`). `Send` has the code's three outcomes: delivered, refused for good
(4xx other than 429), or failed and worth another attempt, lost connections
included. `Outbox` knows nothing of channels, attempts and tables: events are
accepted in order, settled once in that order, and turned away only for want of
room or when closing. The mapping takes what is pending to be the event in the
worker's hand followed by the channel.

### Alerts

`rows` is the table, for each source and kind the rows oldest first; `known` is
`known_pools` as ages. Three goroutines raise (`raiser`): the zpool collector, the
SMART collector and the follower of `zpool events -f`. Each has the calls still to
make and, inside `RaiseKind`, the call, the row and whether its SELECT failed. The
machine (`pool`, `disk`, and `log`, the events the kernel keeps) is external.

| Action | Code |
|---|---|
| `Poll` | a pass that lists the pools: the calls of `EvaluatePools` |
| `Track` | `trackPools`: an upsert per pool listed, each of which may fail, then the query, whose failure ends the pass, and the guard on pools just seen |
| `Scan` | a pass of the SMART collector: `EvaluateDisks` |
| `Dispatch` | `scanEvents` and `dispatch` of one event |
| `Die` | the process of `zpool events` ends; after two short lives the collector gives up |
| `Select`, `Update`, `Insert`, `Notify` | `RaiseKind`, statement by statement, then the announcements, which it does not wait for |
| `Ack` | the acknowledgement from the web |
| `Change`, `Happen`, `Tick` | the machine and the clock (external) |
| `Restart` | goroutines are lost, the table and the kernel's events stay |

A SELECT that fails is taken by the code for "no active alert"; a row inserted
after one is marked `blind`, and `heard` records what was announced of a row: both
are history. The calls of one pass are for different sources or kinds, so they are
taken in any order. `zpool events -f` prints the events the kernel keeps and then
the new ones; a new process starts over, which raises old events again. What a
pass reads is taken in one step; how the light and the full pass share their cache
is left to a later module. Not modelled: texts, what the mail and the channels
say, the purge of acknowledged rows, the settings (a reading has its grade under
the thresholds of the moment).

### Session

The tab is `provider`, `saved` (localStorage), `demo`, `user`, `ready`, the login
`form` and `sse`, the variables of `events.ts` (`stopped`, `timer` for
`retryTimer`, `fails` for `authFails`, `es`) with the life of each EventSource
object. `net` is what is in flight, with the cookie it was sent with; the server is
`sessions` and `issued`. `cookie` is the browser's.

| Action | Code |
|---|---|
| `Reload` (and `Init`) | a page that loads: `initProvider`, then `getMe` or `startMock` with its simulated login |
| `SubmitPassword`, `SubmitCode`, `BackToPassword`, `GotLogin` | `Login` and the store's `login`, `login2FA` |
| `EnterDemo`, `GotEnter`, `GotDemoMe`, `ExitDemo` | the demo's button, `startMock`, `exitDemo` |
| `Logout`, `GotLogout` | `logout`: the stream is cut before the request, the rest is done after it |
| `ReloadUser`, `GotMe`, `Ask`, `GotData` | `me` and any other request; a 401 is `Expired`, the listener of `AUTH_EXPIRED_EVENT` |
| `Fire`, `Opened`, `Refused`, `Cut`, `GotProbe` | the retry timer, `onopen`, `onerror` with its probe, `probeAndRetry` |
| `ServeHttp`, `ServeMock`, `Expire` | the server's handlers; those of a `MockProvider`; a session that runs out or is closed |

The functions of `events.ts` are operators on `sse` (`Closed`, `Disconnect`,
`OpenStream`, `Connect`, `ScheduleRetry`, `Probed`), so that an action which calls
two of them composes them. A request goes to the provider there is when it is made
(`Provider`): the server, or one of the `mocks` this page has made, each with its own
session. `logout` goes on with the `demo` of the moment it was called, whichever
provider it asked; the two differ while the demo is being entered. A mock's 401 is an
error and no more; only `http.ts` tells of one. Assumed: nobody leaves the demo and
enters it again within the 80 ms of a mock's logout (`EnterDemo`). Without that, the
old logout takes the provider back to the server while the demo is being entered, and
a tab with `demo` set over the server's provider ignores the end of its session.

Abstracted: who the user is, languages, themes, routes, the length of the back-off,
capabilities; the `catch` around the constructor of an `EventSource`, which throws
only for a malformed URL, and this one is a constant.

### Dialogs, Views and Client

`Dialogs` has a definition for each dialog a button opens and `Views` one for each
view: records that say what is read, which calls are made, what each changes on the
server, which events are heard and what is read again after a success. They are
the part of some 4000 lines of JSX that decides whether what is on screen is current.
`Client` gives them their meaning, once for all, since every dialog repeats the
same submit and every view uses the same hook.

A resource's versions are numbers: `truth` on the server, `visible` what a read is
answered with (the collector's cache, for the resources in `Cached`), `hook.have`
what the view holds. Resources do not touch each other, so a behaviour follows one
(`res`) through every view and dialog.

| Action | Code |
|---|---|
| `ServeAsk`, `GotAnswer` | a read and its answer in `useData`, dropped when it is not the newest; the panels that have no such check show it |
| `ChangeElsewhere`, `Collect` | a change by the system, a job or another user; the collector's pass, which fills the cache and publishes |
| `Hear`, `CutStream` | `useSSE` with the view's listener, data merged or read again; a stream cut with what was on it |
| `Navigate`, `Choose` | mounting another view; another source or range in Trends |
| `OpenDialog`, `FillIn`, `CloseDialog` | `ModalHost`, the fields that enable a button, Escape and the overlay |
| `Submit`, `Click`, `ServeCall`, `GotCall` | a dialog's submit, a view's button, and what is done with success or failure |

`excused` is history: nothing will tell the view of a version it lacks, because the
change has no event, or none the view handles, or because an event or an answer was
lost. It becomes false again as soon as the view reads.

Left out of `Views` and `Dialogs`: the profile, backups, API keys and push panels of
Settings, `UpdateWizard`, and two dialogs that no button opens (`editds`, `mypass`).

### Demo

A call waits the delay of its method and then runs its body in one step, because
JavaScript does. `Ask` is a call the views or dialogs offer in that state, `Resume`
the end of a delay (a shorter delay may overtake a longer one, an equal one may not),
`Tick` an interval, `Dispose` the end of the demo. The bodies have the names of the
methods. The class starts as `mock.ts` has it: six disks, of which five have a stable
path; `tank` with a vdev that is missing, called by its GUID; `ssd` being scrubbed. A
vdev is called by its disk's name, by its path after a replacement (that is what the
dialog sends), or by a GUID, so vdevs and disks name the same thing in different ways,
as in the code. A disk that is twice in one pool is one vdev here; it takes a call
that came late. `pools` holds the objects, listed or not, because an interval captures the
object and keeps it when the list forgets it. A session plays with the pools or with
the operations (`part`): no method of one half reads what the other half alone
writes, except for the datasets, which both have.

Calls overlap freely. `stale` is history: the disks, datasets and groups of snapshots
that a method was carried out on when they were no longer what its dialog had offered,
because another call came first and the method, unlike `expandPool`, does not look
again. `Coherent` excepts those very items and nothing else; `DisksOwned` excepts none.

## 3. Runs

| Run | Instance | Checks |
|---|---|---|
| `replication_faults` | 1 job, 2 goroutines, 2 reads, 3 seconds, every event | `TypeOK`, `SlotExclusive`, `RegistryMatchesRuns`, `BookmarkReached`, `TruthfulStatus`, `FinalIsFinal`, `DestroyedOnlyOnFailure`, `SlotFreed` (liveness) |
| `shared_source` | 2 jobs on one source, nothing fails | `RecordedIsBookmark` is violated |
| `stale_copy` | 1 job, 2 goroutines, nothing fails | `LaterRunsIncremental` is violated |
| `push` | 1 user, 2 subscription rows, 2 alerts (1 critical), a day of 2 hours, 2 faults or changes of any kind | `TypeOK`, `OneFate`, `CritReachesAll`, `ReadThenProcessed`, `QueueDrains` (liveness) |
| `push_drain` | 1 user, no faults, nobody changes anything | `OnlyProcessedCleared` is violated |
| `webhook` | 3 events, a channel of 2, 2 retries | `TypeOK`, `QuietAfterClose`, `DeadForAReason`, `OutboxImplemented` (refinement), `AcceptedSettled` and `CloseReturns` (liveness) |
| `alerts` | 1 pool, 1 disk, the end of a scrub that polling sees too; 1 change, 1 event, 1 ack, 1 mishap | `TypeOK`, `OneActive`, `NoStorm`, `NoFalseMissing` |
| `alerts_live` | 1 pool that fills up or goes, 1 disk; 1 change, 1 ack, 1 mishap | `ConditionAlerted`, `MissingAlerted` (liveness) |
| `critical_heard` | 1 pool that fills up, 1 change, nothing fails | `CriticalHeard` is violated |
| `session` | 2 EventSources, one request of each kind in flight, 2 sessions, 3 gestures, 2 mishaps | `TypeOK`, `NeverSilent`, `ExpiredSeen` and `StreamBack` (liveness) |
| `client` | 8 resources in every view that holds them, 1 change, 3 reads and 2 calls in flight, 1 mishap, 3 gestures | `TypeOK`, `StaleIsOnItsWay`, `ChartIsChosen`, `OneSubmitPending`, `NoGoingBack`, `FinallyCurrent` and `NoDialogStuck` (liveness) |
| `demo` | 2 pools, 6 disks, 3 datasets, 2 replication jobs; 3 calls on pools or 4 on operations, 2 of which may overlap; 2.7 million states | `TypeOK`, `Coherent`, `Operations` |

Bounds. Two goroutines are enough for every race on one slot, and the proofs lift
the bound; three seconds give two names plus a collision; two reads are an
incremental run after a full one. Two jobs on one source are in `shared_source`, and
in the theorems, which are for any number of jobs. `MaxOps` is
twice the reads (a run starts at most two operations) so the bound on operations
never disables a start. The runs end when the reads are used up: deadlock is not
an error, hence `CHECK_DEADLOCK FALSE`.

In `Push`, one user and two rows give a user with two devices and a device that
comes and goes; two alerts are one queued while the other is drained. That a device
changes hands between users, and all else that takes two of them, is in
`PushProofs`: it has no bound on users. Two faults or changes are enough for a setting that changes and back
within one call, or a failed statement followed by a restart; `PushProofs` lifts
all of these bounds. A day of two hours has a quiet and a free one, and the window
<<1, 0>> crosses midnight. In `Webhook` three events are the channel
full and one more; nothing else is bounded.

In `Alerts` the pools start in any state, so one change is a pool that comes, goes,
degrades or recovers between any two statements; a mishap is a failed statement, a
restart, or the end of the follower's process. `MissingAfter` is one tick: ages
0, 1 and "longer" are all that the comparison tells apart. `AlertsProofs` lifts
these bounds.

In `Session` two EventSources are the one in `es` and one that was replaced; one
request of each kind in flight is enough for one kind to overtake another, which is
where the hazards are; two sessions are the one that ends and the next; three
gestures are a logout, a login and something in between, two mishaps a session that
ends and a request lost while that is found out. `SessionProofs` lifts these bounds.
In `Client` one change is one version to lack; three reads are an old one, one made
by an event and one made by a call, and two calls a dialog's and one of a view, or of
a dialog opened after the first was closed. The eight resources differ in what the
properties can tell apart: cached or direct, announced or silent, patched or not,
with latest-answer check or without; the other ten repeat one of them.
`ClientProofs` lifts these bounds, and the choice of resources. In `Demo` a
scrub has two ticks, an operation the code's three; three calls on pools are a
creation, a change and a destruction, four on operations a start, a cancel and
another start or a deletion; two that overlap are enough for every check that is
made before the delay. `DemoProofs` lifts the bounds on calls, overlaps and ticks; the
pools, disks, datasets and replications stay those the program begins with or may make.

Fairness of `Replication` (`FairSpec`): goroutines that can go on do; a process ends, well or badly;
the watch goroutine sees it. Nothing is assumed of users, of restarts or of the
clock. A `zfs send` that hangs for ever would break it: the code has no timeout
there and neither does the claim `SlotFreed`.

Fairness of `Push`: a drain that has begun goes on (its statements return and an
HTTP attempt has a timeout), hours pass, and the ticker is woken often enough: a
tick each minute means that a drain which keeps ending finds every hour of the day
sooner or later while idle, and that a user's free hours are not all slept through
(strong fairness of `Wake` outside his window). Nothing is assumed of Notify, of
users or of the push service. Fairness of `Webhook`: the worker, `Offer` and the
two waits of the shutdown go on when they can; nobody has to raise or shut down.
Fairness of `Alerts`: the loops of the three collectors come round, the statements
they have begun end (well or badly), and time passes; nothing is assumed of the
machine, of acknowledgements or of failures, which are bounded.
Fairness of `Session`: requests are answered or fail, timers fire, a view that is on
screen goes on asking (the shell polls); nothing is assumed of the user. Fairness of
`Client`: requests are answered or fail, the collectors come round, JavaScript's queue
drains; nothing is assumed of the user or of changes. `Demo` has no fairness.

What the violations show is written out under "findings": the bookmark is per
source while the record is per job; the copy of a job read before the slot is taken
may be stale when it is used; a drain deletes alerts that were queued after it read
the queue; a pool's active warning that becomes critical is announced to nobody.

Three more instances are not among the runs, and TLC finds each of these violated:

- `ForceFullRetries` of `Replication`, with 1 goroutine, 3 reads, `MaxOps` 6, `MaxTime`
  3 and the events `transfer` and `diverge`: a `force_full` retry which breaks leaves a
  job that never recovers.
- `OnlyProcessedCleared` of `Push` again, as in `push_drain` but with 1 alert,
  `MaxChanges` 1 and the event `db`, so that nothing is queued meanwhile: the reading of
  the queue breaks off before its row (a `Scan` that fails ends the loop,
  `prefs.go:265-268`, and `rows.Err()` is not asked), what was read is taken for the whole
  queue, and the row is deleted although no device was ever offered it. When `listUser`
  fails, `drainUser` returns and says that it retries without deleting (`prefs.go:288`).
- `ExpandsFree` of `Demo`, with 2 calls on pools and `MaxWaits` 1, so that none overlap:
  `mock.ts:638` announces a gate, the free disk, and `docs/api-contract.md:55` a 409 for a
  disk of a pool. A replacement sends the new disk's stable path
  (`Modals.tsx:1295-1296`), which `replaceDisk` does not find among the disks
  (`mock.ts:500`): `nvme2n1` replaces the disk of `ssd`, still counts as free, and an
  expansion of `tank` takes it, so that two pools have it.

## 4. Proofs

All theorems are about `Spec`, for any finite or infinite sets of jobs, sources,
goroutines and events, and any bounds that satisfy the named assumptions
(`LongOpsAssumption`, `ReplicationAssumption`, which TLC evaluates in each run).

- `OpsInvariant`, `OpsTruthful`, `OpsFinal`: the registry by itself. `TruthfulStatus`
  is not inductive; the invariant adds that operations are numbered without gaps
  (so that `Start` meets a fresh entry) and that a requested operation was started.
- `ReplicationTruthful`: the actions of `Replication` are built from those of
  `LongOps`, so its behaviours are behaviours of the registry (a lemma, which says
  nothing about runner.go by itself) and `OpsTruthful` and `OpsFinal` carry over.
- `SlotIsExclusive`: `SlotInv` is `SlotExclusive` with the type invariant; the
  equality of `inFlight` with the jobs of the holding goroutines is what makes it
  inductive.
- `OnePipelineAtATime`: needs `OwnInv`, that a running operation is the one some
  holding goroutine waits for, and `WaitInv`, that a waiting goroutine's operation
  was started for its job and sends its snapshot. A restart empties the registry: that is why the claim
  is about the registry and not about processes.
- `RunsMatchRegistry` adds `NoLostWait` to it, by `KeptInv`: what a goroutine waits
  for has not left the registry. A restart forgets the operations and the goroutines
  together, and only what ended is purged; that no purge comes between the end of an
  operation and the next poll, 300 ms later, is the guard of `Purge`. This is the part
  of `SlotFreed` that is safety: `waitOp` has no other way out.
- `BookmarksReached`: `SentInv` (an operation's stream is the snapshot of the
  goroutine that waits for it), `CopyInv` (a copy's bookmark was reached) and
  `ReachedInv`.
- `DestroyOnlyOnFailure`: `DestroyInv` ties the destroying goroutine to an operation
  that ended in error, and `OpsInvariant` says what that means.

`Push` (`PushAssumption`: distinct sentinels, a day has hours, windows lie in it):

- `PushTypes`: `Sane` ties each goroutine's data to its program counter (a device
  in hand when sending, attempts between 1 and `maxIntentos`), without which the
  count of attempts is not bounded.
- `PushFates`: `FateInv` says what the fate recorded for a user has to do with the
  rows enqueued and the devices tried, for each place a goroutine can be; `OneFate`
  by itself says nothing of a goroutine that has decided and not acted yet.
- `PushProcessed`: `Progress` says that a row read is still to come, in hand, or
  done with; a step that deletes rows then deletes, of those read, only those done with.
  As to rows not read, it bounds what clearing the queue whole can cost:
  `QueueInv` is that no row's number is above `lastRow` and that a row of the user in
  hand that was not read is newer than those that were. A reading cut short before its
  first row can still cost a user all of his queue, and the theorem does not deny it.
- `PushCritical`: `CritReachesAll`, from the same `FateInv`, whose conjuncts for a
  critical alert say that it never looks at the quiet hours, that its fates are only
  `send` or none yet, and that a device listed is to come, in hand or tried.

`Webhook` (`WebhookAssumption`: room and retries are positive):

- `WebhookInv`: the channel and the worker's hand hold each accepted event exactly
  once, and the attempts counted are those of the loop. `WebhookTypes`,
  `WebhookQuiet` and `WebhookDead` follow; without the "exactly once" the count of
  attempts could pass `Retries + 1`.
- `WebhookPromise`: Webhook implements Outbox, step by step. The work is in showing
  that hand and channel together behave as one sequence.

`Alerts` (`AlertsAssumption`: readings and events are of the shapes the evaluations
tell apart, the window is positive):

- `AlertsInvariant`: ownership. Each source and kind belongs to one goroutine
  (`Owner`; an event's source is `zed.<class>`, which no poll uses), so between a
  SELECT that found nothing and its INSERT nobody else inserts there. The invariant
  adds what a goroutine inside `RaiseKind` knows: about to insert, every row is
  acknowledged unless it was blind; about to announce, its row has not been heard.
  `AlertsTypes`, `AlertsOneActive` and `AlertsNoStorm` follow.
- `AlertsNoFalseMissing`: the calls for missing pools are made by `Track` alone and
  only go away until the next pass; ages only grow in between.

`Session` (`SessionAssumption`: the sentinel is neither a stream nor a request):

- `SessionTypeOK`, `SessionNeverSilent`: the two are one induction. The bound on
  `fails` needs that three refusals stop the stream, which is the conjunct `IInv`
  adds; `NeverSilent` needs that a probe which comes back stops the stream or leaves
  a retry behind (`ProbedSse`), and that no other answer touches the slots of probes.
  There is a lemma for each function of `events.ts`; the steps only compose them.

`Client` (`ClientAssumption`: the resources followed are resources, at least one read
may be in flight, the sentinel is neither a call nor a dialog):

- `ClientNoGoingBack`: `Ordered` says that one read is the newest, that no answer in
  flight is newer than what the server shows, and that what the newest one brings is
  not older than the copy. Without its last part the one answer that counts could
  still take the view back.
- `ClientChart`: `Charted` adds that the newest read is of the source chosen, which
  is why an answer that ends the loading is one of that source.
- `ClientOneSubmit`: `OneDialog` adds that the call a dialog waits for will close it
  and that no call belongs to a dialog that is gone; with that, the late success of
  another call, which closes whatever dialog is there, leaves none waiting.
- `ClientStaleOnItsWay`: inductive with the others. The cases that matter are the
  collector, which announces everything a pass made visible or excuses it, and the
  newest answer, which is of the version now visible or leaves an event or a call's
  answer behind it.
- `ClientTypes`: with finiteness of the reads in flight, since the bound is a
  cardinality.

What the program's tables say enters through four lemmas: what a dialog waits for
closes it, except the properties (`DialogActs`), what buttons announce (`ViewActs`),
the dialogs a view opens exist (`ViewOpens`), and Trends drops late answers and hears
no event (`TrendsView`).

`Demo` (`DemoAssumption`: a scrub takes at least two ticks):

- `IInv` has three parts. `Types` says what the lists, the calls and the intervals
  are, with what each holds of another: a call for an operation or a replication
  names one that was created, an interval of an operation likewise, a row of the
  history an operation that was a replication.
- `Together` is the four conjuncts of `Coherent` and `Disjoint`: two listed pools share
  no disk that is not stale. It is not in `Coherent`: "nuevo" may be created twice, and
  replacing a disk of the one would free a disk of the other if they shared it. It
  needs no bound on the calls that wait: a method that finds what was offered keeps it,
  and one that does not marks the item (`MarkFacts`); what is marked stays marked, so
  each part only has to hold of fewer items afterwards (`TogetherStays`).
- `OpsOK` is `Operations` without its action part, inductive with the types.
- The operators have their lemmas: what `Find` answers (`FindFacts`; that a set of
  numbers has a least one rests on well-foundedness), what `With` and `Without` do
  to vdevs (`VdevFacts`), what leaves a queue (`RemoveAtFacts`). A step that changes
  one pool is one of `ReshapedFacts`, which asks of the step only what it does to the
  disks (`Follows`), and one that changes the status of an operation of `RestatusOps`.
- `DemoTypes`, `DemoCoherent` and `DemoOperations` follow, the last with `EndsOnce`,
  which every step is shown to keep along with the invariant.

Only model-checked: the liveness properties (`SlotFreed`, `QueueDrains`,
`AcceptedSettled`, `CloseReturns`, `ConditionAlerted`, `MissingAlerted`,
`ExpiredSeen`, `StreamBack`, `FinallyCurrent`, `NoDialogStuck`), because liveness under
fairness is out of reach of the prover; and the violations.

## 5. Not modelled

- `internal/scheduler`, `updater`, `users`, `backup`, `series`: what can be said of them
  is listed under "hazards". Two runs of a job, a check during an update, the last
  administrator, a stop between two renames, a purge after a roll-up that failed:
  nothing in the code keeps these apart, and no document promises that they are, so a
  property would restate their absence. `Next` of the scheduler is calendar
  arithmetic with its own table tests.
- `internal/hub`: one mutex around a map of bounded channels, with a send that drops
  when full. `Push` uses who is watching, `Client` loses events.
- `internal/notifier`, channels, `actions`, `httpapi`, `mcp`, `settings`, `config`,
  `recs`, `security`, `deploy`, `landing`: no state, or one row that one statement
  writes.
- `internal/collectors` beyond alerts: parsers (the table tests fit them better), the
  cache shared by the light and the full pass.
- Numeric code: hashing, TOTP arithmetic, LTTB.
- In the web client: fields of forms, sorting, formatting, translations; profile,
  backups, API keys, push settings; the update wizard. In the demo: methods that only
  read, and those that touch a single list.

Some behaviours of the web client were met while modelling, and are in the models as
the code has them, but no document or test says otherwise, so no run calls them
violations:

- `replication.finished` is listened to in `Tasks.tsx:36` and published by the daemon,
  but missing from the types `events.ts:46` subscribes to; a view learns of the end by
  `longop.update`.
- `DatasetProps` (`Modals.tsx:612-631`) stays busy after a success: `OneSubmitPending`
  and `NoDialogStuck` except it by name.
- A success closes the dialog on screen, also when it is another one, opened after the
  dialog that asked was closed (`GotOk`).
- Mounting, unmounting and promoting a dataset, and powering a disk off, read nothing
  again; a reconnected stream does not either: `excused` records it.
- `NewPool` offers disks whose partitions are in use (`Modals.tsx:245`, unlike 1125
  and 1256), and in the demo (`PoolCalls`) creates the pool.
- A call that waits while the demo is left starts an interval that `dispose` no longer
  sees: `TimersFreed` allows those (`late`).
- The settings are put whole and shown at once, and two puts may arrive in the other
  order; the panel of alerts shows an answer however old. Neither is in `Followed`.
