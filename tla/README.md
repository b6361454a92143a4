# A formal model of nextcloud-sync-daemon

This directory holds TLA+ models of the daemon in `src/`, the TLC
configurations that check them on small instances, and proofs, checked by
TLAPS, of what matters most for instances of every size. The models follow the
Go code; documents are quoted only where they make a promise.

## 1. The system

The daemon keeps a directory in step with a Nextcloud server by running
`nextcloudcmd` whenever something seems to have changed.

```
 users --> directory --> watcher ----+                       +--> peers
                            ^        |   channel (capacity 1)|
 clock ------------------> poller ---+--> [ event ] --> engine --> executor --> nextcloudcmd
 server, peers --> webhook ----------+                       |                      |
 server --> notify_push client ------+                  health status <-- scan      |
                            ^                                                       |
                            +------------- writes files in the directory -----------+
```

| Component | Source | State | Operations |
|---|---|---|---|
| Engine | `internal/engine` | event channel, time and result of the last sync, counters, WaitGroup | start sources, signal readiness, take an event, drop it in the cooldown or sync, notify peers, shut down |
| Executor | `internal/sync/executor.go` | mutex, netrc directory, process, pipes, deadline | `Run`: lock, read password, write netrc, start, kill, reap, classify, clean up |
| Failure parser | `internal/sync/failure.go` | none | find the failing item in stderr |
| Watcher | `internal/watcher` | watches, debounce timer, warned paths | walk the tree, read events, restart the timer, send, report names |
| Poller | `internal/poller` | ticker | send at each tick |
| Webhook | `internal/webhook` | rate map, time of the last purge | answer requests: check, record, limit, filter, send |
| notify_push client | `internal/notifypush` | connection, backoff | discover, dial, authenticate, read, back off |
| Health | `internal/health` | last result, counters, sources, lists of offending paths | one method per update, each under the mutex |
| Scan | `internal/scan` | none | walk the tree once at start-up |
| Peer notifier | `internal/peer` | none | one request per peer |
| Configuration | `internal/config` | none | defaults, validation, reading the password |
| Main | `cmd/nextcloud-sync-daemon` | instance lock | scan, make the sources, run the engine, watchdog, `--once` |
| App password login | `internal/appauth` | poll token | poll until a password, an error or the deadline |
| Service installation | `internal/svcinit` | unit file | enable, disable |

How they interact, and what is hard about it:

* Every source sends on one channel with a non-blocking send. A full channel
  means "a sync is pending"; whether that is still true later is a matter of
  order (`Engine`).
* The engine's goroutine blocks in the executor for as long as a sync takes.
  Sources go on meanwhile. Failed sources, a cancelled context and a client
  that does not end meet in the shutdown (`Engine`, `Executor`).
* The watcher walks a tree that others change, and reads a queue that may
  overflow (`Watcher`). Every sync writes into the tree it watches: a feedback
  loop held back by debounce window and cooldown (`SyncDaemon`).
* Webhook handlers run concurrently on one rate map, with times read outside
  its lock (`Webhook`).
* Connections fail at any step and come back (`NotifyPush`).
* The scan's result and the watcher's reports end in the same lists
  (`Findings`).
* A daemon that synced tells its peers, whose syncs write files their own
  watchers report: the feedback loop again, across machines, over requests that
  are lost and never repeated (`PeerMesh`).
* The service may be started by systemd and by hand, killed, restarted and
  rebooted, while a tool installs or removes it in steps that may each fail
  (`Service`); the login flow races a deadline, a slow server and a password
  that is given out once (`AppAuth`).

What makes each correct: the engine answers or knowingly discards each trigger,
runs one sync at a time a cooldown apart, and ends; the executor runs one
client, with credentials exactly while needed, and never reports a failed sync
as done; the watcher misses no change it has not given up on and triggers only
after a full debounce window; the whole daemon converges and does not echo;
the webhook spaces requests of one address; the client of notify_push backs off
and recovers; health tells the truth about all of it; a mesh of daemons settles
without notifying each other in circles; no two daemons run at a time, and a
half-removed service converges; who approves a login in time gets the password;
a configuration that is accepted can be run with; and the item blamed for a
failure is the one that failed.

## 2. The modules

| Module | Stands for | Kind |
|---|---|---|
| `SyncLoop` | what the engine promises | abstract specification |
| `Engine` | `engine.go`, with sources and executor seen from outside | detailed; implements `SyncLoop` |
| `SyncCall` | what `daemon.SyncExecutor.Run` promises one caller | abstract specification |
| `Executor` | `executor.go` | detailed; implements `SyncCall` for each caller |
| `Watcher` | `watcher.go` and the kernel's queue | detailed |
| `Webhook` | `webhook.go` | detailed |
| `NotifyPush` | `client.go` and the server it talks to | detailed |
| `HealthStatus`, `HealthLists` | the methods of `health.Status` | operators, used by the above |
| `Findings` | `scan.go`, `main.go` at start-up, the watcher's reports | detailed |
| `SyncDaemon` | watcher, poller, engine and `nextcloudcmd` together | composition of `Watcher` and `SyncLoop` |
| `PeerMesh` | several daemons: `notifier.go`, the engine's rule for when peers are told, the peers' webhook | composition, over `SyncLoop`'s steps for each node |
| `AppAuth` | `appauth.go` and `runGetAppPassword` | detailed |
| `Service` | `svcinit.go`, `run()` as a process, the flock, systemd | detailed |
| `ConfigFile` | `config.go` | operators |
| `FailureParse` | `failure.go` and what it is given | operators, with `nextcloudcmd` as their input |
| `Commands` | `main.go`: what a run can be but the daemon's loop | sum of the four above, by `mode` |
| `EngineProofs`, `WatcherProofs`, `ExecutorProofs`, `WebhookProofs`, `NotifyPushProofs`, `SyncDaemonProofs`, `PeersAndFindingsProofs`, `CommandsProofs` | | theorems |
| `MC...` | | instances for TLC |

**Engine.** `pc` is where `Engine.Run` is: starting goroutines (`spawn`), in
its select (`loop`), in the executor (`sync`), in `wg.Wait` (`drain`), or
`returned`. Each source's goroutine has a control point of its own, since the
deferred `SetSourceRunning(false)` and `wg.Done` are two steps. Taking an event,
checking the cooldown and calling the executor touch no shared state in
between and are one step (`StartSync`), as are the bookkeeping after it
(`FinishSync`, built from `CountSync`, `RecordOutcome`, `NotifyIfLocal` and
`MarkSynced`). `since` is the elapsed time the code compares with the cooldown,
counted up to it. `duty`, `idle` and `lastOutcome` are history: properties read
them, no guard does.

**Executor.** `pc` names the points of `Run` where another goroutine, the
kernel or the clock may come in between. The command's context is `cmdCtx`; a
kill (`KillClient`) is a step after its end and may find the process gone; the
process is reaped and the pipes are closed separately, as in `os/exec`.
`Crash` ends the daemon and, through `Pdeathsig`, the client; a netrc directory
stays behind.

**Watcher.** The queue of events, the table of watches and the tree are
external. `addRecursive` is a walk in steps: `VisitDir` adds a watch, `ListDir`
reads a directory's entries, and the tree changes in between. `timer` is what
is left of the debounce timer; handling an event restarts it, also when it has
expired and its tick has not been read.

**Webhook.** A request goes through the points of `handler`: `Record` (its time
is read before), `Limit` or `Admit` (one critical section of `rateMu`, with the
purge), then `BadBody`, `Filter` or `Trigger`. `stamp` is the last `time.Now()`
of a handler.

**NotifyPush.** `phase` is where `Start` or `connectAndListen` is. The
connection (`conn`, `inbox`) and the server are external.

**Findings.** The walk of `scan.Tree` visits paths in their order, and reads a
directory when it comes to it, so changes may fall between. `EndScan` is the
end of `Tree` and what main does with the result; then the watcher starts, and
each change goes through `checkName` and `checkConflict`, where there is a
watch. The stable sorts by time (`NewestFirst` of `HealthLists`) are defined by
where each entry comes: behind the newer ones and behind the equal ones it
followed. The definitions carry the module's name (`FindingsSpec`), since the
module of their proofs holds those of `PeerMesh` too.

**SyncDaemon.** The watcher is `Watcher` on a flat directory, through
`INSTANCE`; the engine is `SyncLoop`, which `Engine` implements; `nextcloudcmd`
looks at each file once, in any order, and may fail. `prompt`, chosen at the
start, says whether time waits for goroutines that have something to do, or
they may be as late as they like.

**PeerMesh.** Each node has the engine's channel, its cooldown, a debounce
window and a poller, by the same rules as `SyncDaemon` but with the files
reduced to two facts: something here is not on the server (`dirty`), something
there is not here (`stale`). `sent` holds requests on the way, one for each
peer, delivered or lost. A node may be restarted at any time and then forgets
its channel and its window.

**AppAuth.** `phase` is where `Poll` is. The ticker's channel holds one tick; a
request takes up to the client's timeout; one that the client gave up on may
still reach the server (`stray`) and use up the password (`grant`).

**Service.** `tool` is the control point of `Enable` or `Disable`; each of
their steps may fail, as may the process between two of them. `unit` is what
is at the path, which another writer may change at any time; `proc` and `lock`
are the processes that run the daemon and the flock each takes, in the shared
/tmp or in the private one that PrivateTmp=yes gives a system unit. `lockFile`
is whose the file in the shared one is: it outlives its daemon, and while it is
another user's (`Strangers`), or /tmp is full or read-only, the opening fails
and the process exits with code 1 (`OpenFails`).

**ConfigFile, FailureParse.** What each function returns, over texts reduced to
what its conditions and regular expressions see of them. A line of output is
about an item (`Line`: its name, its status, a message or none) in the
propagator's wording or in a bare one, or about none (`Remark`, such as the
rollup that failure_test.go has, with an error status or without), or blank. A
name or a message may hold a word that counts as an error status (`Telling`)
and may look like a path (`Pathlike`).

**Commands.** One process does one thing: a behaviour is one of `AppAuth`, of
`Service`, of loading a file, or of a report, and `mode` says which. The four
share no state, so the run of the sum checks each in full.

## 3. The runs

Nine runs pass:

| Run | Bounds | States | What it shows |
|---|---|---|---|
| `engine` | 2 sources, 3 triggers, cooldown 2, peers | 98,817 | `ImplementsSyncLoop`: the promise of `SyncLoop`. `Coalescing`, `TriggersAnswered`: no trigger is forgotten. `HealthAgrees`: counters and status. `ShutdownCompletes`, `QuietAfterReturn`: the end |
| `watcher` | 3 directories (one nested), 2 files (one excluded), queue of 2, 3 watches for 4 directories, debounce 2 | 468,362 | `QuietBeforeTrigger`, `NoMissedChange`, `ChangesAnnounced` |
| `executor` | 2 callers, 2 crashes | 100,629 | `OneClient`, `CredentialsScoped`, `ImplementsSyncCall`, `RunReturns` |
| `daemon` | one file each way, debounce 1, cooldown 2, interval 2, one failure, edits from before the start, goroutines prompt or late | 280,724 | `NoEcho` of the prompt ones, `Converges` of all |
| `webhook` | 3 requests, 2 addresses, interval 2, handlers delayed up to 2, clock up to 4 | 857,440 | `Spacing`, `RefusedOnlyIfRecent` |
| `notifypush` | backoff 1 to 5, 3 outages, 2 messages | 17,030 | `BacksOff`, `Recovers` |
| `findings` | 9 paths in four directories (one unusable, one unreadable), 2 changes, caps of 1 and 2, `maxFindings` 2 | 452,225 | `CountsDistinct`, `NewestShown`, `NothingOverlooked` |
| `peers` | 2 daemons, one with a user, debounce 1, cooldown 2 | 60,304 | `NoPingPong`, `MeshSettles` |
| `commands` | login: validity 7, tick 1, timeout 2; service: 2 processes by hand, one of them another user's; 3 files, 3 messages and 3 lines of output; 2,000 configurations | 314,413 | `ApprovalPrinted`; `OneDaemon`, `ForeignUntouched`, `DisableConverges`, `TakesOver`; `BlamesCause`; `AcceptedRuns` |

Every module has one type invariant beside these. The small bounds are chosen
so that each limit is reached: three triggers fill the channel during a sync,
with one coalesced and one in the cooldown; a queue of two overflows and a
table of three is too small for the tree; two crashes make a third daemon; one
name and two copies fill the lists, and the scan's own cap is met by the names
(that copies meet it too is left to the proof); the walk descends into a
directory that changes meanwhile;
three requests suffice for one handler to overtake two others around a purge;
a backoff of 1 doubles twice and meets a maximum that is no power of two; seven
ticks leave room for an approval that is in time, one that is not and one in
between, with a request lost before each; three lines hold a failure that is
preceded and followed by something innocent, misleading or about no item.
Elapsed times saturate at the largest value any guard looks at, so no bound on
the clock hides a behaviour; only `Webhook` has an absolute clock, and 4 is
twice the interval. `MCWebhook` permutes addresses and requests, which nothing
distinguishes; the one temporal formula checked there is an action property.
The runs allow deadlock only where the program really may rest: a daemon that
nobody edits for, a mesh that has settled, a command that has ended.

Three runs end in a violation, each of a sentence in the documents:

| Run | Sentence | What the code does |
|---|---|---|
| `executor_tree` | DESIGN.md:415 "Kill process, log warning, continue" | a child that inherits stdout keeps `cmd.Run` waiting after the kill |
| `daemon_watch_only` | DESIGN.md:515 "Editing a file in the sync directory triggers a sync within debounce window." | an edit announced in the cooldown is dropped, and nothing announces it again unless the poller is on |
| `webhook_unknown` | webhook.go:204 "we still trigger a sync on any valid notification" | with `path_filter` set a notification without a path, such as every peer's, is filtered |

Other sentences the code departs from, which the models follow the code in:

* JOURNAL.md:137 "Partial coverage is better than crashing", while a directory
  that cannot be read aborts the initial walk and ends the watcher
  (watcher.go:214; `AbortWalk`, and `WatcherStarts` of `Findings`).
* DESIGN.md:403 and main.go:182, one instance only, while PrivateTmp=yes gives
  the process of a system unit a lock file of its own; `OneDaemon` excepts it.
* README.md:12, peers told of every sync, while they are told only of those the
  watcher asked for (engine.go:136).
* main.go:102 against main.go:177: `--init-enable` installs a service without a
  single event source, which the daemon then refuses ("unfit" in `Service`).
* main.go:185 "no stale-pidfile cleanup needed", while the lock file another
  user's daemon left in /tmp cannot be opened (main.go:187), so that a
  user-scope service stays down though nobody holds the lock; `TakesOver`
  assumes that this ends.
* failure.go:57, no "innocent file" blamed, while without the propagator's line
  a file that survived is, if its name or what was said of it holds a word such
  as "FatalError" (`Misleading`); and a status in a line about no item is a
  reason although no item failed, as failure_test.go wants it.
* failure.go:142, "400 Bad Request" and the like kept "out of the path field",
  while a message with a dot or a slash is taken for the path where the item's
  name has neither (`NamedBy`).
* failure.go:30, the detail is the whole line "when no error string was parsed",
  while it is empty if the propagator's line had none (failure.go:115).

More are listed among the hazards in `PROJECT.json`, at their lines: readiness
before the sources have started (engine.go:66), the sync in flight killed at
shutdown (executor.go:67), the rate limit under delayed handlers
(webhook.go:128), the reset of the backoff one wait late (client.go:75),
nothing re-established after an overflow (watcher.go:137), and findings that are
never withdrawn (watcher.go:107) or counted twice beyond `maxFindings`
(scan.go:133).

## 4. Fairness

* `Engine`: the engine's goroutine and each source's goroutine run when they
  can, the executor returns (what `RunReturns` shows of it, below), and time
  passes. No source owes a trigger, and nobody a cancellation.
* `Watcher`: the watcher's goroutine and the clock. Its select is not assumed
  fair: with an event and an expired timer both there it may take either.
* `Executor`: goroutines, timers, and the mutex, which Go hands to a waiter
  that has starved (strong fairness of `Lock`). Neither the client nor its
  children owe their end; `RunReturns` says so in its premise.
* `SyncDaemon`: goroutines, the ticker, `nextcloudcmd` working through its
  files. Users, the server and the push sources owe nothing, and failures are
  finite. Time passes even if pushes come forever (strong fairness of `Tick`:
  when goroutines are prompt, a push disables it for the moment in which it is
  discarded). `Converges` and `ChangesAnnounced` speak of runs in which users
  rest at last.
* `NotifyPush`: the client's goroutine, the clock, and a server that answers
  while it is up; outages are finite.
* `PeerMesh`: the same of each node; requests owe nothing, they may all be lost.
  `MeshSettles` speaks of runs in which users, failures and restarts rest.
* `AppAuth`: the command, the clock, and a request that is answered or fails
  (the client has a timeout). Neither the user nor the server owes anything.
* `Service`: systemd restarts what failed, and a process goes on to its lock.
  The tool and the administrator owe nothing.

`NoEcho` speaks of prompt goroutines: no unit of time passes while one has
something to do. Without this a watcher that is held up for a whole cooldown
reports a sync's writes after it, which no program could avoid. The run has the
cooldown longer than the debounce window, and the theorem assumes it;
`config.Validate` allows them equal, and there `NoEcho` does not hold. The same
is true of `NoPingPong`, its run and its theorem.

`TakesOver` has four premises: that the service is to run and its configuration
is fit, that no daemon started by hand runs, that the service is no longer
killed or rebooted, and that opening the lock file fails no more once the lock
is free. Without the last TLC finds the service restarted for ever on a file
that another user's daemon left behind.

## 5. The proofs

| Theorem | States | For every |
|---|---|---|
| `EngineTypeOK`, `EngineCoalescing`, `EngineHealthAgrees`, `EngineQuietAfterReturn` | the invariants of run `engine` | finite set of sources, cooldown, bound on triggers |
| `EngineImplementsSyncLoop` | the refinement of `SyncLoop` | the same |
| `WatcherTypeOK`, `WatcherQuietBeforeTrigger`, `WatcherNoMissedChange`, `WatcherAllWatched` | the invariants of run `watcher`; the last is not a property of the run, which it would slow down | tree of directories, size of queue and table, debounce window |
| `ExecutorTypeOK`, `ExecutorOneClient`, `ExecutorCredentialsScoped` | the invariants of run `executor` | set of callers, number of crashes |
| `ExecutorImplementsSyncCall` | the refinement of `SyncCall` by each caller | the same |
| `WebhookTypeOK`, `WebhookSpacing`, `WebhookRefusals` | all of run `webhook` | number of requests and addresses, rate limit, purge interval, delay |
| `DaemonTypeOK`, `DaemonNoEcho` | the safety of run `daemon` | files, cooldown (for `NoEcho` longer than the debounce window), interval, queue |
| `DaemonImplementsSyncLoop` | that the composition keeps `SyncLoop`'s promise, as `Engine` does | the same |
| `PushTypeOK`, `PushBacksOff`, `PushRests` | the safety of run `notifypush`; that nobody reconnects without having slept for the backoff | backoff interval and maximum, number of messages and outages |
| `FindingsTypes`, `FindingsCountsDistinct`, `FindingsNewestShown`, `FindingsNothingOverlooked` | all of run `findings` | tree, names and times in it, caps, `maxFindings`, number of changes |
| `MeshTypeOK`, `MeshNoPingPong` | the invariants of run `peers` | set of daemons, set of those with users, times (for `NoPingPong` a cooldown longer than the debounce window) |
| `CommandsTypeOK`, `CommandsOneDaemon`, `CommandsForeignUntouched`, `CommandsDisableConverges`, `CommandsBlamesCause`, `CommandsAcceptedRuns`, `CommandsApprovalKept` | the safety of run `commands`; the last is the safe half of `ApprovalPrinted`: who approves in time is let down only by a loss or an interruption, if the command ends | set of processes, configurations, files and messages, length of output, time limits |

The assumptions are the named `ASSUME`s of the modules: what `config.Validate`
guarantees (a positive debounce window, a cooldown no shorter, a backoff whose
maximum is no smaller, at least one source), that a tree has no cycle, that the
scan keeps at least what the endpoint shows (10000 against 50 and 10), that
`filepath.WalkDir` comes to each path once and to a directory before what is in
it, and that a configuration's fields have their Go types. No theorem assumes
fairness. Together they state every invariant and every action property of the
passing runs.

* *Engine.* `TypeOK` is inductive. `Coalescing` is inductive with it: only a
  step that empties the channel could break it, and that step answers or
  discards every duty. `HealthAgrees` needs nothing else. For the refinement,
  `idle`, the time since the executor returned, must agree with `since`, the
  time the code measures, wherever a guard reads it: `ClocksAgree`. For
  `QuietAfterReturn`, the WaitGroup's counter is the number of sources that
  are between `wg.Add` and `wg.Done` (`Active`, `DrainInv`), a statement about
  cardinalities: adding or removing one member changes them by one.
* *Watcher.* `DebounceInv` ties the timer to the quiet time. The hard
  part is `CoverInv`: every directory that exists is watched, or its creation
  is ahead in the queue, or a walk that will come to it is under way, or one of
  the directories above it is in that position. `TreeAssumption` gives the
  minimal uncovered directory from which `AllWatched` follows.
* *Executor.* `IInv` adds to the types `Scopes`, which says of each control
  point who holds the mutex, whether a netrc and a client may exist, and
  `Verdicts`, which says what `waitErr` and the context imply about the
  client's own exit, so that "ok" is returned only of exit code 0.
* *Webhook.* `Remembered`: the rate map has an address's last admission, or has
  let it go and then it is more than the interval past by the clock. A handler's
  time is at most the delay behind that clock (`Recent`), which is the delay in
  `Spacing`, and no admission is ahead of it, so a request is refused because of
  one later than itself by no more than the delay. `PurgeKeeps` carries both over a purge.
* *SyncDaemon.* `NoEchoInv` follows an echo along its way: in the queue while
  the sync runs or no time has passed since its end; in the debounce window,
  which and the rest add up to no more than the window's length; in the
  channel, while the rest is short of the cooldown.
  `DaemonImplementsSyncLoop` needs no invariant: whatever the watcher, the
  poller or a push does is `Put` or nothing to the engine, and time that passes
  for the debounce window or the ticker alone is a stutter.
* *NotifyPush.* `RestOK`: what was slept and what is left are the backoff.
  `WireOK`: a connection has one answer and what was told since on its way.
  `Grown` compares the backoff with the failures in a row: while the client
  tries, it is enough for one failure more, and once it has failed, for all
  there were. That 2^n doubles from n to n + 1 comes from counting the subsets
  of 1..n, of which there are 2^n (`PowersOfTwo`).
* *PeerMesh.* `EchoInv` is the argument of `NoEchoInv` for each node, in its
  smaller state.
* *Findings.* In a stable sort the place of an entry is a number (`Places`), no
  two entries have the same one, and a list of n entries fills n places
  (`Sorting`): so `NewestFirst` is a permutation that is in order, which is all
  the rest needs of it. Cutting such a list leaves nothing newer behind
  (`ShowsNewest`), and cutting it again after an entry was added does not
  either (`StaysNewest`), although the list no longer has what was cut before.
  For `CountsDistinct` the scan's list must name no path twice: what it has
  found is behind the walk, what is still to visit ahead of it. For
  `NothingOverlooked` each unusable name is, while the scan runs, found,
  missed, below a path that was found or may not be read, or still to come,
  itself or through a directory above it that is. That some directory above it
  is in the root, and so among what the walk starts with, is seen at the one
  the walk comes to first (`LeastNumber`, `Uppermost`).
* *Commands.* A step of `Commands` is one of its part or leaves that part
  alone, so each theorem is an induction over one part. `Locked`: a process
  that runs holds the lock of its directory. `Converging` says what each step
  of `Disable` has established when the next one begins. `TextInv` says where
  in the output the first failed line and the first with an error status are:
  the one is that of the item that failed first, the other is no later, and
  unless it is that one too it misleads or is about no item. `TextBlames` says
  what `parseFailure` then returns (`Reported`, `NamedPath`).
  `AcceptedRuns` follows from what `Defaults` does to each field
  (`DefaultFields`): a field it has set is not set again (`DefaultsTwice`), and
  those it leaves are what `Validate` looks at (`LeastAccepted`).
  `OnTheWay` follows an approval in time to its password: the request that just
  missed it is over, and the next tick there, within the longer of interval and
  timeout; the request then begun ends within one timeout; and until then the
  server still has the password (`CommandsApprovalKept`).

Checked by TLC only: all liveness, that is `ShutdownCompletes`,
`TriggersAnswered`, `ChangesAnnounced`, `RunReturns`, `Converges`, `Recovers`,
`MeshSettles`, `TakesOver` and `ApprovalPrinted`: each rests on fairness and on
when a step is enabled. Induction over an operator given as a parameter is out
of the provers' reach; where an argument needs induction it goes by a least
number that would fail, or by counting.

## 6. What is not modelled

* The watchdog's heartbeat, which depends on nothing but the process; `--test`;
  the health endpoint's HTTP server, which only reads.
* `--once` beside a running daemon in `Executor`: neither it nor `--test` takes
  the lock, and `OneClient` is about one daemon at a time.
* TMPDIR, which `os.TempDir` honours: processes started with different ones do
  not exclude each other. The removal of the lock file under a running daemon,
  which lets a second one in.
* YAML, the warning of `CheckPasswordFilePermissions`, and defaults that no
  property tells apart.
* Wording, JSON, logging, escaping. A path is an identity; `scan.Escape` is
  injective on the paths it is applied to.
* `pingLoop` of the notify_push client: a failed ping ends that goroutine and
  nothing else. A server that accepts a connection and is silent for ever.
* Packaging, the server's set-up script and the prototype: outside the running
  program.

## 7. What could come next

1. `Webhook` and `Findings` with abstract specifications of their own (a rate
   limiter; a set of known paths), shown to implement them.
2. `PeerMesh` with three daemons, where one learns of an edit from two others.
3. The safe half of more liveness properties, proved, as it is of
   `ApprovalPrinted`: that what they wait for is still on its way.
