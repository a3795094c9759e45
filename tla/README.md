# A verification project for PMEOW

PMEOW watches GPU nodes and schedules tasks on them. An agent in Python on every
node (`src/agent/pmeow`) keeps a queue of tasks, decides which of them fit on the
GPUs, launches them and sends a report every few seconds; a server in TypeScript
(`src/server`) stores the reports in SQLite, compares each with the one before,
raises alerts and tells browsers and phones (`src/apps`) about it.

This directory holds TLA+ modules translated from that code, TLC configurations
that check them on small instances, and proofs that TLAPS checks for every value
of the constants. `PROJECT.json` lists the components, the runs with their
properties, for every definition the source lines it stands for, for every
property a plausible mistake in the code that would break it, and the hazards of
the code that the properties are aimed at.

    tlc -workers 2 -config AgentMC.cfg AgentMC.tla    # one run
    tlapm AgentDaemonProofs.tla                       # the proofs of a module

Contents: 1 the system, 2 the modules and the code, 3 runs and bounds,
4 fairness, 5 disagreements, 6 proofs, 7 what is not modelled, 8 plan.

## 1. The system

### On the node

| part | state | operations | what must be right |
|---|---|---|---|
| task queue, `state/task_queue.py` | four collections of tasks, two buffers of observations, all in memory | submit, reserve, start, cancel, set_priority, push_completion, push_runtime, tick, to_snapshot | a task is in one collection, its status says which, and no end is forgotten before it was reported |
| daemon, `daemon/service.py` | the queue, attach deadlines, the last snapshot | the collection cycle (snapshot, tick, reclaim, schedule, launch, report) and the handlers of the socket and of the server's commands, all under one lock except where named below | no process without a record, no record without a process, true outcomes |
| runtime monitor, `daemon/runtime_monitor.py` | none | every second, look for vanished processes and overdue reservations | never to report a process that is there |
| executor, `executor/runner.py`, `attached.py` | child processes of the daemon | start, check_completed, cancel | every exit code is delivered once |
| foreground command line, `cli_foreground.py` | a process in the user's terminal | submit, poll until reserved, spawn, confirm, wait, finish | a child only while the task is accepted as running |
| scheduler, `queue/scheduler.py`, `history.py`, `collector/snapshot.py`, `gpu_attribution.py` | a window of samples per GPU | ledgers, admission, a greedy batch; reclaim of memory | no GPU is promised twice, no one is passed over for nothing |
| reporter and transport, `reporter.py`, `transport/client.py` | sequence number, connection | report, register, reconnect | an end reaches the server |
| supervisor, `daemon/supervisor.py` | a pid file, a socket file, the process | start, stop, restart, status | one daemon, that can be reached |
| socket server, logs, configuration, collectors | files, none | forwarding, appending, reading the operating system | - |

Hard here: three threads (cycle, monitor, socket handlers) and any number of
command lines interleave; the snapshot is taken without the lock; launches raise;
observations are buffered and applied later; nothing survives a restart.

### On the server

| part | state | operations | what must be right |
|---|---|---|---|
| sessions, `node/registry.ts`, `node/session.ts`, `runtime/src/realtime.ts` | one session per agent, in memory | register, report, disconnect, relay commands | a connected agent has a session, a command goes to the node it is for |
| task ingest, `ingest/pipeline.ts`, `task/*.ts`, `db/tasks.ts` | latest report per agent in memory, the table of tasks | diff, upsert, announce | the table is true, announcements come in order |
| scheduling history, `db/tasks.ts` | rows of two grains per task | upsert, trim, read across the cutoff | no gap where the grains meet |
| alert loop, `alert/*.ts`, `db/alerts.ts` | durations in memory, alerts and transitions in tables | detect, reconcile, sweep, silence, unsilence | alerts are raised and recover for a reason and everybody knows of them |
| security events, `security/*.ts`, `db/security-events.ts` | a table | detect, mark safe, reopen | one open event per finding, a complete audit |
| metric snapshots, `db/snapshots.ts`, `ingest/snapshot-scheduler.ts` | rows of two paces, the paces in memory | save, trim | bounded, nothing newer is lost |
| persons and bindings, `person/*.ts`, `db/person*.ts` | two tables | edit, wizard, auto-add, resolve, list | one owner per account, handed over on purpose only; everyone sees their own |
| table of servers, `db/servers.ts` | a table beside the sessions | create, update, delete | reports are filed under the node's own row |
| person tokens, `db/person-tokens.ts` | a table | create, rotate, revoke | a text is of the person it is shown for |
| settings and schema, `db/database.ts`, `db/settings.ts` | the database file | open, probe, set aside, save | no start loses what can be kept |

One Node.js process: handlers run to their end, so what interleaves is messages of
several sockets, timers and requests, and what interrupts is a crash between two
SQL statements that no transaction joins. Tables survive a restart, everything
else is lost.

### Frontends

| part | state | operations | what must be right |
|---|---|---|---|
| session of a tab, `web/src/store`, `transport/ws-adapter.ts` | token in localStorage, socket, what the pages are for | login by password or token, logout, restore | the tab is one identity |
| pages that follow events, five of `web/src/pages` and of `mobile/src/store` | a list, a filter, a version on display | load, event, reconnect, change of filter | current when nothing is under way |
| charts, history and snapshots of a node | points in a window, a range, a selection | report, seed, fetch | the points are the node's, of the range |
| alerts page, `Alerts.tsx` | a list, a selection over pages | load, select, silence, unsilence (a batch is always refused) | it acts upon what was selected |
| person wizard, person page, directory, settings page | a draft, a selection, a form | the steps, confirm, submit; load, rotate | what the user agreed to happens, and nothing else |
| mobile application, `mobile/src` | session, settings, rules, inbox | sign in and out, subscribe, receive | the phone remembers what it was told |
| Android guard, `PmeowGuardService.kt`, `PmeowGuardConfigStore.kt` | its own copy of the configuration, a socket | start, stop, restart by the system | it serves the session the user believes in |
| idle notices, `mobile/src/store/realtime.ts` | samples in a window, last notice | sample, notify | a notice is earned, once per cooldown |

### How the parts interact

    command line --socket--> daemon <---- monitor (observations)
                               |  \----- executor (completions)
                               | cycle: snapshot, tick, schedule, launch
                               v
                            report --Socket.IO--> session --> ingest pipeline
                               ^                                |  tasks, alerts,
                               +---- commands (cancel, ...) ----+  security events,
                                                                   snapshots
                                  frontends <-- events, answers ---+
                                      |  routes: persons, tokens, settings, commands
                                      +--------------------------> server

## 2. The modules and the code

| module | models | uses |
|---|---|---|
| `TaskLifecycle` | abstract: what becomes of one task | - |
| `TaskQueue` | `state/task_queue.py` as operators on a queue record | - |
| `AgentDaemon` | daemon, monitor, executor, foreground command line | `TaskQueue`; implements `TaskLifecycle` |
| `Supervisor` | pid file, socket and processes of start, stop and restart | - |
| `GpuAdmission` | snapshot, ledgers, admission, reclaim | - |
| `TaskReporting` | reporter, transport, sessions, task ingest | - |
| `AlertLifecycle` | abstract: what becomes of one alert | - |
| `AlertLoop` | detectors, engine, sweep, alert tables | implements `AlertLifecycle` |
| `SecurityEvents`, `Snapshots`, `ScheduleHistory` | one component of the server each, with its variables and operations | - |
| `ReportRecords` | the report handler that drives the three, with crashes in the middle | the three above |
| `People`, `PersonViews` | persons, bindings, wizard, auto-add; the queries over them | `People` |
| `Fleet` | the table of servers, sessions and commands of several nodes | - |
| `TaskWire` | the fields of a task from the agent to a page | - |
| `DatabaseStart` | the database file at a start, and the settings form | - |
| `LivePages`, `AlertsPage`, `NodeCharts`, `NodeHistory`, `GpuShares` | pages of the console and the application | - |
| `WebSession`, `PersonWizard`, `PersonPages` | identity, wizard, persons in the console | - |
| `MobileApp`, `IdleNotice`, `PhoneSettings` | application and guard, idle notices, what the phone stores | - |
| `AgentMC`, `AgentProgressMC`, `GpuAdmissionMC`, `ServerMC`, `BackendMC`, `ClientsMC`, `ConsoleMC` | what the runs check | those of a run |
| `*Proofs` | theorems, section 6 | what they are about |

Components that share no state are checked side by side: an MC module is their
independent sum, with a variable `part` that names the one machine that moves
while the others rest in one of their initial states. That is the same
exploration as one run for each, and the fairness of a machine is stated of the steps
of its part.

**TaskQueue.** A queue is a record: the four collections as sets, and per task the
status, end reason, reported flag, priority and the first pending observation of
either kind. Each method of the class is an operator from a queue to a queue, so a
handler that makes several calls under the lock is their composition and stays one
action. `Tick` returns a set because the age order in which the cap forgets ended
tasks is abstracted to any choice of the right size.

**AgentDaemon.** Variables: `q`, `tracked` (`TaskRunner._procs`), `child` (the
operating system's view of the process: alive, a zombie with its exit code,
reaped), `deadline` and `cli` (where the command line of a foreground task is).
One action per critical section: `SubmitBackground`, `SetTaskPriority`,
`CancelTask`, `CollectCycle` and `CollectCycleFails` (poll, tick, reserve, launch,
report; the second one ends at the launch that raises, before the report, as the
exception does in `collect_cycle`), `MonitorTick` (only pushes observations), and
the ten steps of the command line, among which `ConfirmForegroundLaunch`,
`FailForegroundLaunch` and `FinishForegroundTask` include the handler they call.
`CliDies`, `CliInterruptPolling` and `CliInterruptLaunched` are a killed terminal and
Ctrl-C; `ChildExits`, `ZombieCollected` and `DeadlinePasses` the environment. Which
queued tasks fit is left open: the cycle may launch any subset.

**Supervisor.** Commands of the user (start, stop, restart), each a process of its own
that reads and writes the pid file, forks, kills and waits; the daemons they make,
which bind the path of the socket. A process identifier is free again as soon as its
process has ended, and any program may then be given it.

**GpuAdmission.** What the cycle launches. `ReadRunning` and `ReadReserved` are the
two calls of `collect_snapshot`, without the lock; `CollectCycle` is the locked part:
history, `UpdateAutoReclaim`, `TrySchedule`, and the launches, of which one may raise
and drop the rest (`CarryUntilFailure`). `Managed`, `Owned`, `Free`,
`EligibleShared`, `EligibleExclusive` and `Best` are the ledgers and tests of the
scheduler in hundredths of a MB, so that the factors 0.98 and 1.05 are exact. The
batch is a fold over the queue in priority order: `Hindmost` is considered last.

**TaskReporting.** A node whose tasks have the states that reports show, a channel of
messages per connection, and the server's sessions, latest report, table and
announcements. A report built without a connection is gone; `Drop` loses any suffix
of what is under way; `SocketDisconnect` may be noticed late; a registration gets a
session; `ReceiveReport` ignores a report without one and is otherwise the diff, the
upserts and the announcements; `CrashWhileProcessing` stops among the upserts, the
missing tasks last, as the engine's order has it.

**Fleet.** Several nodes with distinct agent ids, and an administrator who edits and
deletes rows of the table of servers while sessions live. A command goes to the first
session that bears the id of the server its task is filed under. After `updateServer`
a live session keeps filing under the old row until it reconnects.

**TaskWire.** What `to_task_info` and `_serialize` on the node, `parseUnifiedReport`, the
table, the ways to a client (an event, a list, a person's list, one task) and the pages of one
task (`TaskDetail`, `PersonTaskDetail`) make of a task's fields: every step has its own form of
"nothing", a missing key, null, an empty map, an empty column. The scheduler's evaluations go the
same way, half as numbers and half as a text (`Entry`, `DetailOf`), and `ScheduleHistoryCard` puts them
together again. The scheduler gives out one set of eligible cards as both eligible now and
eligible throughout the window, so an evaluation has one (`Evaluation`). The amount a reclaim leaves is named by the peak it was computed from. `_serialize` also renames
keys inside `gpuSnapshot`, so that the lookup at `TaskDetail.tsx:166` falls back to
`requireVramMb`; one task without `vramMode` has the whole report refused.

**AlertLoop.** `ProcessReport` computes the states of the metrics (`SinceBreach`,
`NowActive`) and of idle processes (`NowTracked`, `NowIdle`), then reconciles
and broadcasts; `SweepOffline` is the timer; `SilenceAlert`, `UnsilenceAlert` are the
routes, `CrashWhileSetting` a death between their two statements. A value is only above or
below its threshold; a metric of `Sometimes` may be missing from a report. `lasting` is a
history variable that remembers since when the reports have shown a cause without a
break: the properties compare the alert with it, not with the detector's own state.

**ReportRecords.** The steps of `processReport` other than tasks and alerts, in their
order, on `SecurityEvents` (an append-only table whose rows refer to each other),
`Snapshots` (rows with id, tier, timestamp; trimming keeps any rows of the latest
timestamps that the ORDER BY may pick) and `ScheduleHistory` (buckets by floor
division). `DieInReport` has the three places where the handler can be cut off
with something half written. The agent's clock is behind the server's by a
constant.

**People, PersonViews.** Each route is one action and one transaction: `PostBinding`,
`PutBinding`, `CreatePerson`, `UpdatePerson`, `createPersonFromWizard`, `AutoAdd`. A
binding's interval is reduced to where the present is (`Window`), and `Pass` moves it.
`Clashes` is the unique index over enabled bindings, which raises; `getActiveBinding` is
what the checks before it look for. `answer` is a history variable: the last call and
how it ended. `PersonViews` adds the directory, the task list of a person and its pages
as the queries compute them from the same tables.

**DatabaseStart.** Opening the file, probing two of its tables, setting the file and
its companions aside by three renames, creating the schema; and the form of the
settings page, which loads every setting and saves all of them. `dbPast` is history.
A crash between two renames may tear the set-aside files apart, and one between
creating `person_bindings` and its index makes the next start set the file aside; a
probe that fails for another reason moves a good file.

**LivePages.** Five pages (the store's statuses and reports, the servers, the tasks, the
alerts, the overview of the application) that load by request and follow events, with
the socket up or down, timers, filters and answers in any order; what each page does
with an answer that is late is read off its code, not assumed alike.

**AlertsPage.** A list by tab and page, a selection kept over pages, single actions
and batches, and the routes they call (`ServeAct`): the paths of the batches are also paths of
one alert with the id "batch", whose routes come first, so that a batch fails whatever it asks and
only an action on one row comes to `ActDone`. `behindhand`, `late` and `under` are history.
Silencing tells nobody else (`Unannounced`).

**NodeCharts, NodeHistory, GpuShares.** The live charts of a node (`NodeCharts`), which are
seeded by an answer and extended by the latest report: that of the socket (`LiveReport`) or that
of an answer with the latest report of every node (`OverviewServed`, `OverviewArrives`: the web
console asks once, the application at every refresh), which may be older than what is drawn and is
put behind it all the same; the history and snapshot tabs with ranges,
presets and a selection (`NodeHistory`); the shares of a card's memory by owner, and
their colours by a hash into a palette (`GpuShares`).

**WebSession.** One tab: the stored token, the call under way, the socket, what the
pages are for, and other tabs as writes to localStorage; tokens that are revoked and a server that
restarts with a new secret (no `JWT_SECRET` configured). A refused socket is not retried.

**PersonWizard, PersonPages.** The wizard's steps beside changes by others; the
directory and the page of a person, with the tokens whose texts are shown once.
`PersonPages` stops once a behaviour has left the page in a state for which it
claims nothing more (`spoiled`).

**MobileApp.** The application and the guard service as two processes: intents on
their way, the service killed and restarted by the system with what it stored. Showing a notice
asks for the permission (`EventArrives`), and the store keeps the answer (`NoticeAnswered`) without
telling the guard; a start that cannot read the storage goes on with the defaults (`HydrateReadFails`).
**IdleNotice**: samples of a GPU within a window, notices and their cooldown. The answer to a refresh
has the report of the moment it was given (`MetricsServed`) and starts the samples anew from it when it
arrives (`primeRealtimeState`), whatever the socket has brought since.
**PhoneSettings**: subscriptions, rules with numbers typed as decimal hundredths,
and the inbox with its limit; writes to AsyncStorage are assumed to land in order. Each may fail, and
so may the reading at a start (`RestartUnread`): the store then has the defaults and an empty inbox,
and the next change of either overwrites what is stored.

## 3. Runs and bounds

| run | states | what it asks |
|---|---|---|
| `agent_safety` | 643,000 | two background tasks and a foreground task in every interleaving; two commands of the supervisor and two pids; the page of alerts with two alerts; shares of a card |
| `agent_liveness` | 10,700 | one task of each kind: reservations are given back, ends are noticed and reported; three requests at the edge of the possible are admitted |
| `server` | 406,000 | alerts of one metric of each kind, a process and the offline alert; one task over three connections, restarts and crashes on both sides; the database file and the settings form; the fields of a task |
| `backend` | 809,000 | a shared, an exclusive and a two-GPU task; one finding, two paces and a history; two persons and three bindings; two nodes and the table of servers |
| `clients` | 1,760,000 | the application with its guard, idle notices, what the phone stores |
| `console` | 2,254,000 | five pages that follow events, the wizard, the session of a tab, charts, the past of a node, the page of a person |
| `late_attach_timeout`, `reservation_stuck`, `gpu_torn_overcommit`, `reporting_session`, `idle_cooldown`, `task_list_history` | - | violations, section 5 |

Deadlock is checked except in `console`, where the wizard stops when its page is left,
and in `task_list_history`, which stops at its end. `agent_safety` takes alerts as
symmetric: they start in any order and no definition names one. `backend` has a view that
leaves out the history variable `answer` of `People`: no guard reads it, so that states that
differ in it only have the same steps, and the action properties look at every step.

**Agent.** `QueueConsistent`: collections, statuses and reasons agree.
`BackgroundProcessOwned`: the runner tracks exactly the running background tasks and
no monitor observation ever concerns them. `ForegroundProcessKnown`: a foreground task
runs only when confirmed, and a failed launch leaves no process. `EndIsTrue`: no race
replaces an exit code. `NoSilentForgetting`, and `LifecycleSpec`, the refinement of
`TaskLifecycle`; with fairness `ForegroundReservationResolved` and `EndBecomesKnown` (the
exit is noticed, the end is in a report). Three tasks are the two kinds plus a second one
that shares the batch and the tick; the operations are pointwise per task except for the
launch that raises, the cap and the queue order. `MaxTerminal` is 64 in the code; the
safety run has 2, so that the cap is reached.

**Supervisor.** `DaemonIsReachable`: a daemon that a start has left behind is the one in the
pid file, unless two commands overlapped, and one that serves holds the path of the socket,
unless a second one was made beside it. Two pids and two commands are the fewest
with a pid that is used again under a command's eyes.

**GPU.** Two GPUs of 10,000 MB. `PromisesCanBeKept`: the sum promised on a GPU stays under
98 percent (`CapacityRespected`) and nobody shares an exclusive GPU (`ExclusiveAlone`).
`NoOvertaking`: a task passed over in a batch would not have fit without the later ones
either. `AcceptedEventuallyRuns`: what validation accepts is admitted in the end, at exactly
the capacity too. The need table of the backend lets two tasks fit and not three, the one
of the liveness run lets one task fill a GPU. Memory of 1.8 GB or less is excluded: there a
reclaimed reservation (peak plus 512 MB, for a peak under 70 percent) may exceed 98 percent
of a GPU. `MaxSamples` 2 is one old sample and the present one: the window is only ever
asked whether some sample, or the largest, blocks. Shared tasks of 0 MB are excluded from
the passing runs (section 5), and so are foreground tasks, as the torn snapshot shows.

**Reporting.** `TableIsTrue`; `AnnouncementsAgree`: in order, and the table is what was
announced, without a restart of the server; `TerminalStays`; `EndReachesTheTable`: an end is
seen, and the outcome arrives. Tasks do not influence each other in the diff, the table or
the queue; an instance with two tasks and two connections (904,000 states) shows no error
either. Three connections are the shortest history in which an end is lost on one
connection, a report on a second and the third is for recovery; the last connection is not
lost, which the liveness properties need. Two messages under way suffice to have a
registration before a report, or two reports. `announced` counts to 2: no property tells
two from three. `Overlap = FALSE`: the server has noticed the end of a connection before the
next one opens (section 5 for what happens otherwise).

**Alerts.** `RaisedAfterDuration`, `RecoveryHasCause`, `ActiveIsKnown`, `LifecycleSpec`,
`TroubleIsAlerted` (a lasting breach, a silent agent). Durations of 2 and 1 steps: one step
within the window, one at its end. Ages saturate where the code no longer tells them apart.
Metrics do not influence each other; the two kinds differ in what a report may leave out.
`Touched` names the alerts that users silence, `MaxRestarts` the restarts.

**Database and settings.** `DatabaseIsKept`: whatever is committed is in the file the server
uses or whole beside it, but for a crash between the renames (`dbPast`). `SaveKeepsTheRest`:
a save changes what the user changed, unless the page says that it could not load. Two
settings, two values, two saves and two kills; `MaxMoves` bounds the probes that fail for no
reason of the file's.

**Records.** `EventsAreSound`: however often a finding is reported, marked and reopened, one
open event stands for it and the audit rows tell its history. `RetentionIsRight`: at most one
recent row too many per crash, archived rows and the newest recent one are never lost, and
fine and coarse rows of the scheduling history meet without a gap. `MaxEvents` 4 allows found,
marked safe, found again, marked safe or reopened, the shortest histories with two events of a
finding; `MaxTime` 5 passes the window (2), an archive bucket (3) and the next one.

**Persons.** `BindingsAreChosen`: an account is handed over only where a user asked for it, the
wizard is whole or nothing, auto-add leaves the bound ones alone. `ViewsAgree`: the directory
tells what the list holds, everybody's list is their own, pages are whole. Two persons
are an owner and a successor, three bindings an old and a new one of an account and one of
another. The table is a set: two rows with the same content count as one, and making
one of them different is the same as adding it. Only `Chosen` accounts are entered by
hand, so root is bound by nobody, as the property about it needs an unbound one. Five task
rows over three accounts and pages of 2 or 3 have a full page, a short one and an empty one.

**Fleet and wire.** `CommandsReachTheirNode`: a command for a task is done by the node that
runs it, or by none, but for what an administrator did to its row, and every session is that of a
connection that has registered, filed under its node's row until the row is given away. Two nodes and one task
suffice for a command that could go astray. `TaskIsShownAsReported`: what the two pages show of a
task is what the node reported, in every form of "nothing", and the card of an evaluation names the
cards as the scheduler saw them. Two devices have a card that was chosen beside one that was
not; two amounts, one of them 0, tell null, 0 and a number apart.

**Clients.** `SessionIsServed`: the application shows one account, and the guard, once it has
taken its intents, serves it (`OneAccount`, `NoticesFollowSession`); two accounts, two intents
on their way: more block the calls that would send them. Where the permission is first given at a
notice, the guard was left behind (`astray`) and posts nothing in the background until the next session.
`IdleNoticeIsEarned`: a notice
tells of GPUs that have been idle through the window and of a machine that was left since the
last one, unless an answer that the busy report had overtaken made the phone forget it (`forgotten`).
The notices are checked twice: two servers of which the phone gets all reports and answers at
once, and one server whose reports may be missed, with two answers on their way (`MaxAnswers`): an
older one that arrives behind a newer one. Servers and accounts are symmetric. The code asks for a sample that is exactly as old as the window, so that the rule
of an hour, longer than what is kept, never fires. Two servers make the cooldown matter.
`PhoneRemembers`: what is stored is what the store has once the writes are done, but for a start that
could not read; numbers typed
160, 1,234, 20,000 and nonsense pass every branch of the parser; `MaxSteps` 3.

**Console.** `PageIsCurrent`, `SessionIsOne`, `ChartsAreWhole` (cards on the web only: the
application replaces them by the answer), `PastIsWhatWasAsked`,
`WizardDoesWhatWasAgreed`, `PersonPageIsTrue` (rows stay one's own, texts of tokens are theirs, the
page shows its person), and with the agent, whose run has room for them, `SharesAddUp` and
`AlertsPageIsTrue` (the selection is of the tab, the list is current). The charts are checked
twice: the web console without answers that bring the latest reports (part `charts`), and both clients with
them, but without a request for an earlier node on its way (part `latest`). Three reports of one
node and a window of three are the fewest in which one is overtaken beside one that was lost; two answers
(`MaxOverviews`) may arrive in the wrong order. Each claims something when nothing is under way any more, except after
causes that the definition names and a history variable records: these are the places where
the code is known not to be current. Two of everything that can be confused (filters, accounts, nodes,
persons, keys, alerts), two or three of what can overtake (requests, versions, loads). All
owners of a card hash alike, the hardest case for the palette.

What the type invariants say is proved rather than run (section 6); `QueueConsistent` and the
others imply the part of it that matters.

## 4. Fairness

Liveness is stated under what the code schedules and nothing else. The collection cycle
and the monitor are loops in threads that catch what an iteration raises; time passes
deadlines; a command line that is neither interrupted nor killed makes its next call;
the system collects orphans. No fairness makes anybody submit, cancel or exit in
`AgentDaemon`. `GpuAdmission` also assumes that running tasks end and that reservations
of foreground tasks are resolved, which `AgentDaemon` shows
(`ForegroundReservationResolved`): an agent whose GPUs are never freed owes nobody
anything. In `TaskReporting` the client reconnects for ever (Socket.IO's default), pings
make both sides notice a dead connection, and TCP delivers on a connection that lasts. In
`AlertLoop` time passes and the server's interval timer fires; reports are an assumption of the
one property that needs them, not fairness. In a sum of machines every fairness condition is of
the steps of its own part.

## 5. Where the code and its documentation disagree

Six are runs; each violates one property that quotes the documentation.

1. `late_attach_timeout`: a buffered attach timeout is applied to a task that was confirmed in
   the meantime and ends it while it runs.
2. `reservation_stuck`: a launch that raises leaves its background task reserved for ever,
   with its memory.
3. `gpu_torn_overcommit`: a foreground task confirmed between the two reads of the snapshot is in
   neither, and its memory is given away for one cycle.
4. `reporting_session`: the late end of an old socket detaches the session of the new one.
5. `idle_cooldown`: every refresh of the overview forgets when the last notice was shown.
6. `task_list_history`: `map` hands the index to `toApiTask` as a second argument, and the tasks
   of a list have 0, 1, 2 for their history.

Met while modelling, each reproducible by changing a constant or read off the module, without a run:

- `GpuAdmission` with `Need = <<0, 0>>`, `Exclusive = {2}`: a shared task of 0 MB leaves no trace in
  the pending ledger, and an exclusive task is put on its GPU in the same batch; `--vram 0`
  is not the exclusive request that agent-nodes.md:247 describes. The greedy batch can
  starve a task of several GPUs.
- `TaskReporting` with `Overlap = TRUE` violates `TerminalStays`: a late report of the old connection
  takes an ended task back to running, which 任务事件模型.md:30 rules out. The sequence number of
  a report is not looked at.
- A cancellation of an ended task is accepted and rewrites its outcome.
- After a restart of the server the first report is compared with nothing: active tasks are
  announced as submitted again, and an end that was lost just before is never seen.
- The hysteresis of 5 percent for CPU in 告警事件处理.md:59 is not in `detectCpuThreshold`.
- The offline sweep resolves all other active alerts of the silent node, and looks only at
  agents that still have a session; `web-console.md:172` describes a detection of high GPU
  use that `security/analyzer.ts` does not have.
- The wizard and auto-add fail as a whole on an account with a binding that is enabled but
  out of its window; people-and-access.md:92 lists failures per account, and :112 describes tabs
  that do not exist.
- The scheduling history may show an evaluation twice, once per grain, and an agent clock that
  is ahead of the server's opens a gap (`Behinds` is therefore not negative). An agent clock
  that is set back would have trimming drop the newest snapshot.
- The page number of the task browser is not clamped, and an offset beyond the end of the
  alerts shows no pager to come back by.
- The directory's loop over persons goes on after its page was left, and the tokens it makes
  are never shown; a load of tokens that failed looks like none; rotating a revoked token makes a
  valid one.
- The settings page shows the defaults when its load failed, and saving then stores them. Its
  field for the password only logs in.
- On the phone settings, rules and inbox survive signing out; unsubscribing forgets the custom
  rule; the rule of a machine that is no longer visible can not be removed; the check of a GPU count
  looks at the number before it is rounded.
- The server refuses every batch of the alerts page: `POST /alerts/batch/silence` is matched by
  `/alerts/:id/silence` (`alert-routes.ts:26`, registered before `:38`) and looks for an alert whose id is
  no number. The page does nothing and keeps the selection.
- An answer with the latest reports that comes late puts an older report behind newer ones in the
  charts of a node, and a chart goes back in time there.
- An answer to a refresh that a report has overtaken makes the phone forget that a GPU was busy, and a
  notice about it may come too early.
- The permission that is given when a notice is first shown is not told to the guard service, which posts
  nothing in the background until the next start, sign-in or change of a setting.
- A start of the application that cannot read its storage shows the defaults, and the next change stores
  them over what was there.
- A browser that goes from one node to another in its history mixes the first node's late answer
  into the charts of the second.

## 6. Proofs

Thirty-seven theorems in eight modules. Each holds for every value of the constants; the runs of
section 3 show the same formulas on small instances, and the inductive invariants went
through TLC before they were proved.

| theorem | module | says |
|---|---|---|
| `TypeCorrect`, `QueueAlwaysConsistent` | `AgentDaemonProofs` | `TypeOK`, `QueueConsistent` |
| `BackgroundAlwaysOwned`, `ForegroundAlwaysKnown` | `AgentDaemonProofs` | `BackgroundProcessOwned`, `ForegroundProcessKnown` |
| `EndsAreTrue`, `EndsAreKeptForTheReport` | `AgentDaemonProofs` | `EndIsTrue`, `NoSilentForgetting` |
| `AgentImplementsLifecycle` | `AgentDaemonProofs` | `LifecycleSpec` of the daemon |
| `DaemonAlwaysReachable` | `AgentDaemonProofs` | `DaemonIsReachable` |
| `AlertTypeCorrect`, `ActiveAlwaysKnown` | `ServerProofs` | `TypeOK`, `ActiveIsKnown` |
| `NeverRaisedEarly`, `RecoveriesHaveCauses` | `ServerProofs` | `RaisedAfterDuration`, `RecoveryHasCause` |
| `ImplementsLifecycle` | `ServerProofs` | `LifecycleSpec` of the alerts |
| `TableAlwaysTrue`, `EndsAlwaysStay`, `AnnouncementsAlwaysAgree` | `ServerProofs` | `TableIsTrue`, `TerminalStays`, `AnnouncementsAgree` |
| `DatabaseAlwaysKept`, `SavesAlwaysKeepTheRest` | `ServerProofs` | `DatabaseIsKept`, `SaveKeepsTheRest` |
| `PromisesAreKept`, `NobodyIsOvertaken` | `BackendProofs` | `PromisesCanBeKept`, `NoOvertaking` |
| `SharesAlwaysAddUp` | `BackendProofs` | `SharesAddUp` |
| `SessionAlwaysOne` | `ConsoleProofs` | `SessionIsOne` |
| `WizardAlwaysDoesWhatWasAgreed` | `ConsoleProofs` | `WizardDoesWhatWasAgreed` |
| `PagesAlwaysCurrent` | `ConsoleProofs` | `PageIsCurrent` |
| `PastAlwaysAsAsked`, `AlertsAlwaysTrue` | `ConsoleProofs` | `PastIsWhatWasAsked`, `AlertsPageIsTrue` |
| `PersonPagesAlwaysTrue` | `ConsoleProofs` | `PersonPageIsTrue` |
| `SessionAlwaysServed`, `NoticesAreEarned` | `ClientsProofs` | `SessionIsServed`, `IdleNoticeIsEarned` |
| `PhoneAlwaysRemembers` | `ClientsProofs` | `PhoneRemembers` |
| `BindingsAlwaysChosen`, `CommandsAlwaysReachTheirNode` | `RegistryProofs` | `BindingsAreChosen`, `CommandsReachTheirNode` |
| `ViewsAlwaysAgree` | `RegistryProofs` | `ViewsAgree` |
| `EventsAlwaysSound`, `RetentionAlwaysRight` | `RecordsProofs` | `EventsAreSound`, `RetentionIsRight` |
| `TasksAlwaysShownAsReported`, `ChartsAlwaysWhole` | `RecordsProofs` | `TaskIsShownAsReported`, `ChartsAreWhole` |

**The queue.** The first part of `AgentDaemonProofs` shows that each operation takes a
well-formed queue (of the right type, collections and statuses in agreement, no pending
completion) to a well-formed one. `tick()` is the exception that makes the statement longer:
it is called with the completions still in their buffer, so its lemma (`TickWellFormed`) only
asks for the type and the agreement. `TickFacts` says what a tick does to each collection and
each end reason, and is what every later argument about a tick cites.

**The daemon.** Types alone are not inductive, because the handlers guard with the
collections (a task is confirmed if it is among the reserved ones), and a queue whose
collections disagree with the statuses would be led out of its types. `Sound`, the
conjunction of `TypeOK` and `QueueConsistent`, is. `QueueStep` goes through the actions one by
one for the queue, `ProcessesStep` for the processes and command lines.

**Ownership.** `BackgroundProcessOwned` is inductive with `Sound` and with one more fact, that a
background reservation has no deadline (`Owned`): otherwise the monitor could write off as
overdue a task the daemon has launched. The steps that matter are the cycle (`CycleOwned`:
among the background tasks, those a tick ends are exactly those whose exit was just polled,
and they leave the runner's table in the same critical section) and the exit of a child
(a tracked child stays a zombie, so the monitor does not see it gone). For foreground tasks
`ForegroundFollowed` relates the step of the command line to the process and to what the monitor
has put down: a process is seen gone only after its command line has, or is about to report it.

**The lifecycle of a task.** `Moved` spells out the abstract moves, `TickMoves`, `CancelMoves`,
`SubmitMoves` and the lemmas on phases show that each operation moves every task along them, and
`CycleMoves` composes the tick with the launches: they start from tasks that are queued after
the tick and so were queued before it. The two action properties, `EndIsTrue` and
`NoSilentForgetting`, come from the same classification of what a step does to one task.

**The supervisor.** `OneDetached`: a forked child is alone when no command is at work, and a command
that kills or waits has the pid of the only daemon; `OneServes`: without a second daemon the one that
serves holds the path. Assumed: pids are finitely many.

**The alerts.** `ActiveIsKnown` and the lifecycle follow from the types and the case
distinction of `reconcileAlerts`. For `RaisedAfterDuration` the invariant is `Aged`: the age the
detectors have for a cause is never above the age the reports give it, and a metric is
active only if its window was full when it became so; both survive silence in the reports,
the sweep, restarts and the saturation of the counters. `RecoveryHasCause` needs the converse,
`Remembered`: what the detectors have forgotten, the reports or a restart have ended.

**The promises.** A batch is a fold over the queue and a ledger a sum, so `FoldLemmas`, a
module of lemmas alone, says what folds and sums over finite sets are (`FoldExists`, `SumOf`, `SumGrows`), what ranks in a strict order are, and
that a finite set has a largest element. `ScheduleKeeps` is an induction over the fold: what a batch has promised of a card (`Keeps`) is under
98 percent of it with what was there, and a card that is given away whole was free of both. Of the
states, `SeenWereLaunched`, `DecidedHaveRun` and `NothingMissed` say that the view of the cycle has every task
that holds memory and counts none that never ran. Assumed, and each is needed, as sections 3 and 5
show: every task asks for memory (`EveryoneAsks`), cards have 1.8 GB (`LargeCards`), and no task is confirmed
between the two reads (`TornRead`). Foreground tasks are not excluded, as they are from the run.

**The queue's order.** `NobodyIsOvertaken` assumes nothing. `FairBatch` is the second induction over the fold:
a task that was considered and not decided has too few cards with room beside those decided before it,
and `RoomIsEligible` shows that a card with room would have been eligible, with the ledgers as they
were at that point of the batch (`Balanced`).

**The shares of a card.** Only the types of the rows (`CardOK`) are needed of a state. What the managed
owners have reserved is all that is reserved (`ReservedAddsUp`, by `SumByKey` a sum taken key by key); as
the quotients are exact, the megabytes that are left are at most the owners with a remainder (`LeftIs`).
The order in which they get one is strict, so that the first of them are as many as there are
megabytes (`EarlierOrders`, `FirstRanks`), and none has remainder zero. The colours are an induction over the
fold of the alphabet (`ColoringsUnfold`, `ColoredKeeps`). Assumed: a hash is a place of the palette, and no key
has two places in the alphabet.

**Reporting.** Under `~Overlap`: the theorems assume that the server notices the end of a
connection before the next one opens. With `Overlap = TRUE` TLC finds `TerminalStays` violated, and the code
permits it, so that the hypothesis is the exact condition. What is under way is ordered: `NotEnded`
and `InOrder` say that every message is older than the node's state and newer than the
table, `LatestIsAnnounced` that the table and the announcements have the last report taken.

**The database.** `FilesInv`: the process reads what was saved (`ReadsSaved`), the main file is there
whenever its log is (`MainIsThere`), a move takes what was saved and takes it whole
(`MovesWhatWasSaved`, `MovedIsWhole`), and nothing is set aside without a cause
(`ObsoleteForACause`). `FormInv`: whatever the page would overwrite counts as the page's own.
Assumed: the default is a value.

**The session of a tab.** `TabFits`: each call under way belongs to one view, and a socket was made with
the token that the pages are shown for and accepted for its owner. Nothing is assumed.

**The wizard.** `ListedIsKnown` (what the page was told holds but for what has moved since),
`ConfirmedIsShown` (a confirmation is for the conflicts of the selection as it is),
`RequestIsAgreed`, `CreatedOnce`. Assumed: `nil` is not an owner or an account.

**Pages.** The argument is the same five times: what a page does not show yet is on its way. For
`LivePages` as an event that is newer than all before it (`WireIsNewest`), as the one request that
still counts (`LiveIsChosen`) or as a timer (`OnItsWay`). For the past of a node every answer has
rows that were taken of its node, and what has come since is newer (`Seen`); the request for the
range and the list of the moment is under way, was answered or has failed (`NewestIsForThePage`). For
the alerts every answer that is not late is the server's list of the moment (`AnswersAreCurrent`),
and a list that is out of date will be loaded or is known to be (`LoadIsComing`). Assumed: numbers
are natural numbers.

**The page of a person.** `Own`: rows and texts are those of the person on display, unless the form
was left standing for another (`spoiled`). `Follows`: a page that is not known to be out of date will be
filled by a load on its way, or shows its person as the replies on their way will make it
(`AsPromised`): a token that the list lacks or shows as active is one that a reply will add or mark.
Assumed: the names of the pages are no persons.

**The guard and its notices.** `Guarded` says, at every step of every call, whose the connection
is, and what the service will do once it has taken its intents (`Coming`): that is what it was last
told (`Target`), although a start that a dying service takes is lost (`Swallowed`). `Known` says what the store knows of the
permission: never more than the system has granted and, where the guard was told, no less, which is what a
notice that asks for it breaks and `astray` records. For a notice about idle GPUs,
`BusyIsTraced`: after a busy report, too few GPUs are without a trace of it in their samples, unless an
older answer has taken their place; `LatestIsNewest`: no sample and no answer is newer than the
report the backend has. Assumed:
`none` is not an account; GPUs are finitely many, times natural numbers.

**What a phone remembers.** `WillBeStored`: the last write of a key that waits has what the store has,
and if none waits or has failed a start would read it, but for a key that could not be read and was not written since (`unread`). It needs that reading is idempotent: a rule
within its bounds and its steps (`SoundRule`), and a list of notices that is short enough, are read as
they were stored. Assumed: `junk` is not a value of any type that is stored, `none` is no machine.

**Persons and nodes.** `PeopleOK`: an account has at most one enabled binding. With it the owner of an
account is one person (`OwnerIs`), and `CreateBindingKeeps`, `DeactivateKeeps` and their two loops
(`BindAllKeeps`, `AutoAddAllKeeps`, inductions over the accounts that were handled) say of each operation
whose accounts it touches; the lists of `ViewsAlwaysAgree` follow from it, for one account and one
person at a time. The place of a task in a list is its rank (`ListIsSorted`), and every place is on one page
(`PagesAre`, `PageIs`). `FleetInv` ties the registry of sessions to the wires and to the table of servers:
the session of a server that was not taken over is the last that registered for it, and its wire knows
it. Assumed: accounts and tasks are finitely many; `gone` is no agent.

**Records.** `SoundTable` adds to the property that a decision is about an earlier event that is no decision
(`Aimed`); the loop over the findings of a report is an induction over them (`SecurityCheckKeeps`). For
retention `RecordsOK` bounds the snapshots and says in which rows of the history the last evaluation is
(`Told`): in a coarse one, and in a fine one unless that is too old. `RetentionAlwaysRight` assumes
that the agent's clock is not ahead of the server's, as the run does (`Behinds` are natural numbers).
`WireOK` follows a task through report, table and page: whatever a conversion leaves out is read as what
it was. For the card of an evaluation, `CardsDiffer` and the lemmas after it take the selected,
the eligible and the remaining cards one by one. Assumed: null is none of the values passed on.

**Charts.** `PageFits`: a curve has one point for a time, and a point that is overtaken by an earlier
one was lost by the socket, was overtaken (as a report of a late answer is, and one that was on its way when an
answer brought a newer one) or is still on its way (`Fine`), where it will be put behind the others.
The attempt to prove it showed that an earlier `ChartsAreWhole` was too strong: when the socket has lost a
report that an answer brings, the report that was taken before the loss may stand behind it. With
three reports and a window of three TLC finds that too, hence those bounds and `lost`.

Induction over data is used where the theorems about the library allow it: `SmallestExists` makes
the smallest counterexample available for a formula that is written out, and so stands in for
the induction theorems, whose parameter is a predicate.

Every safety and action property of the passing runs is a theorem. Model-checked only are the
liveness properties (`ForegroundReservationResolved`, `EndBecomesKnown`, `AcceptedEventuallyRuns`,
`TroubleIsAlerted`, `EndReachesTheTable`), as the prover does not reason about fairness or `ENABLED`, and
what the violation runs show. The prover does not expand `SortSeq`, `SelectSeq` and `FlattenSeq`: the order of
the remainders and that of a list are stated by ranks, the pages by their entries.

## 7. What is not modelled

- The agent's log files and their failures, installation, collectors: they append or read. A failed
  log write inside the loop over completions would lose exit codes, and two nodes with one
  agent id would share a session.
- Reuse of process ids by tasks. The monitor compares the creation time that was read when the task
  started with that of the process (`runtime_monitor.py:105-111`), so that another process with the id does
  not count; only where no creation time could be read (`task_queue.py:264-266`) does it go by the id
  alone, and a vanished process whose id is taken again looks alive. Neither is in `AgentDaemon`, in
  which a vanished process is seen to be gone.
- How long the lock is held; the age order of the cap; CPU time, wording, layout.
- The timeline of a person's GPU use (`getPersonTimeline` may count points twice), the legend of the
  GPU overview, `aggregateOwnerGroups`, which colours an owner as on its first card.
- In `AlertsPage` the search, and actions while rows are selected; in `NodeHistory` what is drawn; in
  `PhoneSettings` what notices say; in `WebSession` the expiry of tokens.
- Access to machines looks at `enabled` and not at the interval of a binding; nothing here says
  which of the two is meant.
- What screens and pages look like.

## 8. Plan

Done, in the order of what breaks most expensively: the agent and its proofs; admission;
reporting; alerts; the records of reports; persons; the clients' sessions and pages; then a theorem for
each safety property.

Next:

1. Commands from the pages of one task on their way while the task ends, on `Fleet` and `LivePages`.
2. Attribution (`collector/gpu_attribution.py`): process trees against tasks as relations,
   checked against a reference definition.
