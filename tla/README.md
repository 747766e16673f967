# A TLA+ model of agent-at

agent-at runs an installed coding agent once at a given local time. It either
waits in the foreground, or (`--persist`) saves the request, registers a
one-time task with the operating system and exits; the OS later starts a child
that runs the saved request. This directory models that program, model-checks
the models with TLC and proves theorems about them with TLAPS. Paths and line
numbers refer to the repository's Go files.

- [Components](#components)
- [Modules](#modules)
- [JobStore](#jobstore) and its abstract specification JobPromise
- The scheduler backends: [SystemdTask](#systemdtask), [LaunchdTask](#launchdtask),
  [WindowsTask](#windowstask), and their abstract specification TaskContract
- [Foreground](#foreground): Await, WakeRunner, AgentSession
- [WakeAuth](#wakeauth), [Requests and CivilTime](#requests-and-civiltime)
- [Runs](#runs), bounds and fairness
- [Proofs](#proofs)
- [Where documents and code disagree](#where-documents-and-code-disagree)
- [Not modelled](#not-modelled), [Plan](#plan), [Running it](#running-it)

## Components

| Component | Source | State | Operations | What is hard | What makes it correct |
| --- | --- | --- | --- | --- | --- |
| Job store | `persist.go`, `persist_platform_*.go`, `persist_lock_execution_*.go` | per job: a private directory with `lock`, `request.json`, `started.json`, `cancelled.json`, `stdout.log`, `stderr.log`, `result.json`; an OS file lock | `register`, `execute`, `remove`, `list` | four kinds of process meet on one directory; any of them may die at any step; a file operation may fail; the clock runs on; `list` takes no lock | at most one launch; a cancelled job never starts; a running job's files stay; a task never outlives its payload; success is not claimed of a job that will not run |
| Scheduler backends | `persist_task_linux.go`, `persist_task_launchd.go`, `persist_task_windows.go`, `persist_task.go` | unit files and manager state; plist and launchd state; a Task Scheduler entry | `Create`, `Read`, `ReadForRemoval`, `Delete` | each operation is several calls that fail separately; after some failures the result is unknown; reboots | an answer never promises more than is there: refused and deleted mean gone, success means armed; an interrupted operation can be finished |
| macOS dispatch guard | `persist_dispatch_darwin.go` | the saved date | decide, wait | launchd has no year and starts the job at load | runs at the saved date only |
| Wake runner | `wake.go`, `wake_process_unix.go`, `wake_process_windows.go` | one process group or job object, a timer, a context | `startWakeProcess`, `runWakeResult`, `terminate`, `release` | the end of the child, the time limit and Ctrl+C race; descendants; the temporary directory | one outcome; nothing of the group is left when the directory goes |
| Wake authentication and policy | `wake_auth.go`, `wake_auth_native.go`, `wake_policy.go` | none of its own | reads of credential and settings files, a status command run by the wake runner; accept or refuse | files of other programs, read one after another; cut or ambiguous output; which store the CLI will use | the subscription that was validated is the one that is used; only a cause refuses |
| Foreground scheduling | `schedule.go`, `main.go`, `process.go` | the target time, a context | `parseAt`, `await`, `schedule`, `runAgent`, `prepare` | the wall clock jumps; Ctrl+C races the deadline; folds and gaps of civil time | at most one launch, not before the time, none after a cancellation |
| Windows console hand-over | `platform_windows.go`, `temp_windows.go` | two inherited anonymous pipes, a console and its code pages | `launchConsole`, `consoleChild`, `prepareConsole` | parent, console child and agent each may die or be closed; an inherited handle keeps a pipe open | the parent does not wait for ever, and what it reports is true; the code pages come back |
| Command line | `main.go` (`parseOptions`), `persist.go` (`validatePersist`), `wake.go` (`validateWake`) | the options | parse | what registration accepts, execution must accept | every registered request loads again |
| Unsupported platforms | `persist_*_other.go` | none | return an error | nothing | - |

How they interact: `main.run` dispatches to the store (`runPersistent`), to the
wake runner (`scheduleWake`) or to the foreground schedule. `register` and
`remove` call the scheduler backend through the interface `taskScheduler`,
holding the job's lock; `list` calls its `Read` without it. The OS starts
`agent-at --internal-persist ID`, whose `execute` takes the same lock for the
whole run of the agent. Registration, execution, removal and listing share
nothing but the job directory, the lock in it and the OS task. A job ID is 128
random bits and two jobs share no state, so one job is modelled.

The hazards that follow from this are listed in `PROJECT.json`, each at the
line where it bites, with the properties that cover it or the reason why none
does.

## Modules

| Module | Models | Implements |
| --- | --- | --- |
| `JobPromise` | what the user may rely on of one job (abstract) | |
| `JobStore` | `register`, `execute`, `remove`, `list` on one job | `JobPromise` |
| `MCJobStore` | sets of mortal processes for the runs | |
| `TaskContract` | what the store relies on of a `taskScheduler` (abstract) | |
| `SystemdTask` | `linuxTaskScheduler` | `TaskContract` |
| `LaunchdTask` | `launchdTaskScheduler`, the dispatch guard, the child up to its launch | `TaskContract` |
| `WindowsTask` | the Task Scheduler backend, its PowerShell answers, `validateTaskXML` | `TaskContract` |
| `Await` | the wait in the foreground, its clocks, timer, context and Ctrl+C | |
| `WakeRunner` | extends `Await`: `runWakeResult` on a process group or job object | |
| `AgentSession` | extends `Await`: `runAgent`, the console settings, the new console of Windows | |
| `Foreground` | composes `WakeRunner` and `AgentSession`: one process from start to exit | |
| `WakeAuth` | `authorizeWakeCommand` read by read, and the credential the CLI then uses | |
| `CivilTime` | `parseAt` as operators over time zones | |
| `Requests` | extends `CivilTime`: options, validation, `request.json`, `load` | |
| `MCRequests` | small zones, moments and readings for the run | |
| `JobStore_proofs`, `SystemdTask_proofs`, `LaunchdTask_proofs`, `WindowsTask_proofs`, `Foreground_proofs`, `WakeAuth_proofs`, `Requests_proofs` | invariants and theorems of the module they are named after | |

`JobStore` and the backends are joined by `TaskContract`: `JobStore` assumes of
the OS task what the contract allows, and each backend is shown to keep it. A
task that is "latent" in the contract (linked but not started: armed at the next
boot) counts as "armed" in `JobStore`, where an armed task may fire but need not.
Two things follow from the contract alone, whichever backend keeps it:
`GoneStaysGone` (what was refused for certain or deleted does not come back) and
`FiresOnce` (a task whose time has come and that is not armed is not armed again).
On macOS that is the start at the time; launchd's later starts are the store's
extra starts, which the guard and the records turn away.

## JobStore

A process is one run of the program on the job: the registrar, a child started
by the OS (`Executors`; `TimedRun` is the one the time trigger starts, the
others are starts by hand, launchd's start at load and its yearly repetition), a
`--remove`, a `--list`. A step is one system call that another process can
observe. A process ends in `done`, or in `dead` if it was killed.

| State | Code |
| --- | --- |
| `files`, `damaged`, `dirMade` | the job directory: which entries exist, which JSON files are incomplete |
| `holder` | the owner of the exclusive lock on `lock` (`lockJob`, `lockJobForExecution`) |
| `task` | the OS task: absent, armed, or there but never to fire |
| `due` | the wall clock has reached `At`; it never falls back |
| `pc` | where each process is in its function |
| `sawDue` | `persistentChild` reads the clock once, before it waits for the lock |
| `report` | what `runPersistent` prints about the registration |
| `view` | what one `list` has read for its line so far |
| `launched`, `turnedAway`, `cancelSaved`, `torn` | history, read by the properties alone |

| Action | Code (`persist.go`) |
| --- | --- |
| `MakeDir` ... `LockNewJob` | 255-266: `secureJobDir`, the non-blocking lock |
| `SaveRequest`, `CheckAt` | 267-272: `createJSON`, "too soon" |
| `CreateTask`, `ReadBack`, `Recheck`, `ReturnRegistered` | 273-290: the three outcomes of `Create`; read-back; the second look at the clock; the deferred release runs before success is printed |
| `Discard` | `os.RemoveAll` of a refused registration, entry by entry |
| `OpenForExecution`, `LockForExecution` | 305: Unix waits, Windows gives up |
| `LoadForExecution`, `CheckRecords`, `MarkStarted` | 310-330 |
| `Launch`, `AgentEnds`, `RecordResult` | 331-351, 353-396 |
| `LockForRemoval` ... `DeleteTask` | 399-435 |
| `RemoveAll` | 436, entry by entry, in any order, stopping anywhere |
| `ListLoad` ... `ListTask` | 450-484: five reads at five moments |
| `Crash` | a process is killed and the OS drops its lock |

Details that matter. On Unix a child opens the lock file by name and then waits
for its lock; a removal may unlink the file meanwhile, and the child still gets
the lock of the unlinked file. One `holder` is enough: a new lock file can only
be made by a new registration, which has another ID. `os.RemoveAll` unlinks
entries in an order the filesystem chooses and goes on past what it cannot
remove. A failed exclusive creation may leave no file, a part of one, or a
whole one.

What is left out: the checks of `load` on the contents of the request (a
request is complete or it is not), owner and permission checks, an agent that
survives the child that launched it, a file created but lost with its directory
entry in a power loss, a wall clock set back.

Properties (the comments in the module give the lines):

- `OnceOnly`: at most one launch, until a removal breaks off between the records
  and the request (`torn`; see the disagreements).
- `CancelExcludesStart`: after a remover has passed its cancellation record, no
  launch, even by a child that was already waiting for the lock.
- `TaskHasPayload`: a task never exists without the complete request.
- `RunningJobKept`: nothing leaves the directory of a job that is executing.
- `SuccessMeansArmed`: "registered" is said only of a task that will fire or has.
- `UntouchedLineIsTrue`: a `--list` line that shows a reservation with an OS task
  and nothing else is true of the moment the list began, though its five reads
  race a removal.
- `RegisteredJobStarts` (liveness): a job reported registered is launched unless
  it is cancelled; no lock held at the wrong moment loses the one start.
- `KeepsPromise`: `JobStore` implements `JobPromise`. The job's `life` is a
  function of the files and of where the processes are; `told` is `report`.

`JobPromise` says: a job goes from new to reserved to claimed to running to
ended, may be cancelled when it is not claimed or running, is removed only once
it is cancelled or its registration refused, and never goes back; success is
said only of a job that is there; a job whose registration was reported failed
is never claimed. `LifeIsOneWay` follows from it.

## SystemdTask

The task is two files (`service`, `timer`), the link made by `enable`, and the
timer in the user manager. A file is absent, exactly what `Create` writes,
written in part, changed afterwards, or another's. The operations run one at a
time, because register and remove hold the job's lock. The `Read` of `--list`
runs outside it. `JobStore` takes the last look of that `Read` as its step: it may
call any task missing or unreadable, and it says "registered" only of a task that is
there at that look. (systemctl show comes last, and `Delete` disables before it
unlinks; `launchctl print` comes last too; Windows makes one COM call.)

| Action | Code (`persist_task_linux.go`) |
| --- | --- |
| `WriteService`, `WriteTimer`, `UndoService`, `Reload`, `Enable` | 42-71, `Create`, with its definite and uncertain failures |
| `CheckFile`, `ShowService`, `ShowTimer` | 73-94, 190-233, the read that `Read`, `ReadForRemoval` and `Delete` begin with |
| `FindHalves`, `Disable`, `RemoveTimer`, `RemoveService`, `ReloadAgain` | 96-149, `Delete`; the branch for one remaining file and the branch for the pair are the same steps over `found` |
| `TimerFires`, `ServiceEnds`, `MachineStops`, `MachineStarts` | systemd, as the unit text (248-260) asks: oneshot, `Persistent=false`, `WantedBy=timers.target` |
| `Killed`, `Interfere` | the caller is killed; between operations the user edits a file, adds a drop-in, switches the timer off, or removes a file of a timer that is off |

`enable --now` and `disable --now` do two things, the link and the start or
stop, and can fail after the first or after both. Interference within an
operation, between the check and the removal that follows it, is left out: the
code narrows that window and cannot close it. Left out as well is the user who removes
a file under a timer that is enabled or running, since what systemd does then cannot be
read in the repository. A changed file is never removed by the user, so that
`OthersKept` speaks of the program alone.

- `KeepsContract`: refinement of `TaskContract`. A definite refusal and a
  finished deletion leave nothing that could start a child, success leaves a
  timer that will start one or has, "missing" is never said of an armed task.
- `OthersKept`: a file that is not, or no longer, what `Create` wrote stays.
- `RetriedRemovalFinishes` (liveness): whatever a registration or a removal that
  broke off has left, repeating the removal finishes it once nothing fails.

## LaunchdTask

The task is a plist in `~/Library/LaunchAgents` and the job that launchd made of
it. launchd has no date: it starts the job when it is loaded (`RunAtLoad`, also at
every login) and whenever its minute of the calendar comes round. Instants are
numbers; `SecondsPerMinute` and `MinutesPerYear` make a calendar of any size.

| Action | Code |
| --- | --- |
| `WritePlist`, `Bootstrap` | persist_task_launchd.go:38-56, 148-163: `Create`, refused before the plist is there and uncertain after |
| `ReadPlist`, `PrintService` | 58-90, 165-188: `Read`, and the first half of `Delete` |
| `Bootout`, `RemovePlist` | 91-98: `Delete`; the plist goes after the job |
| `Dispatch`, `Guard`, `WakeUp` | 245-272 and persist_dispatch_darwin.go:7-23: the guard of every child, its sleep by the monotonic clock |
| `Run` | persist.go:544-556: the child's own look at the clock (what it does under the lock is `JobStore`'s) |
| `StartChild`, `TimePasses`, `Login`, `Logout`, `ClockSetBack`, `Interfere` | launchd, the clock, the user |

- `InItsTimeAndYear`: however often launchd starts a child, and though the clock is
  set back while one sleeps, the launch is not before the time and on the word of a
  guard that ran in the saved year.
- `KeepsContract`, `OthersKept`, `RetriedRemovalFinishes`: as for systemd. A job can
  be loaded without its plist, so "missing" does not mean off (`MissingMeansOff` is
  `FALSE`); `remove` goes on to `Delete` then, which refuses to finish.
- `Delivered` (liveness): a loaded job whose time has come is launched in the same
  year, and no start that the guard turns away was the last.

## WindowsTask

Every operation runs PowerShell once; PowerShell makes one COM call and prints one
JSON object. `Perform` is the call and what is printed, in full, in part or not at
all, with either exit status; `decodeTaskResponse`, `createResult` and
`taskNotFound` read it (persist_task_windows.go:64-107, 146-166). A definition is
compared setting by setting; `Exports` may leave out every setting that has the
operating system's default, and `taskValue` (persist_task.go:83-95) fills that in.

- `KeepsContract`: only the word of Task Scheduler refuses a task or calls it missing.
- `AcceptedIsWanted`: `Read` accepts the job's own definition alone.
- `OthersKept`: another's task of this name stays, although `Delete` goes by name.
- `RetriedRemovalFinishes` (liveness): also after Task Scheduler deleted the task and
  the answer was lost.

## Foreground

`Foreground` is one run of agent-at that waits, from its start to its exit. The
three modules share `Await`'s variables (clock, context, temporary directory, the
launched process) and add their own.

| Module | State | Actions and code |
| --- | --- | --- |
| `Await` | wall clock, timer, context, handler of Ctrl+C, the main goroutine | `MakeTemp`, `FillTemp`, `UndoTemp`, `NotifyContext` (main.go:223-231, wake.go:51-87), `CheckContext`, `ReadClock`, `Wait` (schedule.go:68-108), `StopNotify`, `RemoveTemp` (the deferred calls, wake.go:82, 88), `Interrupt`, `Tick`, `Jump` |
| `WakeRunner` | the leader and one more process of its group, the job, the goroutine that waits, the limit | `Authorize`, `Finish` (wake_auth_native.go:18-30), `Start`, `Assign`, `Resume` (wake_process_*.go), `Select`, `Terminate`, `Poll`, `Drain`, `Release`, `Close` (wake.go:114-154), `Reap`, `LimitExpires`, `Killed`, `IDReused` |
| `AgentSession` | the step of `runAgent`, code pages, both pipes, the console child | `SetInputCP` ... `Restore` (process.go:64-153, platform_windows.go:100-126), `OpenConsole`, `WriteRequest`, `ReadAnswer` (129-203), `ChildDecodes`, `ChildOpens`, `ChildReturns` (206-279), `WindowClosed` |

`runWakeResult` is modelled once and used twice, for macOS's status command and for
the request. A descendant may leave its process group, fork late, or outlive the
leader; its parent may be reaped and the group's ID given to another group.

- `LaunchedInTime`: nothing is launched before the wall clock has shown the time, and
  however the clock is set, a launch that is due waits at most a second of running time.
- `CancelledStartsNothing`: what Ctrl+C cancels before the last look at the context
  starts nothing; a wake looks once more than an agent does.
- `GroupEnded`: nothing of the group runs when agent-at returns, nor when Ctrl+C takes it
  away while it prepares or cleans up; on Windows not even when it is killed, since the
  process is in the job before it runs.
- `KilledOnce`: a group that agent-at killed is not killed again by the deferred
  release, when its ID may be another's.
- `OutcomeTrue`: child, limit and Ctrl+C race, and the code that is reported names
  the one that came about.
- `TempDirLast`, `TempDirRemoved`: the directory goes after the processes that use it,
  and agent-at does not end before it is gone. Ctrl+C can leave it at two moments alone
  (`Exposed`): before `NotifyContext`, and between a wake's `stop()` and the end of its
  `cleanup()` (see the disagreements).
- `ConsoleRestored`: the code pages are restored whichever step failed.
- `AnswerTrue`, `ParentAnswered` (liveness): the parent of a new console hears what
  happened, and does not wait for what nobody will say.
- `WakeEnds` (liveness): a wake ends, by its limit if need be. The status command
  writes to pipes that are read to their end, so a descendant that left the group
  can hold that one up; a job on which calls fail is not bounded either. A text that is
  copied to the request's stdin is short enough for the pipe here: a long one, whose
  reading end an escaped descendant keeps open without reading, could hold up the wait
  as well.

## WakeAuth

Which credential does a wake request use? The checks read a login file, a provider
profile and, on macOS, the answer of the CLI's status command, one after another;
each belongs to another program and may change at any moment (`Change`). The model
says what each check accepts (`CheckExact`, `CheckHomes`, `ReadLogin`,
`ReadProfile`, `Answer`, `TakeAnswer`; wake_auth.go:15-132, wake_auth_native.go:18-127), what the child's
environment then is (`wakeEnvironment`, wake_policy.go:43-66), and what the CLI
finds in it (`CLIUses`, external: as the comments of those files say). Credentials
are "subscription", "api", "unclear" or "none".

On Unix a variable may be there a second time in another spelling (`stray`): the home,
the login, profile and configuration directories and the host-managed settings.
`checkWakeAuth` folds every name to upper case and the last value wins (`Folded`,
wake_auth.go:17-20); the CLI and `authorizeDarwinWake` have the names as they are. So
the store that is checked (`LoginStore`, `ProfileStore`) and the CLI's own
(`CLILoginStore`, `CLIProfileStore`) are two operators, and they may differ.

- `SubscriptionOnly`: a CLI that is started uses a subscription, or a store it needs
  has changed since it was looked at, or a variable in another spelling made
  `checkWakeAuth` look elsewhere or judge the paths differently (`Misread`; see the
  disagreements).
- `RefusedForCause`: a request is refused only if something was in its way; `Misread` is
  the one cause that is agent-at's own.
- `WholeAnswer`: only one whole verdict authorizes, never the part of a longer
  output that fitted the buffer, nor one of two streams that contradict each other.

## Requests and CivilTime

`CivilTime` is `parseAt` (schedule.go:13-66): a zone is a list of offsets with the
instants between, a reading that the clocks show twice or never is refused.
`Requests` is one command line from its options to the request a child loads:
`parseOptions` (main.go:45-186), `validatePersist`, `validateWake`,
`captureJobEnvironment`, the JSON of `register`, and `load` (persist.go:27-147,
174-271; wake.go:20-42). Texts are members of small sets, by what the checks tell
apart. A path is cut at the list separators it holds, and each piece is absolute or
not, and UTF-8 or not. What is saved is the request together with PATH, made absolute,
and the home directory. Both are taken after names are folded to upper case, so that on
Unix a later `path` or `home` replaces them (`stray`, `FoldedPath`, `FoldedHome`; such a
value is one absolute directory here), and both pass through `encoding/json`, which
replaces what is not UTF-8 (`JSONPiece`).

- `OneInstant`: `parseAt` accepts exactly the readings that the clocks show once, in
  the future (the reference definition looks at every instant within a year).
- `NextTimeOfDay`: a time of day is its next occurrence, unless the clocks are put
  back before.
- `LoadsAgain`: what `parseOptions` and `register` accept is what `load` accepts.
- `SameWhenLoaded`: and it means the same: the request is what was typed, and every
  element of PATH, in its place, and the home directory are what they were, made
  absolute. Excepted are a name that splits PATH, one that is not UTF-8, and a variable
  that one in another spelling replaced (see the disagreements).

## Runs

Every run is `tlc -config X.cfg M` in this directory.

| Run | Question | Bounds | Distinct states |
| --- | --- | --- | --- |
| `jobstore_unix` | type, once only, cancellation, payload, running data, success, refinement | one registrar, two children, two removers, all mortal, disk may fail, waiting lock | 669 thousand |
| `jobstore_windows` | truth of a list line, with the lock that gives up | one registrar, one child, two removers (mortal), one list, disk may fail | 2.0 million |
| `jobstore_live` | is the one start lost? | one registrar, one child, two removers; all but the child mortal; waiting lock | 11 thousand |
| `jobstore_torn` | does a broken removal keep the cancellation? (violated) | two children, one mortal remover | - |
| `jobstore_lost_start` | can the start be lost on Windows? (violated) | one child, nobody else | - |
| `systemd` | contract, others' files, removal finishes | one task; no bound is needed | 5 thousand |
| `systemd_partial` | are partly written units removed? (violated) | the same | - |
| `launchd` | contract, year and time, delivery, removal finishes | two seconds a minute, two minutes a year, ten instants, times 3 and 4; the clock is set back once | 207 thousand |
| `windows_task` | contract, accepted definitions, removal finishes | one task; edits of one setting | 7 thousand |
| `foreground` | clock, cancellation, group, kills, outcome, directory, console, answer, ends | time 4, two ticks a second, clock up to 5, one jump | 446 thousand |
| `requests` | parse and load agree, instants | five options, two elements of PATH with every directory, home and spelling, zones of three offsets out of four (`MCRequests`), day 4, year 6 | 1.0 million |
| `wake_auth` | which credential is used, refusals, cut answers | three things out of the ordinary, two writes of output, one change; names in any spelling | 1.8 million |

The type invariants of `JobStore` and `SystemdTask` are also run; those of
`LaunchdTask`, `WindowsTask`, `Foreground` and `WakeAuth` are theorems (`TypeCorrect`).

Why these bounds are enough.

- `JobStore`: every process does a fixed number of steps, so the numbers of processes
  are the only bounds. Two children are needed for a second launch and two removers
  for a removal and its retry; a third of a kind repeats what a second can do, and for
  the safety properties the proofs cover any number. A list races one removal and its
  retry.
- `LaunchdTask`: ten instants are two years and a half, so the minute of the job comes
  round in the year before, in its own and in the next; time 3 lies within a minute
  (the guard can wait for it), time 4 begins one and a year. The proofs cover every calendar.
- `Foreground`: at two ticks a second the wait before instant 4 takes at least two
  rounds; one jump goes forward or back to any instant. The proofs cover every number.
- `Requests`: the longest chain of checks relates four options, and five leave room
  for an offence in one more; three offsets give a zone a gap and a fold, up to a
  whole day apart. A time is combined with all zones, the options with one.
- `WakeAuth`: an override, a wrong file and a stray name at once are three; two writes
  make a whole answer, a cut one or one on each stream.

Deadlock is checked for `systemd` alone. In the other runs the system may stop:
every process of `JobStore` has ended, a job is removed and the clock at its
bound (`launchd`, `windows_task`), agent-at exits (`foreground`), a request is
loaded or authorized once (`requests`, `wake_auth`).

Fairness.

- `JobStore`: the clock goes on, an armed trigger fires (the machine is on, as
  README.md:44-46 demands), a started process goes on, and the OS grants a free lock
  to a waiting child. Weak fairness of the child's steps is enough although removers
  take the lock in between, because there are finitely many removers. Nothing makes
  a user run a command, and an agent may run for ever. The child that must progress
  is not killed in `jobstore_live`, and the disk is sound.
- `SystemdTask`, `LaunchdTask`, `WindowsTask`: an operation goes on, a machine that is
  off or a user who is away comes back, and the user repeats the removal (strong
  fairness of its two calls, since each is enabled only when the other is not
  running); "nothing fails any more" is the antecedent `calm`, not an assumption.
  launchd starts what it has to, and its child runs. Time need not go on.
- `Foreground`: each goroutine of a process that is not stopped goes on, time passes,
  the limit comes, and what is killed dies. Nothing is assumed of an agent, a CLI, a
  descendant or the user.

What is assumed of the surroundings. launchd keeps a start pending while a child of
the job runs, and a logout cuts short the operation of that session. A Windows
command runs in an interactive session; when agent-at is killed its PowerShell ends
with it, and a COM call that was made stands; an HRESULT that was printed is the
outcome of the call. agent-at's own steps take no time beside a tick. Restoring the
code pages succeeds. A call on a job object may fail at any time, and `broken`
remembers it. The user does not edit a task between the check of an operation and
the removal that follows in it.

Every property of a passing run has a mutant in its module (an operator above
the one it changes, marked `Mutant`): a plausible bug of the code under which
TLC finds the property violated. They are listed in `PROJECT.json`.

## Proofs

The `_proofs` modules, and `TaskContract` for itself, state theorems for every value of the constants. Each rests on
an inductive invariant, a conjunction of named parts, because none of the properties
is inductive by itself; TLC found the parts to hold before they were proved.

### JobStore_proofs

For any sets of children, removers, lists and mortal processes, with either kind of
lock and with or without disk failures, under `ProcsAssumption` alone (the sets are
disjoint, `NoOne` is no process, the time trigger starts one of the children):

| Theorem | Property |
| --- | --- |
| `TypeCorrect` | `TypeOK` |
| `LaunchedOnce` | `OnceOnly` |
| `PayloadKept` | `TaskHasPayload` |
| `UntouchedIsTrue` | `UntouchedLineIsTrue` |
| `CancelExcludes` | `CancelExcludesStart` |
| `RunningKept` | `RunningJobKept` |
| `SuccessArmed` | `SuccessMeansArmed` |

`IndInv` consists of `TypeOK` and

- `LockInv`: whoever is at a step that follows the lock holds it, so at most one
  process is between lock and release;
- `PlaceInv`: each kind of process is at steps of its own function;
- `RegistrationInv`: before the task is created no child has started, no remover
  got past `load`, and nothing was launched or cancelled; while the registrar is
  about to report success the task is armed or has fired;
- `ChildInv`: a child past its checks has a request and a start record, and one
  that is about to mark or launch sees a past without launch or cancellation,
  unless a removal was torn;
- `RemovalInv`: a remover past its load has a request, one past its cancellation
  record still has it, and one that removes files has no OS task left;
- `HistoryInv`: a past launch is remembered by `started.json` and a past
  cancellation by `cancelled.json`, or else the request is gone, or a remover
  that holds the lock is removing, or a removal was torn.

The core of the argument: a launch needs the lock, the request and the absence
of both records; after a launch or a cancellation the records are there as long
as the request is and nobody is removing; a remover that is removing holds the
lock; so a second launch needs a removal that stopped in between, which is what
`torn` records. `StepInv` has one step per action; `CreateJSONType`,
`UnlinkType` and `ListStep` are lemmas used by several of them.

`UntouchedIsTrue` adds `TornInv` (after a torn removal no task is left) and
`ListInv`, one `LineInv` per list: as long as a list has seen neither record, either
there was none when it began or its request is on the way out with no task, so that
a line that still shows a task began with an untouched job.

#### The refinement

`PromiseIsKept` states `KeepsPromise`: `JobStore` implements `JobPromise`, from the same
assumption. `IndInv` does not say what the user was told; `PromiseInv` adds `ToldInv`
(until `register` returns nothing is said and nobody has touched its files), `FailedInv`
(a registration that was reported failed left no task, and no child started) and
`MarkingInv` (a child about to mark its start has seen no cancellation, and none came).
One lemma per operation (`RegisterStep`, `ExecuteStep`, `RemoveStep`, `CrashStep`)
computes `life` before and after the step and names the step of `JobPromise` that it
is; `QuietStep` covers the steps in which only a process moves. The lock is what makes
the values definite: while one process launches or removes, no other does.

Two consequences are stated for a reader. `OneWayLife`: the job's life only goes forward.
`FailedIsOver`: what the user was told to have failed has no task, and no child of it ever
starts.

#### How far the exceptions go

The properties except a removal that breaks off (`torn`), and a liveness property and
a claim of the README fail on Windows. These theorems say that nothing else is behind it:

| Theorem | If | Then |
| --- | --- | --- |
| `CancellationIsRetained` | no file operation fails and no remover is killed (`WholeRemovals`) | `CancellationRetained`, which `jobstore_torn` refutes in general |
| `PromiseInFull`, `OneWayLifeInFull` | the same | `JobPromise!Spec` with no exception; the life never goes back |
| `NoStartAfterTear` | - | after a removal broke off the OS starts no further child: only children started before it can still launch |
| `UnixTurnsNobodyAway` | execution waits for the lock | `TimedRunNotTurnedAway`, which `jobstore_lost_start` refutes for Windows |
| `StartIsUsed` | no file operation fails | the child of the time trigger is done only if the agent was launched, the job cancelled, a child killed, or it met the lock where execution gives up |

`StartIsUsed` is what is left of `RegisteredJobStarts` when progress is taken for granted.
Its invariant, `StartInv`: as long as there is a task or a child the job's files are whole
(`WholeInv`); without an excuse the only record is the start record of a child that is about to
launch (`RecordsInv`), so that the next holder of the lock gets past the checks; and the
trigger's child has seen the time (`TimedInv`). The hypotheses are values of the constants
`WaitsForLock`, `DiskFails` and `Mortals`, and hold in the run `jobstore_live`, but for its
removers, which may be killed there.

### The backends

| Theorem | SystemdTask_proofs | LaunchdTask_proofs | WindowsTask_proofs |
| --- | --- | --- | --- |
| `TypeCorrect`: `TypeOK` | x | x | x |
| `ContractIsKept`: `KeepsContract` | x | x | x |
| `OthersAreKept`: `OthersKept` | x | x | x |
| `YearIsGuarded`: `InItsTimeAndYear` | | x | |
| `OwnIsAccepted`: `AcceptedIsWanted` | | | x |
| `GoneIsGone`: `Contract!GoneStaysGone` | x | x | x |
| `OneStart`: `Contract!FiresOnce` | x | x | x |

Assumed are `CutsWritesAssumption` (systemd: a Boolean) and `CalendarAssumption`
(launchd: minutes and years are not empty, times are positive and within the clock's
bound); the Windows module has no constants. `ContractIsKept` shows that an initial
state is one of the contract's and that each action is a step of the contract's or
leaves its variables alone, action by action: lemmas give the value of the
contract's `task` case by case (`TaskIs`, `TaskBecomes`, `TaskStays`), so that a
leaf compares two such cases. The last two rows are theorems of `TaskContract` itself
(from `ContractInv`: a time that has come leaves nothing latent, and a call forgets the
last answer), carried over to each backend by its `ContractIsKept`. The invariant
`TaskInv` is, for

- systemd: `CallInv` (each step belongs to one operation), `CreateInv` (both files are
  written before the manager hears of them, and only over nothing), `ReadInv` and
  `DeleteInv` (what was verified stays so, and the manager has let go of what is
  removed), `ManagerInv` (a link or a running timer needs both files), with
  `NamesInv`, `AnswerInv`;
- launchd: `PlistInv` (no job before its plist; the plist that `Delete` removes is the
  verified one, and its job is unloaded), `TimedInv` (a job loaded before the time is
  armed for it), with `NamesInv`, `CallInv`. `YearIsGuarded` needs `GuardInv` alone: a
  child past the guard has its word that this is the year. `TypeCorrect` needs
  `ClockInv`: the guard sleeps less than a minute, by lemmas on `\div` and `%`;
- Windows: `CreateInv` (no task of the job before `Create`), `ReplyInv` (what an answer
  says is so until it is read, and doubt says nothing), `OwnerInv` (nobody deletes a
  task that `Read` did not accept), `SpentInv`, with `NamesInv`, `CallInv`. The lemma
  `ValidatedIsWanted` shows that a definition that validates is the job's own
  whatever its export leaves out; it needs that the wanted values and the defaults
  differ in the battery settings and the time limit only, and that no setting is
  called "omitted" (`Settings`).

### Foreground_proofs

For every `Due`, `Second`, `Horizon` and number of jumps (`TimeAssumption`):

| Theorem | Property | From |
| --- | --- | --- |
| `TypeCorrect` | `TypeOK` | `NamesInv`, `FlagsInv`, `WritersInv`, `ClockInv` |
| `Timely` | `LaunchedInTime` | `ClockInv`: lateness and the time left to wait make at most a second; `OnlyTheClockLaunches`: only a look at the clock leads to a launch |
| `CancelledStarts` | `CancelledStartsNothing` | `PlaceInv`, `CancelInv`: who is past the last look was cancelled after it |
| `GroupEnds`, `OutcomeIsTrue` | `GroupEnded`, `OutcomeTrue` | `GroupInv`: a group that was ended, or a job that was closed, has no running member; `OutcomeInv`: nothing is killed before the outcome is chosen |
| `KillsOnce` | `KilledOnce` | `OnceInv`: on Unix what died of a signal was signalled by the one `terminate` |
| `DirIsLast` | `TempDirLast` | the same, and `DirInv` |
| `ConsoleIsRestored`, `AnswerIsTrue` | `ConsoleRestored`, `AnswerTrue` | `ConsoleInv`, `AnswerInv`: what each step of `runAgent` has done so far |
| `DirIsRemoved` | `TempDirRemoved` | `DirInv`, and `OnlyInterruptInterrupts`: only Ctrl+C takes agent-at away, by the default action |

### WakeAuth_proofs

| Theorem | Property |
| --- | --- |
| `TypeCorrect` | `TypeOK` |
| `SubscriptionIsUsed` | `SubscriptionOnly` |
| `RefusalHasCause` | `RefusedForCause` |
| `AnswerIsWhole` | `WholeAnswer` |

`AuthInv`: `EnvInv` (the provider settings are gone, and the homes were checked as they
are, `ExactOK`, or with folded names, `FoldedOK`),
`PlaceInv` (which check belongs to which agent and system), `ReadInv` (every store that
was accepted is as it was found, or has changed). `LaunchIsFit` then shows that a CLI
that finds only fit stores uses the subscription, as long as what was checked is what the
CLI finds (`Apart` says when it is not). `CauseInv` adds what the first look at Codex's
file has shown (`FileInv`), and `PrintedInv` that the output is one the command can write.

### Requests_proofs

For all sets of time zones, moments and readings and any bounds, from `ZoneAssumption` (a
day and a year are not empty) and `ClocksAssumption` (the sets contain such things; no
zone's clocks are put back by more than a day in all). The latter is what `NextTime` needs,
for otherwise a time of day could come again on an earlier date; in the tz database the most
since 1912 is 23 hours (Kwajalein, 1969).

| Theorem | Property |
| --- | --- |
| `ParseAtIsExact` | (of the operator `parseAt`) |
| `InstantIsUnique` | `OneInstant` |
| `NextTime` | `NextTimeOfDay` |
| `RegisteredLoads` | `LoadsAgain` |
| `LoadsTheSame` | `SameWhenLoaded` |

`ParseAtIsExact`: for every zone whose offsets are less than `Year`, an instant is accepted
exactly if it is the only integer at which the clocks show the reading, and still to come.
parseAt looks at the offset a year before the reading and at the changes within a year of
it; `AllAround` shows that the offset at any instant that could matter is among them (it was
in force a year before or since the last change, which is the least age in a set of
naturals), `FewMatches` that counting makes sense. `ShownIsNear` shows that the instants
`OneInstant` looks at are all that count. For `NextTime`, `WholeDays` says that two readings
of one time of day are whole days apart, and `LaterOffset` that the offset falls by at most a
day; so a reading of that time before the chosen instant is one the clocks came back to.

The invariant `RequestInv`: `IsClock` (what the option can say), `StageInv` (a request
that came this far has passed the checks before it, and is what was typed), `SavedInv`
(what is saved is the encoding of that request with the environment of its command).
`Joined` says what `FlattenSeq` makes of a list of single pieces, by looking at the least
length at which it would be wrong (`FlattenSeq` is a recursive function). It relates the
PATH that is saved, cut again at its separators, to the one the command had: with
`ResolvedWhole` (where no name splits PATH, an element resolves to one piece, the directory
it names), `SavedEnvironment` gives the saved PATH element by element, and the home.

### Only model-checked

Every invariant and action property of the passing runs is stated by a theorem. Liveness
(`RegisteredJobStarts`, `RetriedRemovalFinishes` three times, `Delivered`, `WakeEnds`,
`ParentAnswered`) is out of the prover's reach, since ENABLED is; `StartIsUsed` is the
safety half of the first. The type invariants of `Requests` and `CivilTime` are not stated,
since `RequestInv` says what of them matters.

## Where documents and code disagree

1. `CancellationRetained` (`jobstore_torn`). docs/VERIFICATION.md:130-131: "A
   failed removal retains cancellation state, preventing later start."
   `os.RemoveAll` (persist.go:436) removes `cancelled.json` and `request.json` in
   directory order; stopped in between, it can leave a request without a
   cancellation, and a child that was waiting for the lock launches it.
2. `TimedRunNotTurnedAway` (`jobstore_lost_start`). README.md:50-51: "If the time
   passes during registration, agent-at reports the retained state instead of
   claiming success." The last look at the clock (persist.go:286) comes before
   the lock is released. On Windows a child started in between gives up, and the
   registration is reported as a success.
3. `PartialUnitsRemoved` (`systemd_partial`). docs/VERIFICATION.md:41-43 claims
   "public removal including disabled/partial units". A unit file that could be
   written only in part is refused by every removal.

Met while modelling, without a run of their own:

- README.md:195: "Cleanup terminates only this wake's process group/job". On Unix a
  release after an ordinary end signals the group's ID when its leader was already
  reaped (wake_process_unix.go:27); with no member left, that ID may name another
  group of the user. `KilledOnce` covers the case after a kill, which the code does
  guard against.
- README.md:175: "The validated store is also used by the actual wake request." Names
  are folded to upper case on Unix too (wake_auth.go:17-20), and the last value wins. With
  `home`, `codex_home`, `claude_config_dir`, `anthropic_config_dir`, `xdg_config_home` or
  the name of a host-managed setting in lower case, Linux validates one login file or
  profile and the CLI uses another; it may also refuse a request that would have used a
  subscription. On macOS only Codex with a login file comes to `checkWakeAuth`.
  `SubscriptionOnly` and `RefusedForCause` leave the case out as `Misread`.
- README.md:195-197: the cleanup "removes its temporary directory after the child exits",
  and "Forced supervisor termination or OS shutdown can leave temporary files". Ctrl+C
  can as well: before `NotifyContext` (main.go:224-230, wake.go:53-87), and after the
  deferred `stop()` while `cleanup()` runs (wake.go:82, 88). `TempDirRemoved` leaves
  these moments out as `Exposed`.
- Ctrl+C during the status command of macOS ends the wake with 1 (an authentication
  failure), not with 130 as README.md:193-194 says of a cancelled wake.
- A relative element of PATH is resolved against the working directory; when that
  directory's name holds the list separator, the registered job does not load again
  (persist.go:62-86). `LoadsAgain` and `SameWhenLoaded` exclude it as `Splits`.
- A home directory, an element of PATH or a launcher whose name is not UTF-8 is replaced
  by encoding/json in `request.json` (persist.go:161), and `load` accepts the result.
  `SameWhenLoaded` excludes it.
- The names of the saved environment are folded to upper case on Unix too
  (persist.go:58): a later `path` or `home` is saved as PATH or HOME. `SameWhenLoaded`
  excludes it.
- Ctrl+C during a headless run on Windows ends agent-at by the default action, and
  the console keeps the UTF-8 code pages; so it does when Ctrl+C comes before
  `signal.Notify` or after the deferred `signal.Stop` of `runAgent` (process.go:113-128;
  the latter and `restore` are one step of the model, `Restore`).
- `AllowHardTerminate` is written to the task XML and not compared when it is read.

## Not modelled

- The texts of unit files, plists and task XML and their quoting and escaping: a
  definition is exact, changed, partial or foreign.
- Owner, permission and ACL checks of the private directories
  (`persist_platform_*.go`): a matter of what other users can do, not of this
  program's steps. The directory is private in the model.
- The arguments and the environment of the agent, the contents of prompts and logs,
  the settings in `wakeArgs`.
- An agent that survives the child that launched it; a file whose directory entry is
  lost in a power failure.
- Executable and model names of the command line, whose checks stand alone.
- The files for unsupported platforms, which only return errors; tests, release
  packaging.

## Plan

Built so far: the store, its abstract specification, the three backends with the
contract between them, the foreground run, authentication, command line and civil
time, and the theorems about every safety property of them. What is left:

- `Create` of the contract in its steps within `JobStore`, where it is one step now.

- The owner and permission checks of the private store, as a precondition of each
  file operation.

## Running it

    tlc -workers 2 -config jobstore_unix.cfg MCJobStore.tla
    tlc -workers 2 -config jobstore_windows.cfg MCJobStore.tla
    tlc -workers 2 -config jobstore_live.cfg MCJobStore.tla
    tlc -workers 2 -config jobstore_torn.cfg MCJobStore.tla         # a violation
    tlc -workers 2 -config jobstore_lost_start.cfg MCJobStore.tla   # a violation
    tlc -workers 2 -config systemd.cfg SystemdTask.tla
    tlc -workers 2 -config systemd_partial.cfg SystemdTask.tla      # a violation
    tlc -workers 2 -config launchd.cfg LaunchdTask.tla
    tlc -workers 2 -config windows_task.cfg WindowsTask.tla
    tlc -workers 2 -config foreground.cfg Foreground.tla
    tlc -workers 2 -config requests.cfg MCRequests.tla
    tlc -workers 2 -config wake_auth.cfg WakeAuth.tla
    tlapm JobStore_proofs.tla
    tlapm TaskContract.tla
    tlapm SystemdTask_proofs.tla
    tlapm LaunchdTask_proofs.tla
    tlapm WindowsTask_proofs.tla
    tlapm Foreground_proofs.tla
    tlapm WakeAuth_proofs.tla
    tlapm Requests_proofs.tla
