# Verification of Telekio

Telekio lets a program and the plugins it loads at run time share one Tokio
runtime although every library is linked with its own copy of Tokio.  The host
application keeps the real runtime and exports it through a C interface
(`crates/telekio-abi`); the Tokio of a plugin is patched (`crates/telekio-build`)
into a *guest* that forwards tasks, timers, I/O registrations and `block_on`
calls to the host; the host side of that interface is the *bridge*
(`crates/telekio-host/src/bridge`), compiled into the host's Tokio.

What can go wrong is the unloading: `Attachment::detach` must not return while
a thread can still run code of the plugin, must not fail half way, and must
return.  Everything the plugin starts races with it.

## 1. Inventory

| component | state | operations | talks to | hard because |
|---|---|---|---|---|
| `bridge/owner.rs` attachment and owner | `OwnerState`: `accepting`, handles, tasks, activities with wakers, runtimes, resources, `notify` | `attach`, `enter`, `detach`, `activity`/`callback` and their drops, `reserve_task`, `register_task`, `finish_task`, `register_*`, `wait_idle`, `shutdown_owner` | every other part of the bridge | every entry point races with the stop; notification; cancellation of `detach` |
| `bridge/owner.rs` handles | `OwnerStatus::handles` with reference counts | `export_handle`, `retain_handle`, `release_handle`, `detach` | the guest's `Handle` clones | counts kept by two sides; contexts dropped under the lock |
| `bridge/owner.rs` `HostResource` | value slot, one waker slot | `new`, `close`, `update_waker`, `with`, `with_mut`, `release` | timers, I/O, signals | closed by `detach` between a poll's two steps |
| `bridge/runtime/task.rs`, `blocking.rs` | the tracked task, its cleanup | `spawn`, `spawn_local`, `spawn_blocking`, poll, drop | owner, guest runner | the handle is registered after the task may have run |
| `bridge/runtime/context.rs`, `handle.rs` | `GuestFuture` | `handle_block_on`, `runtime_block_on`, `block_in_place` | owner | a parked thread has to be woken by the stop |
| `bridge/runtime/scheduler.rs` | `Deferred` | `defer`, `wake`, `install` | owner, host scheduler | fires while it is being installed |
| `bridge/runtime/mod.rs`, `builder.rs` | `RuntimeOwner::kind` under an `RwLock` | `build`, `shutdown`, `release_runtime`, `close` | owner, `detach`'s closer | two locks, three shutdown modes, thread-bound `LocalRuntime` |
| `bridge/runtime/time.rs`, `io/`, `signal.rs` | resources | `timer`, `poll`, `register`, `ready`, ... | host drivers | results after the close |
| `bridge/runtime/metrics.rs` and host `WorkerObservers` | observers, a queue and a flag per worker | `observe_workers`, worker start and stop | worker threads | observer removed while a worker starts |
| guest task runner (`tokio/guest/runtime/task/runner.rs`) | runnable slot, waker slot, Tokio task state | `bind`, `schedule`, `poll_task`, `cancel_task`, `release_task` | `Task` of the interface | two wake-up protocols on top of each other |
| guest runtime, drivers, time, process | handles to the host | thin forwarding | the interface | |
| host Tokio overlay (`tokio/host`) | `WakeState` of the I/O driver, `ACTIVE` stack, hooks | `arm`, `deregister`, `enter` | bridge | lost wake-ups |
| `telekio-abi` | attachment slot, execution state, wakers | `install_handle`, `detach_attached`, `with_execution_state` | both Tokios | nesting, panics across the interface |
| `telekio-build` | files of the patched crate | `prepare_patch`, source transforms, `rustc` wrapping | cargo | concurrent builds, stale copies |
| `telekio` command line | arguments, cargo metadata | `run`, alias expansion, `package_role`, `prepare_graph`, `init` | cargo | recursion, partly written files |

What makes each of them correct, in a sentence:

- *owner*: a returned `detach` leaves no code of the plugin running, an admitted
  call ends normally, `detach` ends, its second half does not fail;
- *handles, attachment slot*: a context lives as long as somebody counts on it;
- *resources*: nothing is delivered after the close, and nobody who waits for
  something delivered before it is forgotten;
- *runtimes*: one shutdown, by the right thread, and no circle of the two locks in a
  `detach` that nobody cancels;
- *task runner*: one `Notified` per task, a woken task is polled, an aborted one
  ends, nothing is kept after the release;
- *callbacks of the host* (I/O driver, worker observers): none after the
  release, none lost before;
- *execution context*: what a nested call changes reaches the enclosing one;
- *command line, build*: a command that was interrupted can be repeated, and a
  patch that is taken for current is complete.

- *runtime builder*: a runtime has every option it was asked for, or there is none;
- *command line*: every package is built once, with the Tokio of its role.

The hazards of `PROJECT.json` list where each of these could go wrong, with the
properties that watch it or the reason why none does.

## 2. Modules

| module | models | composes |
|---|---|---|
| `PluginLifetime` | the promise: attached, stopping, detached; work is admitted only while attached and detached means none is left | abstract |
| `Owner` | `OwnerState`, tasks, calls, deferred wakers, runtimes, resources, both halves of `detach` | implements `PluginLifetime` |
| `OwnerProofs` | theorems about `Owner` | |
| `RuntimeShutdown` | the owner's mutex, the runtimes' `RwLock`s and the closer of `shutdown_owner` | `MCRuntimeShutdown` gives it runtimes and calls |
| `RuntimeProofs` | theorems about `RuntimeShutdown` and `RuntimeBuilder` | |
| `TaskRunner` | a task of the plugin between the guest's and the host's Tokio | |
| `TaskRunnerProofs` | theorems about `TaskRunner` | |
| `OwnerGate` | as much of the owner as a callback sees: accepting, who holds an activity, the stage of a detach | |
| `DriverWake` | a descriptor in the host's I/O driver, `WakeState` | extends `OwnerGate` |
| `WorkerObservers` | observers of a multi-thread runtime's workers | extends `OwnerGate` |
| `HostCallbacks` | both of them and the detach that ends them | `DriverWake`, `WorkerObservers` |
| `HostCallbacksProofs` | theorems about `HostCallbacks` | |
| `PatchFiles` | the files of a patched Tokio under `telekio init`, `remove` and `cargo` | |
| `Readiness`, `ClockOffsets` | readiness, interests and instants as they cross the interface | operators |
| `Resources` | descriptors, readiness operations, timers, signals and dumps that a plugin polls, and their close by a stop | extends both; `MCResources` gives it scenes |
| `ResourcesProofs` | theorems about `Resources` | |
| `ContextValues` | Tokio's context of a thread: runtime, budget, task, random state | operators |
| `OneContext` | a thread with one Tokio, whoever runs | abstract |
| `ExecutionContext` | a thread with a host and plugins that call each other | implements `OneContext`; `MCExecutionContext` adds the symmetry |
| `ExecutionContextProofs` | theorems about `ExecutionContext` | |
| `Attachments` | the plugin's attachment slot and the references to exported handles | |
| `AttachmentsProofs` | theorems about `Attachments` | |
| `CargoArguments` | how the command line reads, and rewrites, Cargo's arguments | operators |
| `CommandLine` | `telekio cargo` from its arguments to the Cargo commands it runs | extends it; `MCCommandLine` gives it requests and workspaces |
| `CommandProofs` | theorems about `CommandLine`, `CargoArguments` and `PatchFiles` | |
| `RuntimeBuilder` | a plugin's `runtime::Builder` on its way to a runtime of the host | `MCRuntimeBuilder` gives it requests and features |

### Owner

A step is one critical section of `OwnerState::state`, or what a thread does
between two of them; a thread may be stopped between any two steps.  An entry of
`activities` is represented by its holder instead of a fresh number.

| in the code | in the module |
|---|---|
| `OwnerState::accepting` | `accepting` |
| `OwnerStatus::tasks`: absent, `None`, `Some(handle)` | `tasks`: vacant, reserved, registered |
| `OwnerStatus::activities` and its stored wakers | `activities`, `armed` |
| `notify`, as `wait_idle` sees it | `notified` |
| the thread inside `spawn`, `spawn_local`, `spawn_blocking` | `spawn` |
| the task in the host runtime | `job`, `aborted` |
| `Attachment::enter`, `block_on`, `block_in_place`, callbacks, `build_runtime` | `call`, `woken` |
| `DeferredState` | `defer`, `fired` |
| `RuntimeOwner::kind` and the runtime behind it | `host`, `waiting` |
| the blocking task of `shutdown_owner` | `closer`, `todo` |
| the locals of `shutdown_owner` | `toAbort`, `toClose`, `toWake` |
| `Attachment::detach`, cancelled at any await and called again | `detach`, `attempt` |

Notifications follow the code in having two steps: the entry is removed under
the lock, `notify_waiters` runs after it.

### RuntimeShutdown

The same detach at the granularity of locks: who holds the owner's mutex, who
holds or waits for a runtime's `kind` for reading or writing (a waiting writer
keeps new readers out), and where each `block_on` stands.  `Owner` cannot
see a circle of locks because there a critical section is one step.  Here there
is one: `Deadlocked`, in a `detach` that is called again after a cancelled one.

### TaskRunner

A step is an access to the guest task's state word or a critical section of the
slot `runnable` or the slot `waker`.  The state word and the host's task follow
Tokio's harness; that part is external.  `dumps` says whether runtime dumps,
which poll tasks in between, are built in.

### OwnerGate, DriverWake, WorkerObservers, HostCallbacks

`Owner` counts a callback of the host as one call.  These modules open that
call: the driver's thread and the registering thread inside `WakeState::arm`
with `WakeLifecycle`'s counter, the two ends of a `HostResource` (`holders` are
its `Arc`s: the owner's map and the snapshot of `shutdown_owner`), and the
workers with their flag, queue and clones.  A worker may move to another thread
by `block_in_place`; `thread` and `recorded` tell the two apart.  Callbacks that
panic and hosts without a multi-thread runtime are left out.

### PatchFiles

A step is one write, or what a command does between two of them; `fs::write` is
two steps, it truncates before it writes.  What a file contains is abstracted
to the version of Telekio and the role that wrote it.

| in the code | in the module |
|---|---|
| `Cargo.toml`, `build.rs`, `src/lib.rs` of a patch | `files`, `dir` |
| the package in which `prepare_package` fetches Tokio | `source`: absent, a directory, a manifest cut short, ready |
| `[patch.crates-io]` of the project's manifest | `patched` |
| other entries of `.telekio`, files without Telekio's mark | `stray`, `Foreign` |
| the file lock of `prepare_config` | nobody else between `lock` and `cargo` |
| the cache's `config.toml`, which every `telekio cargo` truncates and writes again under the lock, and cargo reads after it | `emptied`: who has truncated it, until it is written |

`config.toml` says the same whoever writes it, the path of the one cache
directory, so only whether it is whole matters.

`orders` and `failed` are history: which versions and roles were run, and
whether a command failed after its first write.  Commands of one project are run
one after the other, as a user does, and the user edits `.telekio` between them;
nothing in the code locks a project.

### Readiness, ClockOffsets, Resources

A poll of the plugin is two steps in the host, `update_waker` and the look at
the value, each under its lock, and a close is two steps as well: the value is
taken, then the waker called.  Between any two of them something may happen.
One resource of each kind stands for all of its kind, a registration is polled per direction.

| in the code | in the module |
|---|---|
| `HostResource`: value, waker, the `Arc`s in the owner's map and the snapshot | `value`, `waker`, `held`, `toClose` |
| the plugin's future and the event it was given | `poll` |
| who runs that future: a task, a `block_on`, something else | `scene.executor` |
| Tokio's `ScheduledIo`: readiness, tick, shutdown, its wakers | `ready`, `tick`, `shutdown`, `slot` |
| data in the kernel and edges not yet delivered | `avail`, `edge` |
| the host's clock, paused or not, and both sides' origins | `real`, `logical`, `frozen`, `hostOrigin`, `guestOrigin` |
| a timer's deadline in the host, and what the plugin meant | `due`, `want` |

`Readiness` keeps both sides' bit numbers: the host translates flag by flag, the
guest takes the bits as they are, and the two must agree.

### ContextValues, OneContext, ExecutionContext

The frames of one thread: guards that Tokio nests, calls of the host into a
plugin (`with`, which takes the active state if there is one, and `with_task`,
which always makes one), calls of a plugin into the host, and `block_in_place`.
Each artifact has thread-locals of its own, and any frame may unwind.

| in the code | in the module |
|---|---|
| `CONTEXT` of each artifact's Tokio | `context` |
| `ExecutionState`s on the stack | `states` |
| `ACTIVE` in the host, `EXECUTION` in each artifact | `active`, `execution` |
| `BLOCKING_BUDGET` of the guest | `stash` |
| the `Reset` of `enter` and that of `with_execution_state` | the fields of a frame |
| `PanicContext` | `panic` of a state, a list of artifacts |

`OneContext` says what the thread should look like: as though host and plugins
had one Tokio.  It has one liberty: when calls of `block_in_place` nest, the
inner one takes the budget that the outer one kept aside, so the outer one may
end unconstrained.  Hooks and threads of the plugin's own are called without a
state and are left out.

### Attachments

The plugin's static slot, one owner per attachment, and per owner the counted
contexts: that of the attachment and one per runtime.  A release is two steps,
the removal under the owner's lock and what the removed context drops while the
lock is held, which may be another release (`todo` is the stack of these).

| in the code | in the module |
|---|---|
| `ATTACHED` and the handle `detach_attached` has taken out | `slot`, `taken` |
| `attach`, `telekio_guest_context`, `detach` | `phase` |
| a call in the plugin that builds and drops a runtime | `pc`, `inside`, `temp`, `home`, `built` |
| `HandleRecord::references` and the `Handle`s behind them | `refs`, `held` |
| hooks of a runtime that hold another runtime's `Connection` | `hook` |
| the owner's mutex | `lock` |

Objects that a plugin has kept from an attachment that is gone are not used any
more.  That the host refuses `detach_attached` does not happen; the module has
the branch, and `NothingLeft` says that it is not taken.

### CargoArguments, CommandLine

An argument is a word, an option, an option joined to its value, or `--`; what a
word says matters only where the code compares it.  `CommandLine` goes through
`main.rs` in its order: aliases one at a time, the questions asked of Cargo,
the roles of the packages, one command or one per group, the exit code.
Cargo is external: what it makes of an argument list is stated in operators of
their own (`CargoExpands`, `CargoSelects`, ...), independent of how Telekio reads
it, and the properties compare the two.  `--target` goes the way of `--features`.

| in the code | in the module |
|---|---|
| the arguments, `expand_alias`'s copy and its `visited` | `arguments`, `expanded`, `visited` |
| packages, their dependencies and features, default members | `telekio`, `graph`, `defaults` |
| `Cargo.lock`'s Tokio | `locked` |
| the commands `run_groups` goes through | `todo`, `runs` |

### RuntimeBuilder

| in the code | in the module |
|---|---|
| the plugin's `Builder` and its seed generator | `builder`, `seed` |
| `RuntimeConfig` with 0 for unset, marks for some, histograms as four numbers | `config` |
| the host's `Builder`, under its `cfg` features | `host`, `features` |
| the guest's own half, and the `Connection` | `guest`, `connection` |

Callbacks are names.  A panic inside the guest's half, after which the builder
would not be put back, is left out.

## 3. Runs

Every run is deterministic in its bounds; the numbers are distinct states.

| run | bounds | question |
|---|---|---|
| `OwnerCalls` (195,120) | an async task, a `block_on`, a `block_in_place`, a deferred waker, `detach` called up to twice; fair | does anything outlive or sleep through the stop; does `detach` return |
| `OwnerRuntimes` (1,859,063) | a blocking task, a call, a resource, a runtime, a `LocalRuntime`, `detach` called up to twice | can its second half be refused; is every runtime closed once, by a thread that may |
| `RuntimeShutdown` (232,445) | three `block_on`s on two runtimes, `detach` called up to twice | when do the two kinds of locks form a circle, and does `detach` return otherwise |
| `TaskRunner` (9,190) | two threads with wakers or the `AbortHandle`, with and without dumps | one `Notified`, nothing kept, no wake or abort lost |
| `HostCallbacks` (106,521) | three events, or two workers and an observer; one detach | no callback after the close or the stop, none lost before, no endless wait |
| `HostCallbacksUring` | the same | *violated*, see findings |
| `Resources` (158,457) | two pollers in five scenes: one direction twice, both directions, an operation, a timer, a signal and a dump; one stop | is readiness lost; who is woken by the close; is a timer on time; does every wait end |
| `ExecutionContext` (447,392) | a host and two plugins, five frames, one forced yield, a budget of one | does the thread behave as though there were one Tokio |
| `Attachments` (38,871) | two threads that attach, two calls with a runtime each | do the counts match the handles; is anything left |
| `PatchFiles` (858,023) | two processes, two versions, three roles, any number of commands | is a patch that is accepted complete, what does cargo read, and what do failures leave behind |
| `CommandLine` (117,336) | 167 command lines, two members, a library, three graphs, every manifest | is every package built once under its role's Tokio; does every alias end |
| `RuntimeBuilder` (712,448) | any two options, any features of the host, two builds from one `Builder` | does a runtime have every option; does a failed build leave anything |

Why the bounds are enough.  Calls of one kind do not look at each other: they
meet in the maps, the flag and the notification, so one of each kind, and two
where two could be confused (tasks, wakers, readers of one lock), reach every
pair of steps.  Two calls of `detach` reach every cancelled one followed by a
complete one, or by one that is caught behind the first one's closer.  A third event of a descriptor arrives while the driver handles
the second and the registering thread the first.  In `HostCallbacks` a behaviour
has a registration or an observer but not both (`part`): the two share nothing
but the gate.  The scenes of `Resources` are the ways two pollers can meet: in
one direction, where they replace each other's wakers, in two, where they share
the waker of the close, and not at all; what the kinds share is the
`HostResource`, which all of them have.  The tick of a descriptor wraps after 256
events, more than a run has; the code compares ticks for equality only, and 256
events between a poll and its clear would be Tokio's own limit.  Five frames
are enough for a plugin that is entered again below another one
with a guard in between, two plugins for a pointer that is confused; a yield is
counted or not.  Two threads that attach are what the slot tells apart.
`RuntimeBuilder`'s options are converted one by one, so two options show every
pair that shares a condition.  `CommandLine` has an alias of each kind (of a
command, of another alias, of itself, of a default alias, of the environment,
of a shell, an empty one) and each way to select packages; combined short options
(`-vp`) and extensions with their own reading of `-p` are outside of it.  A `-p`
that names no member of the workspace, `-p Library_` here, takes the role of the
default members, as in the code.  `PatchFiles` has no bound but its sets: two versions make an
upgrade, two processes a race for the lock, and the history variables are
finite.  For the safety properties that section 4 proves, the
theorems remove the bounds altogether.

`OwnerCalls` also checks that `Owner` implements `PluginLifetime` (`Implements`),
with `running` mapped to everything that still has code of the plugin to run,
and `ExecutionContext` that it implements `OneContext` (`OneThread`), with the
context mapped to the active state's or, without one, the host's own, and the
guards to the frames of the stack that are guards or blocking regions, at their depths.

`CHECK_DEADLOCK FALSE` is set because the system may stop: a detached plugin, a
released task, a plugin that asks for nothing, a command line that has exited.  That nobody stops who should not
is what the liveness properties say.

Fairness is weak fairness of single steps that a thread takes by itself: a host
worker runs a queued task, a thread inside a function leaves it, code of the
plugin returns when it is called, `block_on`'s thread runs when it is unparked,
a closing runtime's workers exit, a lock that is free is taken by a waiter, a
stop that has begun goes on, a command line takes its next step.  Strong fairness
is asked of one thing, in `Resources`: a poller that must end does so although it
may be polled again and again before it (an aborted task is dropped when a poll
returns, a `block_on` looks at the owner at every poll).
Nobody is obliged to call anything, to wake a future, to send an event or to
cancel.  The code relies on the same: Tokio's workers and the operating
system's threads are scheduled, and README.md asks the host to await `detach`.

## 4. Proofs

None of the safety properties is inductive by itself.  Each module of proofs
has one inductive invariant, a conjunction of named parts, and below it is said what
each part is there for: mostly that the next one would not survive a step without it.
A theorem holds for every value of the constants that the module's assumption
allows; what an assumption asks beyond types is said here.

`OwnerProofs` (any sets of tasks, calls, deferred wakers, runtimes and
resources and any number of cancelled detaches; `OwnerAssumption` says only that
these sets are disjoint where the code's identifiers are).
`Invariance` proves `Spec => []IInv`:

- `TaskInv`, `CallInv`, `DeferInv`: what runs has an entry in a map, so that an
  owner found idle has nothing running;
- `StopInv`: past the snapshot the owner does not accept, so nothing is added,
  and every open resource is in the snapshot;
- `IdleInv`: what `wait_idle` has seen remains true up to the end, because
  entries only disappear after the stop;
- `RuntimeInv`, `LocalInv`: the open runtimes are those of the closer's list,
  and no `LocalRuntime` is among them; so the second half cannot be refused;
- `WakerInv`: a `block_on` in or after a poll has stored its waker, so the
  snapshot wakes it;
- `WaiterIsNotified`, `NoTaskEscapesStop`, `FiredDeferIsReleased`,
  `DetachNeverFails` themselves.

From it follow `TypeCorrect`, `Quiet`, `NeverFails`, `NoTaskEscapes`,
`NoBlockOnSleeps`, `NoLostNotification`, `FiredDefer`, `LocalsHome`.
`Refinement` proves `Spec => Implements`: each step of the owner admits, ends,
stops, releases or stutters; the release needs `IdleIsQuiet`, the admission that
`accepting` is read under the lock.

`WaitedRuntimesJoined` proves `RuntimesJoined` under two hypotheses, both needed:
`Modes` is within `{"Wait"}`, and `MaxAttempts` is at most 2.  Without either the
property is false, see the findings.  Its invariant `JInv` follows the thread
that waits for a closing runtime: there is one (`HostWaits`), it is still in a
call, a poll or a closer (`Waiters`), and all of these hold an entry that keeps the
owner busy, the first closer by its activity, the second because `detach`
awaits it (`Closers`); `Emptied` says that a detached owner keeps no runtime.

`RuntimeProofs` on `RuntimeShutdown` (any runtimes, calls and number of detaches).  `LInv` adds to the types who holds an activity and a waker
(`Admitted`), that a reader's runtime is still in its `kind` (`Kept`), and that every
attempt has at most one closer, at one runtime at a time and started with no lock held
(`OneCloser`), and that what follows the snapshot follows the stop (`Stopped`).  From it
`RuntimeIsKept`; `OnlyCancelledBlock`, that a writer for which a detach waits with
the owner's mutex in hand is the closer of an earlier, cancelled detach;
`CircleNeedsRetry`, that a circle of the two kinds of locks goes through such a closer and
so needs a second `detach`; and `DeadlockIsFinal`, that nobody's step opens it again.

`RuntimeProofs` on `RuntimeBuilder` (any requests, any features of the host, any
number of builds; `RuntimeBuilderAssumption` says which values the options have, that
`None` is none of them, and what Tokio's own setters enforce: no zero workers, no zero
interval, a timer where the alternative one is asked for).  `BInv`: between the calls of a
build the `RuntimeConfig` is the `Builder`'s, the host's runtime is right (`RightHost`) and
the `Builder` is as it was set up.  The argument is by how an option travels: as it is, as
a number with 0 for unset, as four numbers, or as whether there are hooks (`OptionSorts`,
`ConfigIs`, `HistogramCrosses`); one that the host has no feature for was not asked for,
or the build has been refused (`HostIsRight`).  From it `EveryOptionKept`,
`FailureLeavesNothing`.

`TaskRunnerProofs` (any set of wakers): `RunnerInvariant`, whose parts are
`OneNotified` (the `Notified` is in the slot, in one thread's hand or in the
poll, never in two places), `Stages` (what each stage of a poll leaves in the
slots) and `Emptied` (after the release nobody fills them); from it
`ScheduledOnce`, `SlotsEmptied` and `TypeCorrect`.

`HostCallbacksProofs` (any threads, workers, observers and events;
`HoldersAssumption` says that the names of activities are distinct, as their
numbers are).  `HInv`: callbacks are taken until the stop and none is counted once
the owner is idle (`Gate`); whoever is in the plugin's code is counted
(`Counted`, `CallsCounted`), an observer's outside caller being on a worker's
thread or not called at all (`CallsOnWorker`); `active` is exactly the number of
threads between `enter` and `exit`, and a close that has ended has found none
(`Closing`).  From it `NoWakeOnceClosed`, `NoCallbackOnceIdle`, `HostTypeOK`.

`ResourcesProofs` (any pollers, delays and clocks, and any scenes of up to 255
events, which is what the eight bits of a tick allow between two looks at it).
`Clocks` says that the host's timer is due when the plugin meant, and is inductive
alone.  The rest is about polls: a future borrows its resource (`Borrows`), a stop
closes one at a time (`Closes`), the waker in a resource is that of the last who
polled it (`LastWaker`), and so a close wakes a sleeper; an event that a poller was
given is of its direction and not newer than the driver's tick (`Given`,
`Ticks`), and what arrived after it is on its way with a tick of its own (`Later`),
so `clear_readiness` cannot take it.  From them `ReadinessKept`, `SleeperWoken`,
`TimersMeant`, `ResourcesTypeOK`.

`CommandProofs` on `PatchFiles` (any commands and versions).  `UserFilesKept` and `OneAtWork`
from `PInv`: `ForeignKept` needs `Untouched`, that no command is past its
validation while a file of the user is there, which needs that one command is at
work at a time (in `TypeOK`) and that a directory exists before its files
(`WritesInDir`).  `NamedPatchIsComplete`, `AcceptedIsComplete` and
`ReadPatchIsComplete` from `CInv`: a command's stage tells what it was started for
(`Known`, `Placed`) and how much of the patch it has written (`Progress`); where no
command failed the files are of one (`Uniform`); a patch that the project names, or
that cargo reads, is only written over in an upgrade (`Named`, `Reading`); and
`config.toml` was last truncated by a process that has not gone on to cargo (`Emptied`),
so never by the one whose cargo reads it.

`CommandProofs` on `CommandLine` (any workspace, dependencies, aliases and arguments).
`ArgumentAssumption` says what an argument list is here (`Regular`): options that take
a value have one, a command's options follow it, the toolchain comes first; and that a
named alias stands for a command with options but without `--`, for nothing or for a
shell's.  A list is then the set of its options with their values (`Units`), its first
free word, and its end, and each operator is proved by what it does to these, for lists
of any length: `StatusIs` (the last `--config` is the patch's, the rest unchanged),
`PackageArgumentsIs`, `SpliceIs`, `OperationIs`, `ValuesAre`, `CargoValuesAre`.  Two lists are
`Like` each other when Cargo reads the same in them but for `--config` (`CargoReads`); telekio's rewriting
keeps a list like itself, and so does the expansion of an alias in both (`LikeExpand`).

`CommandInv` has four parts.  `ExpansionInv`: as many aliases as telekio has visited, expanded
in whatever is like the arguments, leave what is like `expanded` (`Chained`); the aliases visited
are named ones, and a default one ends the expansion (`Bounded`), so Cargo, which expands one
more than are named, ends with the same list (`CargoExpandsIs`; `CargoAgrees` states it).
`QueueInv`: what waits has the right configuration, and telekio will see that its packages
use Tokio, `Right`, until it has looked and the lockfile is `Settled`.  `RunsInv`: what ran was
`Served`.  `WorkspaceInv` keeps the workspace.  That telekio notices every use of Tokio rests on
`ReachableFromSelected`: the loop of `reachable_packages` finds the least closed set, in any graph.
From it `CommandServes`, for `EveryTokioIsItsRoles`.  Its hypothesis `[]MembersOrNone` is needed,
see section 5; aliases with `--` are excluded because of the finding there.

`CommandsCarryOut`, for `WholeRequest`, is about order and repetition too, which `Units` forgets.
`Owner` gives an argument to the option whose value it is, so that what is kept of a list is what
is picked by owner and value (`Picked`; `OthersAre` says so of `Others`), and what is picked of two
lists, one after the other, is picked of each (`PickedConcat`, from `AtConcat` on the places of
`At`).  So `status` and `package_arguments` change nothing of `Others` (`StatusOthers`,
`PackageOthers`), and two lists that have it in common still do when an alias is expanded in both,
at places that differ (`SameExpand`: the command splits what is picked, and does so in one way only,
`OneSplit`).  `RequestInv` then says what waits and what has run in each phase: one command that
carries out what was asked, or two that do so between them (`CarriesOne`, `CarriesTwo`), unless a
failure was to end it.  The theorem's hypothesis `PlainAliases`, that no named alias sets a
`--config` of its own, is needed as well, see section 5; the aliases of the run meet it.

`ExecutionContextProofs` (any plugins, depth, budget and number of yields).
`EInv` says what the pointers of every frame on the stack were and will be, those
of the frame above having been kept when it was pushed: `Types` and `Framed`;
`Pointers` (a frame points at the state it shall, and no artifact at one that is
gone, at every depth, so that what a `Reset` restores is right); `Heights`, for each
frame, how long the list of who may be unwinding is while it runs, with everybody
below on it; `Counted`, partial sums of the yields that never fall, so that a state
may be taken off.  From it `ContextSeen`, `PanicSeen`, `YieldsCounted`,
`ContextTypeOK`.  `OneThreadHolds` proves the refinement `Spec => OneThread`: each
step shows as one of `OneContext` or as none, a guard of the stack as a guard at its
depth.  It needs one thing more, `Aside`: the budget that a plugin keeps aside is
that of its last blocking region, or none, so that a region gives back what it
found.  `BackInHost` says with a second invariant, `Home`, that a thread
that is back in the host has left no state, no budget kept aside and no change in a
plugin's own context.

`AttachmentsProofs` (any attachers and calls; `AttachmentsAssumption` says that these
are disjoint and that no call has the name of a place where a `Handle` is kept).
`CountsMatch` is about sizes of sets that `release_handle` and the owner change one
element at a time, so it holds only while no `Handle` is released twice or while it is
not there.  `AInv` is what excludes that: `Stages` (`Slotted`, `Entered`, `Owned`:
whose the slot is, and that a call is inside of an attachment not yet idle, so that
its runtime's owner has its tables); `Fits`, a pending release is of a `Handle` that is
held, for a reason (`Meant`) that lasts until it is released; `Apart` and `Once`, it is
pending once, with one thread; `HeldByAttachments` and `HeldByRuntimes`, what is held
is in a place that the stages of its attachment or call account for; and `Counts`.  From
it `ReferencesCounted`, `CallsOnOwnHandle`, `DetachLeavesNothing`, `AttachmentsTypeOK`.
`WithoutHooksNoSelfWait` proves `NoSelfWait` for `Capture = FALSE`: who holds an
owner's lock is then at the end of a release and takes the next lock without it
(`Simple`).  So the finding of section 5 needs a hook that keeps another runtime's objects.

`IInv`, `FiredDeferIsReleased`, `LocalsStayHome`, `WriterIsCancelled`, `BackHome`,
`DeadlockIsFinal` and the type invariants are theorems that no run repeats.

Only model-checked:

- all liveness (`DetachEnds`, `DetachReturns`, `WokenIsPolled`, `AbortedEnds`,
  `EventDispatched`, `DeregisterEnds`, `EveryWorkerObserved`, `StopEndsWaiting`,
  `Ends`), which is out of the prover's reach;
- `Attachments`'s `NoSelfWait` where hooks may keep objects: there it fails (section 5).

No module uses a recursive operator; what recursion there is (aliases, reachable
packages, positions in an argument list) is in recursive functions and folds.

## 5. Findings

- **A release may return with the registration open** (`HostCallbacksUring`).
  `HostResource::release` closes by dropping the last `Arc`; while
  `shutdown_owner` holds a clone it is not the last, and the plugin's handle is
  freed under a callback that was admitted before the stop.

Disagreements that have no run of their own.  Each is a definition of a module
that fails, in the configuration named, when it is put in the place of the
properties there:

- **A background shutdown escapes `detach`** (`RuntimesJoined`,
  `OwnerRuntimes.cfg` with `Modes = {"Background"}`).
  `RuntimeOwner::close` marks a runtime closed before its threads have ended,
  and `Shutdown::Background` does not wait for them.  `detach` skips closed
  runtimes; the runtime's threads may still call the plugin's thread callbacks.
- **So does a runtime whose closer belongs to a cancelled `detach`**
  (`RuntimesJoined`, `OwnerRuntimes.cfg` with `MaxAttempts = 3`; two suffice to
  stop the owner, the third returns).  The closer of the second attempt finds the owner
  stopped and gets no activity (owner.rs:510); when that attempt is cancelled too, the
  third skips the runtime already marked closed and may return while its threads are ending.
- **A cancelled `detach` can block its retry** (`EveryDetachReturns`,
  `RuntimeShutdown.cfg`).  The closer of the first waits to write `kind` behind a
  `block_on`; the second waits to read it behind that writer with the owner's
  mutex in hand, which the `block_on` needs to go on.  The run `RuntimeShutdown`
  reaches this state, `Deadlocked`: `DetachReturns` says that it is the only way for a
  `detach` to hang, `OnlyRetryDeadlocks` that a first `detach` never gets there, while
  README.md:152 says that detachment waits for active calls to finish.
- **Cargo may find an empty configuration** (`CargoFindsItsPatch`,
  `PatchFiles.cfg`, with `Versions = {1}` as well).  Every `telekio cargo` truncates
  and rewrites the `config.toml` of its role (main.rs:185), while the cargo of another, started
  after `drop(lock)` (main.rs:169), may be reading it, and then builds without the
  patch; README.md:41 says that Telekio patches Tokio across the dependency graph before
  invoking Cargo.  An interrupt in between leaves the file empty for the cargos that
  are running.  `CargoReadsItsPatch` says what remains true: the patch itself is not
  touched by another process of the same version, and a process alone finds it named.
- **A wake during a traced poll is lost** (`TracedIsPolled`, `TaskRunner.cfg`).
  `TaskSchedule::wake` (runner.rs:295) trusts the deferred waker, which finds the
  task already notified.
- **A worker may run the plugin's release function after `detach`**
  (`ReleasedBeforeUnload`, `HostCallbacks.cfg`).  Its clone of a removed observer
  is counted by nobody, while `owner.rs:140` says that `detach` releases the
  attachment before unloading.
- **A release waits for the lock its own thread holds** (`NoSelfWait`,
  `Attachments.cfg`).  `release_handle` (owner.rs:273) drops the removed
  `HandleContext` under the owner's lock; a hook in it whose closure holds the last
  handle to another runtime, timer or registration of the same owner releases
  that one then, and locks the same mutex.  Without such a hook no release does
  (`WithoutHooksNoSelfWait`).
- **A descriptor outlives its registration** (`DescriptorHeld`, `Resources.cfg`).
  `abi/io.rs:199` lets the plugin close a descriptor once its registration is
  dropped; while the snapshot of a stop holds the resource, the host still watches it.
- **An alias that ends in `--` and arguments loses the patch** (no definition fails
  in the run, whose aliases have no `--`; give one to `MCAliases` and
  `EveryTokioIsItsRoles` does).  With one role, cargo.rs:57 hands Cargo the
  unexpanded alias with `--config` behind it; Cargo expands it in front, and
  `--config` ends up behind the `--`.  README.md:41 says that Telekio patches
  Tokio across the dependency graph before it invokes Cargo.

Not called wrong, since no document says what is right:

- `observe_workers` called on a thread that has given its worker away by
  `block_in_place` records that thread and not the one that runs the worker now.
- `detach` refuses inside a callback of its own plugin by looking at the innermost
  active owner (owner.rs:145); a callback of a second plugin in between hides the first.
- `-p guest -p other`, where `other` is no member of the workspace: project.rs:232-236 then takes
  the default members for those selected, and `guest` may be built with the host's Tokio.
  `MembersOrNone` excludes it.
- With an alias that stands for a command with `--config`, `status` (cargo.rs:41-58) moves a
  `--config` of the user's from before the alias to behind it, and so changes which of the two counts.
  `PlainAliases` excludes it: with such an alias in `MCAliases` TLC finds `WholeRequest` violated.
- The outer of two nested `block_in_place` does not get its budget back.
- The exceptions in the properties of `PatchFiles` are all reached.  A
  failed `telekio init` (offline, for instance) leaves `.telekio/source`, and every
  later `init` stops there with "is not generated by Telekio"; so do `init` and
  `remove` after an interrupted `remove`.  In the cache, which is not validated, an interrupted upgrade leaves the new manifest
  beside the old `build.rs`, which `patch_current` accepts, or an empty manifest,
  on which it fails from then on; a guest's empty `lib.rs` is accepted as well, a
  source manifest cut short is never completed, and `telekio cargo` of another
  version may rewrite the patch itself that cargo is reading.
  An interrupted write of the project's own manifest leaves it empty.

## 6. Plan

Done: the models of sections 2 and 3 and the theorems of section 4, which state every
safety property that a passing run checks.  Left are
models that could still grow: blocking tasks and the panic of a poll in `TaskRunner`, the
owners of two plugins nested on one thread, packages that a build script makes.

## 7. Not modelled

Textual transforms of Tokio's source (they match or stop the build), the
numbers of the metrics, C layouts and byte buffers, process handles, Windows named
pipes and descriptors beyond what every `HostResource` does, io_uring beyond its
callback, the guest's table of workers, tests and examples.  Of the
packages, those that a build script makes in its own `OUT_DIR`.  Tokio itself is external: its scheduler, task
harness, `Notify`, drivers and `block_in_place` appear only as far as the code
of this repository relies on them.
