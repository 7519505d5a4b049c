# A TLA+ model of DEVCoreOS

DEVCoreOS is a desktop operating system for developers: a bootc image, a live installer, a login
screen, a Wayland session, and a set of small Rust daemons on D-Bus that install software, run
builds and tests, and watch the machine. This directory holds TLA+ models of the parts whose
correctness depends on interleaving, failure or order, the TLC configurations that check them, and
theorems about them with proofs for TLAPS.

Run the tools in this directory:

    tlc -config MCInstallerLifecycle.cfg MCInstaller  # a model-checking run
    tlapm Installer_proofs.tla                        # the proofs of a module

`PROJECT.json` lists the components, the runs, the source lines each definition stands for, the
hazards and the theorems.

## 1. Inventory

Concurrency in this code has one shape. Each daemon's D-Bus handlers run as tasks of one executor
thread: a synchronous handler is atomic with respect to every other handler, and an `async` one
can be interleaved only at its `.await`s. Long work runs on `std::thread` workers, which interleave
with the handlers at each acquisition of the mutex around the shared state. Release builds abort on
panic, so a panic is a crash of the daemon.

| Component (source) | State | Operations | Hard behaviour | What makes it correct | Model |
|---|---|---|---|---|---|
| Installer domain (`features/installer/domain`) | lifecycle of one job | transition, cancel, fail, retry | which step closes the cancel window | cancelled means before disk writes | `InstallJob` |
| Installer service (`features/installer/daemon`) | job, remembered preflight, job path, worker slot; disks and mounts | ListDisks, Preflight, Start, Cancel, Status; the worker's ten steps | two clients, replugged disks, failed tools, lost bus, death with a half-written disk | erase only what was reviewed, never after an accepted cancel; complete is bootable | `Installer`, `EraseContract` |
| Installer app (`features/installer/app`) | wizard page, last replies | pages, list, preflight, start, status, cancel, timer; one thread per call | late and reordered replies, a service that dies | no disk erased that was not typed; what the pages say of the job is true; busy ends | `InstallerWizard` |
| Supervised execution (`shared/execution`) | registry of jobs, tokens, process groups, three files per job | start, start_in_scope, cancel, status, read_log | duplicate identifiers, cancel against exit, descendants, partial persistence, restarts | a verdict is final, true and stored | `JobCoordinator`, `JobContract` |
| Workload service (`features/studio/workd`) | environments, one machine snapshot, jobs | define, ensure, create, exec, stop, remove, build, test, git, cancel; workspace files | definitions and jobs forgotten by a restart that containers and commands survive, a stale snapshot | a job runs in the definition its clients agreed on, and is over when it says so; a saved file is old or new and nothing between | `Work`, `WorkspaceFiles` |
| Environment manager (`features/studio/environment`) | none (plans) | commands for create, exec, run, stop, remove | names outlive definitions | pinned plans | in `Work` |
| Build engine (`features/studio/build`) | task graph, file cache | order; fingerprint, publish, look up | cycles, concurrent publishers | topological order; a cache hit is intact | order in `StepPlan` |
| Test engine (`features/studio/test`) | task graph | order, schedule | cycles, admission under pressure | dependencies first, the right budget for each step | `StepPlan` |
| Provision planner (`features/provision/domain`) | none (pure) | plan, catalogue | order of checks, duplicates, boundaries | a plan exactly for admissible requests | `ProvisionPlanner`, composed in `MCProvision` |
| Provisioning service (`features/provision/daemon`) | status in memory and in a file, worker slot | Start, Cancel, Status, Plan, Catalog | death and resumption, failing writes, cancels, another image | what is reported as done was done | `Provision` |
| First boot (`features/onboarding/firstboot`, `firstbootd`) | completion record, temporary file; settings and accounts of the machine | Status, Apply | failure or death between tools, retry with other values, calls of a dead greeter | the record describes the machine; applied once | `FirstBoot` |
| Greeter (`features/onboarding/greeter`, greetd client of `features/desktop/session`) | page, busy flag, greetd session | Finish, Sign in, Continue, Cancel | lost answers, a conversation that outlives an error, restarts | success means own setup on record; the session is that of the name typed | `Greeter` |
| Resource policy (`shared/core`) | none (pure) | profile, budgets, memory settings | thresholds, integer division, small machines | monotone in pressure, fits the machine | `Policy` |
| Resource daemon (`features/system/resource-daemon`) | one snapshot | Refresh, SnapshotChanged, properties | answers and signals overtake each other | a listener is not left behind | in `Shell` |
| Hardware daemon (`features/system/hardware*`) | one snapshot | Refresh | none, one lock | | not modelled |
| Compositor (`features/desktop/compositor`) | windows, two focuses, workspaces, frame loop of two backends, shell process | map, commit, close, motion, button, switch, frame, pause, resume | focus of closed and hidden windows, lost frame events, a frame skipped while one is queued | one focus, a visible one; the screen is not behind; frames and callbacks go on | `Compositor` |
| Shell (`features/shell/app`) | dashboard, editor, one thread that blocks in calls | Refresh, Register, Load, Save; launcher, jobs, provisioning | failed and lost answers, signals against answers | no silent loss of what was typed; the dashboard is current | `Shell` (editor and dashboard) |
| Update (`features/system/update*`), extensions | plans, manifests | | | | not modelled |
| Platform files, legacy installer, tools | configuration | | | | not modelled |

**Interactions.** The installer app and the shell call the daemons over D-Bus. Workd submits jobs to
its `JobCoordinator`; the provisioning service uses the `ExecutionEngine` below it directly. Both
wait for child processes they put into process groups. The installer starts external tools (sfdisk,
mkfs, podman, bootc, umount) and asks polkit before it starts a job. The first-boot service and the
greeter meet at the completion record. systemd and D-Bus activation restart daemons; nothing that
is not in a file survives that.

## 2. Plan

Done, in this order: `Installer` (the step that cannot be undone), `JobCoordinator` (what every build
and test runs through), `Provision` and its planner, `FirstBoot` with `Greeter`, `Work` on top of the
contract of `JobCoordinator`, `StepPlan` with `Policy`; then the programs a user sees:
`Compositor`, `InstallerWizard` as the client of the installer service, and `Shell` with
`WorkspaceFiles`.

Every safety property of a run now has a theorem (section 12). Left: the abstract contracts as
invariants of their clients (`Work` uses what `JobContract` promises, and no theorem joins the two);
and models of what is listed as not modelled above.

## 3. Installer

`InstallJob` is the lifecycle of `features/installer/domain`: its states, the transition table and
the two predicates `IsCancellable` and `IsRetryable`. `Installer` is the service around it.

| Model | Code |
|---|---|
| `state`, `preflight`, `jobPath`, `nextJob`, `workerActive` | the fields of `ServiceState`, behind one mutex |
| `Preflight`, `Cancel` | the handlers; one action each, because they hold the lock throughout |
| `StartCalled`, then `StartAccepted` / `StartRefused` / `StartNotSpawned` / `StartExhausted` | `start` up to its await of polkit, and the locked section after it with its ways out |
| `pc[j]` and the actions of `Worker` | `run_install_worker`, one step for each acquisition of the lock or external tool |
| `MayErase` | `revalidate_and_transition`, where the lock is held across the check of the disk and the transition |
| `device`, `inUse`, `mounts`, `content` | the machine: where each disk is, who mounted it, what `TARGET_ROOT` holds, what was written |
| `told`, `erased`, `consent`, `swapped` | history, read by the properties only; `swapped` has the disks plugged in where the tools of the last job were writing |

Every external tool may fail at every step; sfdisk and mkfs may fail before or after they wrote.
`BusLost` makes each `emit_progress` fail. `Crash` forgets all but the disks.

| Run | Question | Bounds |
|---|---|---|
| `lifecycle` | the slot is given back; no erase after an accepted cancel; a job both cancelled and failed erased nothing; a retry that was offered becomes possible; `EraseContract` | 2 clients, 1 disk that may be unplugged, jobs 1-2 and the exhausted counter, lost bus, crashes, fairness of the worker |
| `disks` | a disk is erased only if its phrase was typed or it was plugged in under the tools; complete is bootable unless such a disk took the target's place | 1 client whose calls overlap, 2 disks on 2 names, replugged at any time and mounted by the desktop, jobs 1-2; disks and names are symmetric |
| `old_path` | disagreement, see section 11 | the smallest that shows it |

Two jobs are enough for everything that needs a second lifecycle (a retry, an old path, a leftover
mount), two disks for everything that confuses disks. A client may call `Preflight` while its `Start`
still waits for polkit, so the one client of `disks` plays both sides of the race for the remembered
disk. `MaxJob` stands for the end of the `u32` counter, whose overflow path the runs take. In `disks`
the service may really come to rest: without bus, and with both disks mounted, nothing can happen.

`disks` looks at the states through the view `WithoutPast`, which leaves out who was told of a cancel and
what jobs that are over had erased and been asked for. No action reads these, and neither property speaks
of them: a disk is erased only by a running job. Without the view the same run has 5.7 million states.

What the erase guarantee is, exactly: the phrase keeps eight characters of a disk's identity, so
`ErasesConsented` speaks of equal phrases. Where two disks share one, a confirmed start may be
redirected to the other by another `Preflight`, and that is no violation. In the run each disk has a
phrase of its own, which is the case in which the property asks most. `prepare_target` resolves the
device once (`main.rs:601`) and then gives its name to several tools, none of which looks again: a disk
exchanged while they run is erased, unreviewed. The property allows exactly this exception (`swapped`),
and the run takes it.

Fairness: `WF` of each worker, i.e. the thread is scheduled and every tool returns (possibly with an
error). Nothing is assumed of clients, disks, bus or crashes.

## 4. Supervised execution

`JobCoordinator` models `JobCoordinator`, `run_registered_job`, `ExecutionEngine::run`,
`terminate_process_group` and `JobStore::persist`.

| Model | Code |
|---|---|
| `registry`, `status`, `token` | the map of cells behind its mutex, each cell's status and cancellation token |
| `Insert`, then `SpawnWorker` or `SpawnWorkerFailed` | `start`: the insertion under the lock, the spawn outside it, the removal if it fails |
| `Cancel` | `cancel`: it only sets the token |
| `BeginJob` ... `FinishJob` | the worker thread; the token is looked at before the spawn and in the supervision loop, nowhere else |
| `TerminateGroup`, `ReapTerminated`, `KillGroup` | SIGTERM to the group, the grace period, SIGKILL only if the leader is still there |
| `JoinReaders` | the two output readers, which end when nobody holds the other end of a pipe |
| `WriteFile`, `WriteFailed` | the three atomic file replacements of `persist` |
| `leader`, `heirs` | the child and its descendants; `Stubborn` ones ignore SIGTERM, `Holding` ones keep the pipes |
| `Restart` | a new life of workd: an empty registry over the old files |

`JobContract` is what callers rely on, per identifier: queued, running, one final verdict;
cancelled only if somebody asked; a verdict of the program only with the complete record of this run.

| Run | Question | Bounds |
|---|---|---|
| `job_service` | the stored record and output are complete when a verdict is shown; a cancelled job ends unless its pipe is kept; `JobContract` | 2 identifiers, 2 cells, 2 lives, a descendant that ignores SIGTERM and holds the pipe, fairness of the threads |
| `job_leak` | disagreement, see section 11 | one job, one descendant |

Two cells over two identifiers allow a duplicate, a reuse after a failed spawn and two jobs at once;
two lives let a run meet the files of a former one. A descendant may exit at any time, so one that is
stubborn and holding does everything that a milder one does; two descendants with different habits
were tried in one life and with safety alone, without a new result. Leaders may always ignore SIGTERM.

Fairness: `WF` of the worker thread and of the spawn in `start`. Programs may run for ever.

Abstracted: argument validation, environment, output bytes and their limit, exit codes beyond success
or not. Not modelled: an error of `waitpid`, processes in a systemd scope that outlive workd, and
`read_log`, which changes nothing.

## 5. Provisioning

`ProvisionPlanner` is one call of the planner: the three loops of `ProvisionRequest::plan`, which
select the bundles, add up their sizes and list the operations, with an action for each way out. It
is written as a machine and not as one operator, because folds over sequences are out of the
prover's reach and steps are not. The answer is compared with a declarative definition: when a plan
must be given, what it must contain and in which order.

| Model | Code |
|---|---|
| `Catalog`, `Item` | `CATALOG`, `catalog_item` |
| `selected`, `estimate`, `operations`, `external` | the locals `selected`, `estimated_bytes`, `operations`, `external_provider_bundle_ids` |
| `place`, `position` | which loop runs, and the element it looks at |
| `PlanCalled`, `StartCalled`, `ConsentRequired` | the two handlers; only `start` asks for the consent |
| `Repeated`, `Select`, `AddEstimate`, `AddOperation`, `AddExternal` | the bodies of the loops |
| `Return` | the early returns and the last one |

`MCProvision` puts the planner before the service: one caller asks any of 12 432 requests, and an
accepted Start goes on into `Provision`. Free space of 6 and 8 GiB is exactly enough for one
environment and for two; the smallest selection that exceeds each does so by 1 GiB.

`Provision` is the service. `memory` is `Runtime.state`, `disk` the state file; `SetState` writes both,
and with `WritesFail` the second may stay behind, because `set_state` ignores the error. `pc` and `index`
are the worker's place in `run`; `EnterEngine` and `CancelledWithin` are the looks at the token inside
the engine. Between `EnterEngine` (`execution/src/lib.rs:237`) and `Spawn` (`:263`) no lock is held, so a
cancel accepted there still starts one program, which is then terminated; `NoProgramAfterCancel` says
that nothing starts after a cancel but this one. `installed` is the outside world: the operations whose
program succeeded, each with the request that ran it. `Crash` and `Load` end a life and begin one.

| Run | Question | Bounds |
|---|---|---|
| `provision` | a plan exactly when admissible, covering and in order; succeeded, running and cancelled are true; no program after a cancel; progress is kept; a cancelled request gives up the slot | 6 identifiers, up to 3 per call, 4 profiles, 2 disk sizes, 3 images; then 2 requests, 5 plans as the planner makes them, failing writes, crashes at every step, fairness of the worker |

Two requests let a selection be started and started again, with another image or after another's
failure. The plans are an environment from each of two images, an environment with an external item, an
external item alone, and an application with its remote, so every way out of `run` is taken. A second
start takes the progress of a first one with the same bundles (`main.rs:167` compares nothing else), so
it may be reported as succeeded although the image it names was never pulled; `SucceededInstalled` says
what is true: each bundle was installed, by this request or by an earlier one of the same selection.
`ProgressKept` speaks of steps from states in which no failed write is outstanding
(`InStep`): after one, a start of another selection may be missing from the file, and the next start
of the first one forgets its progress.

Fairness: `WF` of the worker's own steps. A program that was not cancelled may run for ever; one that
was is ended by the engine, which `job_service` shows as long as no descendant keeps the pipes.

The probe's result, the profile and the last error are only displayed; of these the model keeps the
network state. A crash ends the supervised program as well; a program that outlives its service is not modelled.

## 6. Onboarding

`FirstBoot` is the service, `Greeter` the whole: the greeter and its greetd client composed with it.

| Model | Code |
|---|---|
| `pid`, `job`, `step` | the service's process, the Apply that holds the mutex, its place in `apply` and `commit` |
| `RunTool`, `ToolFails` | one of the six tools of `SystemBackend::apply`, in the order `After` gives |
| `CreateTemp`, `Publish` and their failures | `commit`: the temporary file named after the process, its rename |
| `record`, `temp` | `/var/lib/devcore/first-boot.conf` and the temporary files beside it |
| `applied`, `account` | what the tools did to the machine; accounts are absent, shipped, without password or ready |
| `calls`, `answer` | Apply calls on the bus and what each greeter was told |
| `gen`, `page`, `busy`, `asked` | the greeter's process, `main`'s choice of window, the wizard |
| `auth`, `session`, `conv` | `GreeterWindow.auth-visible`, `LoginController.session`, greetd's side of it |
| `made`, `typed`, `started` | history, read by the properties |

A tool that fails, or is cut off by `Die`, may have taken effect or not; nothing is undone. `Die`
and `Leave` may happen at any step. D-Bus activation starts the service for a call, unless the
record exists, which is the condition of its unit; then calls fail. A call of a greeter that was
killed is served all the same.

| Run | Question | Bounds |
|---|---|---|
| `onboarding` | the record describes the machine; applied once; only own accounts get a password; the right session starts; Finish returns | 3 greeters in a row, 2 configurations (one names an account of the image), 2 process identifiers that come back, deaths at every step |

Three greeters let a call of a dead one overlap the wizard of the next, and a third meet what both
left. A configuration is an account name together with its other values, so two of them differ in
every setting. Two identifiers are enough for a temporary file that is in the way and one that is not.
The run comes to rest when the last greeter has left.

Fairness: `WF` of the service (calls are dispatched, activated and served, tools return) and of the
worker's hand-over to the event loop. Nothing is assumed of users, greetd, `Die` and `Leave`.

What the model shows without a property that forbids it: when the service dies between the rename
and its reply, the wizard shows an error, and each further Finish fails because the service is not
activated any more; it ends only with the greeter. An account left by a failed chpasswd keeps its
name from being used again. A controller whose stream broke keeps the session, so each further
Sign in fails until Cancel.

Abstracted: the checks of the values (a refusal that may always happen), paging through the wizard,
an empty user name, frames. greetd is external: it prompts any number of times and accepts only
accounts with a password. An `AuthMessage` in reply to `start_session` is not modelled, since greetd
gives none there. The record is taken to be durable once renamed; a loss of power is not modelled.

## 7. Workloads

`Work` is `WorkState` of workd. Its jobs are those of `JobContract` (an `INSTANCE` of it over `phase`,
`asked` and `stored`), which section 4 shows `JobCoordinator` to implement, so a job is here a
submission, its child and a verdict.

| Model | Code |
|---|---|
| `environments`, `snapshot` | the fields of `WorkState`; `main` takes the snapshot once |
| `Define`, `EnsureDefined` | `define_environment`, and `ensure_environment` for a name in use |
| `Submit` | the methods that start a job: the definition is cloned into the command, `start_in_scope` refuses deferred work |
| `request`, `child` | what a job was submitted with; what its worker knows of its child |
| `unit` | the scope `devcore-job-<id>`, which belongs to the user manager and not to workd |
| `container` | the Podman container of each name, with the definition it was made from |
| `Restart` | workd dies: definitions and jobs are forgotten, scopes and containers are not |
| `machine`, `Drift` | the condition of the machine, of which `snapshot` is an old copy |
| `told` | history: which definitions were accepted from clients under each name |

Podman is external: `run --name` needs a free name, `exec` a running container, `rm` a stopped one;
each command may fail without effect, and one that is killed may have taken effect.

`Policy` has the profile, the worker budget and the memory settings of a scope as operators.
`StepPlan` is `execution_order` of the build and of the test engine, one algorithm written twice, with
the recursion of `visit` as an explicit stack, followed by `TestPlan::schedule`. (The build engine's
validation has no `sound`: it checks neither identifiers nor commands.) Identifiers are numbers because the
code sorts dependencies.

| Run | Question | Bounds |
|---|---|---|
| `work` | Exec never runs in a container of its lifetime made from another definition; nothing runs under the identifier of a succeeded job | 1 name, 2 pinned definitions and a mutable one, 2 jobs, 2 lives, idle or under severe pressure |
| `step_plan` | the traversal's invariant, of which dependencies first and once is a part; a whole order is returned exactly when there is no cycle; each step has its own budget; the policy is monotone and fits the memory | 3 steps in 2 orders of insertion with every set of dependencies, themselves and an unknown step included; 4 steps with every set of others; one plan in 36 conditions |

One name is enough, since names do not interact: containers and definitions are kept by name. Two
jobs put two commands on one container, and two lives put a command of the first beside a definition
of the second. Jobs and pinned definitions are symmetric in `work`, which has no liveness property.
Three steps have every shape of cycle and diamond below a fourth. The conditions lie on the
thresholds of pressure (0.999, 1 and 5 per cent) and on machines below and above the memory floors.
`step_plan` comes to rest when the call has returned.

What the model shows without a property that forbids it: after a restart a name may be defined
differently while the old container has it, and Exec then runs in the old image
(`ExecInItsDefinition` speaks only of containers of the same lifetime); an emulator that is submitted
when the machine has come under pressure or went off mains since the service started is admitted
(section 11); a command that survives a
restart makes the next job with its identifier fail. A step that depends on a deferred one is not
deferred by `schedule`. A scope ends with the command that leads it (`CommandEnds`): descendants that
keep it after their leader has exited are not modelled, and neither is what their survival does to the
next job with the identifier. `visit` is recursive, so the depth of a plan is bounded by the machine's stack,
which the model does not have.

Abstracted: working directories, toolchains and adapters; a Git operation is an interactive command
in a disposable container. Not modelled: reading logs. Workspace files are in section 10.

## 8. Compositor

`Compositor` is the one thread of `devcore-compositor`: `App`, and around it the loop of the nested
backend (`run_nested`) or the native one (`native.rs`), chosen in `Init`.

| Model | Code |
|---|---|
| `windows`, `next_window_id`, `active_workspace`, `focused_window`, `render_requested` | the fields of `App` |
| `keyboard` | the focus of the seat's keyboard, which is what gets the keys |
| `alive`, `content`, `callback` | the clients: which toplevels exist, what they committed, who waits for a frame callback |
| `prune_windows` | inside every action whose handler prunes, as in the code; `SwitchedFocus` looks at the unpruned list |
| `SuperNumber`, `PointerMotion`, `ButtonPressed`, `OtherInput` | the input handlers of both backends |
| `NewToplevel`, `Commit` | the Wayland handlers; nothing is told to `App` when a toplevel goes (`CloseToplevel`) |
| `frame_queued`, `pending`, `device`, `VBlank`, `PauseSession`, `ActivateSession` | the DRM output and the session of the native backend |
| `phase`, `EventsDone`, `ClientsDone`, `DrawNested`, `RenderNextFrame` | a turn of the loop: events, clients and a frame natively; events, a frame and clients nested |
| `ShellExits`, `ShellGone`, `End` | the shell's exit ends the loop; the end of the loop drops `App` with its clients and kills the shell |
| `screen` | history: the windows of the last frame at their places |

| Run | Question | Bounds |
|---|---|---|
| `desktop` | the focused window is on the list and on the shown workspace; no frame is missing when none is asked for; keys begin to reach a hidden window only when nothing is there to have them; frames go on after pauses; the client of the window in front, whose change is seen, gets its callback | 2 windows, 2 workspaces, a pointer of 2 places over windows that overlap, both backends, any number of pauses |

The instance is told to start a shell (`StartsShell`); without one the program behaves as with a shell that
never exits. Two windows are enough to be stacked, parted by workspaces, closed under the pointer and focused
in either order; a third adds only a longer stack. The pointer has one place over both windows and one
over the lower only. The loop may end, so the run does not look for deadlocks.

Fairness: `WF` of the loop (a `dispatch` returns after 16 ms at most) and `SF` of `VBlank`, because
a device that is paused again and again still reports the frames it shows while it is active.
Nothing is assumed of users, clients, session and shell.

What the model shows without a property that forbids it: entering a workspace without a window leaves the
keys with a window of the one that was left (`KeysFollowTheView` allows exactly that), and a new window
is `focused_window` but gets no keys until the pointer moves or it is clicked, where
`docs/COMPOSITOR.md:21-23` says that the latest live window is the focused surface. A closed window stays
on the native screen until something else asks for a frame. A frame that is empty sends no callbacks
(native.rs:442), so a client that commits nothing but the request for one waits for the next change, and
so may a client whose change lies wholly behind an opaque window: `RenderNextFrame` may find the frame
empty whenever all that changed is behind another window (`MayBeEmpty`). `DrmOutput::render_frame` takes
its elements from front to back and `render_next_frame` gives them in the order of the list, so the first
window of the stack is the one in front (`Covered`), although `focus_window_at` prefers the last one
under the pointer (`Topmost`). Thus `ChangeAnswered` promises the callback to the window in front only. A
frame that `frame_submitted` could not retire stops the drawing until the next pause (`Stuck`). A frame
wanted on a paused device is taken to fail and to end the compositor, as any error of the renderer does.

Abstracted: places are on the diagonal of the 32-pixel offsets; a window's change is taken to reach into
the output (one that lies outside it also makes an empty frame). Not modelled: pointer focus and grabs,
popups, data devices, hotplug, the probing of GPU and connector, a keyboard that cannot be set up.

## 9. Installer application

`InstallerWizard` is the window with its pages, and as much of the service as it can tell apart: the
handlers as in `Installer`, the worker as one step per state of `InstallJob`'s table, and two for a
failure.

| Model | Code |
|---|---|
| `step`, `busy`, `disk_options`, `required`, `job_path`, `progress` | properties of `InstallerWindow` |
| `thread[t]` | a spawned thread: its call, and the answer once there is one |
| the actions of `Press`, `Timer` | callbacks, enabled as the buttons are; they read the window and start a thread |
| `Serve(t)` | a D-Bus handler of the service; any call may fail, a Start also after it made its job (`ServeStartUnspawned`) and a Cancel after it took effect (`ServeCancelUnannounced`) |
| `Fail`, `RecordFailure` | an error of the worker, also of the signal that announces a complete job; what it records overwrites "cancelled" and "complete" |
| `Apply(t)` | the closure given to `invoke_from_event_loop`, in any order among the threads |
| `Crash` | the service dies once, with its jobs; calls under way fail, also served ones whose answer was not sent |
| `phrase`, `erased`, `completed`, `overtaken` | history |

| Run | Question | Bounds |
|---|---|---|
| `wizard` | a disk is erased only if its phrase came with the Start; Finish and "cancelled" are true when they are shown; the window does not stay busy | 2 disks, 2 calls under way at a time, 2 jobs, one death of the service |

Two calls under way allow each pair of answers to change places, which is what each of the properties
depends on. Fairness: calls are answered (`WF`; not Start, which waits for the user's authorization) and
not refused for ever (`SF` of `ServeStatus`), answers are applied, tools return, and the timer fires
(`SF`, since with calls under way again and again there may be no thread left in the model, though there
is in the program). Nothing is assumed of the user.

Nothing keeps the user from pressing Install while a `Preflight` is unanswered, and its answer then leads
from the Install page back to the settings, from where the same or another disk may be started while the
window still has the first job. `overtaken` remembers that this happened, and from then on `FinishEarned`
promises only that some job was completed, and `CancelShownTrue` nothing; TLC finds the violations when
the exception is dropped. `ErasesTyped` needs no exception. `BusyEnds` excepts a
Start that waits for its authorization (`Authorizing`) and a service that has forgotten the job or reset
it for a review (`Orphaned`). A job that is complete and then recorded as failed may have been
shown as complete; `FinishEarned` therefore speaks of jobs that were completed.

What the model shows without a property that forbids it: choosing another disk in the combo box does
not change the summary beside it, and a disk list that is late puts the first disk's summary on the
Review page (the phrase to type is still that of the reviewed disk). `busy` ends at the storage
boundary, so the timer stops there, and the Finish page comes only with the Refresh button. After a
failure or a cancellation the Install page has no way back and no retry, where
`docs/UI_REFERENCE_MAPPING.md:45-47` promises "a clear retry/diagnostic state". A service that was
started again does not know the job of the page, which stays busy for ever (`Orphaned`).

Abstracted: the pages from 2 to 6 are one, since turning them changes nothing else; what is typed into
the fields and chosen in the combo box is any value the button asks for; the texts of the Install page
are the one that speaks of a cancellation and all others. Not modelled: the Restart button.

## 10. Shell and workspace files

`WorkspaceFiles` is `Workspace1` of workd with `read_workspace_file` and `write_workspace_file`, one
action for each system call that another process or a crash can come before. `Shell` is the event loop
of `devcore-shell` in front of it, and of the resource daemon.

| Model | Code |
|---|---|
| `call` | the request that is served, under the lock of `WorkState`; the shell's one thread waits for its answer |
| `InspectRead`, `Read` | metadata, then open and read |
| `InspectWrite`, `Create`, `Write`, `Sync`, `Publish` | checks, temporary file, contents, `sync_all`, `rename`; each may fail |
| `JobChanges` | jobs, Git and terminals on the same files, in place |
| `WorkdStops`, `PowerLost` | the service's end, with its definitions, before or after an answer was sent; the machine's, with what was only cached |
| `path`, `content`, `dirty` | the editor's properties; only an edit of the text sets `dirty` |
| `taken`, `Announce`, `RefreshServed` | `ResourceService::refresh`: a snapshot, `SnapshotChanged`, the answer |
| `listener`, `signals`, `posted`, `ShowSignal` | the listener thread, its connection, and the closures in the event loop, which run when the thread is not in a call (`Idle`) |
| `held`, `announced` | history: the text loaded or published last, the last snapshot announced to the listener |

| Run | Question | Bounds |
|---|---|---|
| `shell` | a saved file is whole after any crash; an editor without changes shows what is in the file it was loaded from or saved to; the dashboard does not stay behind what was announced | 2 paths, a short and an overlong text, 3 snapshots, any number of deaths and losses of power |

Two paths let a save go elsewhere than to the file that was loaded; two texts tell a file's contents
apart and take both sides of the length check; three snapshots allow an answer and two signals around it. All
properties are safety, so no fairness is stated.

What the model shows without a property that forbids it: Save goes to the path and the environment
that are typed now, and neither a change of them nor a change of the file since it was loaded is
noticed, so it replaces other text without a word. After workd was restarted Load and Save fail until
Register is pressed again, since they do not call `Ensure` as the job buttons do. When the answer to a
successful save is lost, the editor says that there is something to save. A crash leaves the temporary
file in the workspace. One failure ends the listener for good; a daemon that was restarted does not
announce its first snapshot.

Abstracted: contents, modes, environments other than the one Studio names. Not modelled: links (one that
stays inside the root is readable in the code, and not in the model), the loss of the listener's
connection while signals are in transit, a parent directory that was not synchronised (the old text may
come back after a loss of power), the listing of a workspace, and the shell's other buttons. The hardware
and update readouts are applied by one thread per refresh in any order.

## 11. Where code and documentation disagree

The first two runs end in a counterexample; `PROJECT.json` quotes the line each contradicts.

* `old_path`: `Preflight` keeps the path of the previous job, so a Cancel of a failed job that erased
  its disk is answered as a cancellation before disk changes.
* `job_leak`: a descendant that ignores SIGTERM survives when its leader obeys it.

Two more were shown by TLC and have no run of their own:

* `main` of workd takes the snapshot that decides about admission once (`workd/src/main.rs:373`), so
  `Submit` admits an emulator on a machine that is under pressure or on battery by now, although
  `docs/TEST_ENGINE.md:8-9` says that such work is deferred "during relevant pressure/battery
  conditions".
* Once the leader is gone the worker waits for the pipes without looking at the token
  (`execution/src/lib.rs:287`): a cancel has no effect while a descendant keeps them open, although
  `docs/EXECUTION.md:16-17` promises a termination with a bounded grace period. `CancelEndsUnlessHeld`
  is what remains true.

What the models show besides is said in their sections.

## 12. Theorems

All theorems hold for every value of the constants that satisfies the named assumptions of the
module (`ASSUME`), which say what kind of value a constant is; TLC evaluates them in each run.

**Installer.** `Installer_proofs` begins with the type lemmas of every action. Types alone are not
inductive for the safety properties: that a cancelled job erases nothing rests on who holds the slot
(`SlotHeld`: a running worker holds it and serves the current path), on numbers that are not reused
(`Numbered`) and on the storage boundary (`Boundary`: past it a job is neither cancellable nor told
so; before it an accepted cancel keeps the transition guard closed). From `Inductive` follow
`OneWorkerHolds`, `CancelFinal` and `CancelledThenFailed`, and `ContractImplemented` maps each step to
a step of `EraseContract` or a stutter. `PlacedHolds` adds that no two disks have one device, and that
a disk at the device of the partitioning tools is the target or was plugged in there since (`Located`);
with `Agreed`, that the target's phrase is the one typed, `ConsentHolds` follows, for any phrases and
however disks are replugged. `CompleteHolds` rests on `Undisturbed`: no disk is mounted twice (`Once`),
and while no disk was plugged in under the tools, `Booting` holds. From its mount on the worker's disk
is then the one on top, once bootc has succeeded it is bootable, and once it was
unmounted it is finished (`OnTarget`); and while "complete" is shown no worker has more to do than to
announce it and to give up the slot (`Quiet`).

**Execution.** `JobCoordinator_proofs` proves `Inductive`: registry and cells refer to each other
(`Wired`), the status, outcome and group fit the worker's place (`Staged`, `Grouped`), and the store
holds what the worker has written (`Kept`) and nothing of a run that has not written (`Fresh`,
`Past`), which is what tells this run's files from a former life's. From it follow
`RegisteredHolds`, `VerdictStoredHolds`, `OutputCompleteHolds` and `VerdictFinalHolds`;
`ContractImplemented` maps each step to one of `JobContract` or a stutter.

**Provisioning.** `Provision_proofs` proves `Inductive`: the slot, the status and the running request
belong together (`Serving`), and everything before the worker's index is recorded as completed, with
the operation that has run but is not recorded yet among the installed ones (`Placed`). The steps of
the worker are treated by two lemmas, one for those that conclude a request and one for those that go on.
From it follow `SlottedHolds`, `CompletedInstalledHolds`, `PhaseHonestHolds`, `NoProgramHolds`
and `SucceededHolds`, for plans that may carry out one step differently. `ProgressKeptHolds` needs no
assumption about writes, and `InStepHolds` shows that only a failed one ends its condition. The proofs
see plans only through `PlanAssumption`, which TLC checks for the planner's.

Of the planner they prove `PlannerInductive`, for requests of any length: the bundles are selected
once each and none too large is (`Chosen`), the estimate is the space of those the second loop has
passed (`Summing`, where a bundle that is not counted yet adds its size to the cardinality), and the
operations are the remote, where one is needed, and one for each bundle the third loop has passed
(`Cover`). At the end of the loops these are about the whole selection, and `PlannedHolds` and
`PlanCoversHolds` follow. Of the catalogue the proofs use only that sizes are numbers and that no
bundle is called like the remote.

**Onboarding.** `Greeter_proofs` proves `Inductive` in three parts that are disturbed by different
actions. `Setting`: there is no record while tools run, every setting whose tool precedes the present
step comes from the present call, and its account has its password before the record is created.
`Asking`: a greeter has one call at most, for what it submitted last, and no answer while it is under
way; this is what keeps the answer to an older call from being taken for the present one.
`LoggingIn`: greetd asks only while the prompt is shown, so a name typed later cannot reach a
conversation that still asks. From it follow `RecordImpliesAppliedHolds`, `SetupReportedHolds`,
`PromptHasConversationHolds`, `StartedAsTypedHolds` and, with a lemma about what any step may do to
the machine, the action properties `SettledOnceHolds` and `OwnAccountOnlyHolds`.

**Workloads.** `Studio_proofs` is about two modules. For `Work` it proves `Inductive`. `Defined`: clients
were told of one definition of a name, the one on record. `Requested`: a registered job carries it, and
was admitted. `Scoped`: a scope of this lifetime belongs to a worker that waits for it. `Contained` and
`Agreed`: containers and commands of one lifetime, also of a former one, were made from the same
definitions; without this a command that survives a restart could not be told from one of the new
definitions. From it follow `EnsuredIsUsedHolds`, `ExecInItsDefinitionHolds`, `SucceededIsOverHolds` and
`DeferredNeverRunsHolds`.

For `StepPlan` it proves `PlanInductive`, for plans of any length. `Framed`: the frames are the steps being
visited, each a dependency of the one below it; so a dependency that is being visited closes a cycle,
and the frames from it on are the set `CycleReported` asks for. `LookedAt`: what a frame is through
with is done, so a step is placed after its dependencies. `Begun`: every step before `next` has been
visited, so none is missing at the end. From it follow `DependenciesFirstHolds`, `CycleReportedHolds`
and `OrderExactHolds`; the last adds that no step of a knot, a set of steps each of which depends on
another of them, is ever placed (`Unknotted`), so that a plan with a cycle has no order.
`BudgetSoundHolds` is about the schedule and the policy together: an entry of the schedule is that of
the step at its place in the order, with the workers of its class (`ScheduledByClass`); pressure and
battery only halve what the profile gives or defer it, and halving and the clamp at one worker are
monotone (`PolicyMonotone`); and the shares of memory stay in order and within the machine through
their integer divisions (`ScopeFits`).

**Compositor.** `Compositor_proofs` begins with what filtering a list keeps: its members and their
order. From this `InOrder` is inductive: the list is ordered by identifiers below `next_window_id`, so
a new window is on top and a pruned list is still ordered. `ListHolds` and `ScreenHolds` follow
(`Consistent`, `ScreenCurrent`), and `KeysHold` for the action property `KeysFollowTheView`.

**Installer application.** `InstallerWizard_proofs` proves `Inductive`: what a thread asks for and what
it was answered fit its call (`CallsTyped`), and a worker's target is the disk whose phrase its Start
carried (`JobTyped`); `ErasesTypedHolds` needs no more. `InTime` adds, until a review has
overtaken its Start, that there is one Start at a time and none after one that was accepted
(`OneStart`), that the service's job is that of the window or was lost (`OneJob`) and that what the page,
or an answer that is still to be applied, says of it is so (`SaidTrue`), from which `FinishEarnedHolds`
and `CancelShownHolds` follow, with no assumption about the user.

**Shell.** `Shell_proofs` proves `Inductive` in four parts: types; `Synced`: a file that workd published
is whole; `Editor`: what the call under way carries is what the editor shows, so its answer is about
that, and the file keeps what is held until somebody else writes it; `Dashboard`: the last signal on its
way is the last one announced, and when none is on its way the dashboard and an answer that is still
to be applied are as new. From it follow `SavesHold`, `CleanHolds` and `DashboardHolds`, for any
texts, any paths and any number of snapshots.

**Model-checked only.** All liveness (`SlotReleased`, `RetryHonoured`, `CancelEndsUnlessHeld`,
`CancelFreesSlot`, `FinishAnswered`, `FramesGoOn`, `ChangeAnswered`, `BusyEnds`), as fairness and
`ENABLED` are beyond the prover used here. All else that a run checks is proved. No module uses
recursive operators.

**Proved, not in a run.** The inductive invariants of `Installer`, `JobCoordinator`, `Provision`,
`ProvisionPlanner`, `Greeter`, `Work`, `Compositor`, `InstallerWizard` and `Shell`, and what follows from
them alone: `TypeOK`, `OneWorker`, `Registered`, `VerdictFinal`, `Slotted`, `CompletedInstalled`,
`SetupReported`, `PromptHasConversation`, `EnsuredIsUsed` and `DeferredNeverRuns`. TLC found no violation
of them on the instances of the runs before they were proved for all.
