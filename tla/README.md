# SolarTrigger in TLA+

SolarTrigger drives cameras, mounts and focusers through a solar eclipse. A web
portal sends requests to one long-lived *runtime* process; for every RIG (a set of
camera, mount and focuser) the runtime starts a *scheduler* process that fires the
exposures, and it owns the devices, directly or through child processes that it can
kill. An eclipse lasts minutes and cannot be repeated, so what has to be right is what
happens at the edges: a STOP at the wrong moment, a call that never returns, a child
that dies or cannot be killed, two requests that overlap.

This directory holds TLA+ models of the parts where that is decided, the TLC
configurations that check them, and TLAPS proofs. Paths below are relative to the
repository; `trigger_service.py:2285` means `backend/trigger_service.py`, line 2285.

## 1. Inventory

| Part | State it keeps | Operations | Modelled in |
|---|---|---|---|
| **Generic worker** `backend/generic_worker.py` | priority queue, `_accepting`, `_unhealthy_reason`, `_executing_priority`, thread, `_close_called` | `submit_with_priority`, `start`, `stop`, `mark_unhealthy`, `_run` | `GenericWorker` |
| **Its callers** `camera_worker.py`, `mount_worker.py`, `focuser_worker.py` | none of their own | submit, wait for a bounded time, isolate the worker on a time-out | `GenericWorker` (the wait) |
| **Supervised device process** `device_process_worker.py`, with `mount_process_worker.py`, `focuser_process_worker.py` | child handle, pipe, generation, `_started`, `_motion_state_unknown` | `start`, `shutdown`, `call`, `_motion_call`, the kill paths; `serve_worker` in the child | `SupervisedDevice` |
| **Mount and focuser runtimes** `mount_worker_runtime.py`, `focuser_worker_runtime.py` | registry of workers by device, retained workers, `_degraded_ownership` | `reconcile` with rollback, `stop_all` | `DeviceRuntime` |
| **Mount and focuser services and plugins** `services/`, `plugins/mount/`, `plugins/focuser/` | motion flags, home generation, jog thread; SDK sessions and their lock files | slew, home, tracking, synchronization, STOP; go, jog, STOP; connect, enumerate | `MountMotion`, `FocuserMotion`, `EafSession` |
| **INDI device manager** `indi_device_manager.py` | learned ports and reconnections required, in a file | `discover` | `IndiDiscovery` |
| **Trigger service** `trigger_service.py` | per RIG: process, startup, STOP and cancellation flags, inputs, supervisor thread | `start`, `start_totality_only`, `override_totality`, `stop`, `_run` | `TriggerService` |
| **Run journal** `trigger_run_journal.py` | the entry of each RIG's last run, on disk | `begin_run`, `note_child_recovery`, `finish`, `claim_runtime_recovery` | `TriggerService` in one life of the runtime, `RuntimeRecovery` across lives |
| **Scheduler** `scripts/eclipse_trigger.py`, `phase_trigger.py`, `trigger_heartbeat.py` | window, next slot, whether the camera is set; last pulse and its time-out | phase loop, signals, Emergency Totality, watchdog | `EclipseScheduler` |
| **Camera runtime** `camera_worker_runtime.py` | workers, server, leases and their policies | `reconcile`, `open_ipc_session`, `close_ipc_session`, `release_idle_workers`, `shutdown` | `CameraLease` (promise: `ExclusiveLease`) |
| **Camera server and process** `camera_ipc_server.py`, `camera_process_worker.py`, `camera_ipc_client.py` | sessions, tokens, reservations; child, generation, settings of the run | the handlers, `revoke_session`; respawn | `CameraSession` |
| **Camera plugin** `plugins/camera/profile.py` | `_known_settings`, wake state, rearm time | preflight, initialize, phase settings, capture groups | `SettingCache` |
| **Characterization** `camera_characterization.py` | the profile and timing contract in the making | rearm search, selection of primitives, qualification | `RearmSearch`, `TriggerSelection`, `Qualification` |
| **Camera jobs and interlock** `camera_characterization.py`, `camera_validation.py`, `runtime_interlock.py` | the job, its child, the pair of files; the validation; the lock | start, cancel, publish, validate, delete files | `CameraJobs` |
| **Runtime daemon, RPC** `runtime_daemon.py`, `runtime_rpc.py` | RPC result cache, log and event rings | execute, recover runs after a restart, shutdown | `RuntimeRpc` (promise: `RuntimeCall`), `RuntimeRecovery`, `RuntimeRelay` |
| **GPS and state store** `gps_controller.py`, `state_store.py` | the GPS section: portal, file, runtime | synchronize, save, load, poll, restart | `GpsAuthority` |
| **Hardware preflight** `trigger_start_preflight.py` | one-shot tokens in the portal | prepare a batch, issue, consume | `HardwarePreflight` |
| **Portal** `flask_app/app.py` | released slew gestures, relay cursors, preflight tokens | HTTP routes | `SlewGesture`, `RuntimeRelay`, `GpsAuthority`, `HardwarePreflight` |
| RIG configuration, device inventory, maintenance, Sony and Nikon plugins | documents | I/O, validation | no (section 7) |
| Exposure planning, astronomy | numbers | floating point | no (section 7) |

How they interact. The portal calls the runtime over a socket (`RuntimeRpc`); every RPC runs in
a thread of its own, so two requests for one RIG meet inside `TriggerService`, whose `_lock`
they share with the supervisor threads. A START goes through the GPS record (`GpsAuthority`),
the preflight of the hardware (`HardwarePreflight`) and the admission lock it shares with
maintenance, characterization and validation (`CameraJobs`). A supervisor owns one scheduler
process (`EclipseScheduler`) and hears it through a pipe (phase lines) and a heartbeat. The
scheduler reaches the camera through an IPC session (`CameraSession`) that the camera runtime
grants to one run per RIG (`CameraLease`); behind it a child process loads the plugin
(`SettingCache`), whose profile a characterization has made. Mounts and focusers are called
through a worker thread with a queue (`GenericWorker`) that lives inside a child process
(`SupervisedDevice`), one per device (`DeviceRuntime`); the service in it drives the plugin
(`MountMotion`, `FocuserMotion`). What the portal shows comes back through `RuntimeRelay`.

What makes each part correct:

* worker: every accepted job is answered; the device is closed once and never under a
  running job; a STOP ends the thread even when the queue is full;
* device process: one child at a time touches the hardware, also after a kill that
  failed and beside a child that was forgotten during its startup; a motor that may still be running is remembered until a STOP was carried out;
* device runtimes: a device has one owner, and every process that may still be alive is known,
  also after reconfigurations that fail half-way and roll-backs that fail themselves;
* services and plugins: a STOP that reached the device lasts, although threads of an earlier
  home or jog are still on their way; a serial port and an SDK session have one owner;
* trigger: one scheduler per camera; a STOP is final at every moment of a run's life; an
  end leaves nothing behind that disturbs the next run; a child that cannot be killed
  stays within reach; every end closes the journal entry;
* scheduler: a photo is taken in its window and with the settings of its phase; STOP and the
  override are served whatever the camera does; the watchdog spares a scheduler that is only slow;
* cameras: a RIG has one lease at a time and a lease keeps its camera and policy; a prepared
  capture is fired in its session and its process, once; what the plugin believes the camera is
  set to is what it is set to;
* daemon: an identified request is executed at most once, a run is recovered at most once, in
  its own boot, never after its end; the portal sees each line and event once;
* admission: a run starts on a clock set in this boot, on hardware that passed as it is
  configured, and never beside a job that owns the camera;
* characterization: what is published has passed as it is published.

`PROJECT.json` lists the hazards one by one, at their lines.

## 2. Modules

| Module | What it is | Instance |
|---|---|---|
| `GenericWorker` | the worker thread, the callers' time-outs, the threads that stop it | `MCGenericWorker` |
| `SupervisedDevice` | parent threads, children, the motor | `MCSupervisedDevice` |
| `TriggerService` | requests, supervisors, scheduler processes, journal, lease of one RIG | `MCTriggerService` |
| `EclipseScheduler` | the scheduler process and its watchdog | `MCEclipseScheduler` |
| `CameraLease`, `ExclusiveLease` | leases, server and workers of the camera runtime; what they promise | `MCCamera` |
| `CameraSession` | handlers, tokens and the camera process of one RIG | `MCCamera` |
| `RuntimeRpc`, `RuntimeCall` | the request server and its client; what a call promises | `MCRuntime` |
| `RuntimeRecovery` | journal and runs across lives of the runtime and boots | `MCRuntime` |
| `RuntimeRelay` | logs and events, and the portal that follows them | `MCRuntime` |
| `DeviceRuntime` | reconciliation of mounts or focusers | `MCStation` |
| `IndiDiscovery` | passes of the discovery over drivers and ports | `MCStation` |
| `MountMotion`, `SlewGesture` | a mount, and the slew buttons of the portal | `MCStation` |
| `FocuserMotion`, `EafSession` | a focuser, and the sessions of the ZWO SDK | `MCStation` |
| `RearmSearch`, `TriggerSelection`, `Qualification` | three parts of a characterization | `MCJobs` |
| `SettingCache` | the camera plugin during a run | `MCJobs` |
| `CameraJobs` | characterization and validation jobs, START, maintenance | `MCJobs` |
| `GpsAuthority`, `HardwarePreflight` | the two conditions of a START | `MCJobs` |
| `GenericWorkerProofs`, `SupervisedDeviceProofs`, `TriggerServiceProofs`, `CameraProofs`, `RuntimeProofs`, `StationProofs`, `SchedulerProofs`, `JobsProofs` | what is proved for all constants (section 5) | |

Components that share state are composed inside one module (the trigger service with the
journal and the lease it uses, the discovery with drivers and ports, ...). `MCCamera`,
`MCRuntime`, `MCStation` and `MCJobs` put modules that do not share state side by side: a variable
(`part`, `station`, `study`) says which one a behaviour is of, and the others stand still. A state
of such a run is a state of one module.

Every module has one action per step between two points at which another thread or
process can be seen. A `with self._lock` block that reads and writes only what the lock
protects is one action; what the code does between two such blocks is an action of its
own, because that is where the errors are. Definitions marked `Mutant:` are defective
variants of the definition that follows them; no specification uses them. They document
what each property would catch.

### GenericWorker

`lock`, `accepting`, `unhealthy`, `executing`, `queue`, `close_called` are the
attributes of the same names, `policy` is `_shutdown_policy`. The queue is a set of
`(priority, seq, item)` entries; `IsFirst` is what `PriorityQueue.get()` returns. `pc` is
the place of the worker thread in `_run`: between `get` and `flag` it holds a job that
`_executing_priority` does not show yet, between `check` and `empty` it has read
`_accepting` but not the queue. `_cancel_queued_jobs` runs under the lock but empties a
queue that the worker reads without it, so the loop is held open (`CancelNext`,
`CancelEnd`) while the worker goes on. `stopper[s]` is the place of a call of `stop()`:
it sets the flags, queues the STOP after it released the lock (`Wake`, `queue.Full` is
swallowed), joins, and isolates the worker when the join times out. A worker without a
thread is cleaned up by the call itself (`StopUnstarted` and after).

Left out: `last_error`, the log, a `stop()` made by the worker thread, a failing
`Thread.start()`.

### SupervisedDevice

`holder` is the owner of the parent's RLock, which is held for a whole call with the
startup of a child in it. `process` is the generation whose handle is kept: after a kill
that failed it stays and `started` becomes false (`KillCurrent`). A motion command is
admitted by `BeginMotion`, which looks at `unknown` and releases the lock again; a
failure after it was sent is marked by `MarkUnknown`, again after the lock was released.
`kind` chooses between the two proxies at the start: a mount asks for `emergency_stop` when
the state is unknown and clears it then; a focuser has `stop()`, which stops the motor, and
`stop_jog()`, which ends the thread of a hold if the child has one; both clear the mark
(`ClearsUnknown`). A child whose pipe breaks before it is ready is discarded without being killed
(`StartupClosed`): it lives on without a handle.
`plugin` is the set of children whose service has a connected plugin: motion, a read and a
reconnecting STOP connect it, the plain `stop()` of a mount does not. `moving` is the
motor, outside every process: the death of a child does not stop it. `ambiguous` is a history
variable: a motion command failed after it was sent and no STOP has reached the motor
since.

Calls without motion (tracking, speeds, site, step settings) look like reads here.

### TriggerService

`rig` holds the service's maps at one RIG, `run[r]` what belongs to the r-th admitted run:
how it was asked for, its child, what its supervisor learns. A supervisor goes through
check, build (Popen), handle (published), attach, announce, watch, close (the camera session),
settle (under the lock), note (journal) and conclude. A recovery is `start_totality_only`
called by a supervisor, so its steps (`Emergency`) belong to both kinds of actors. The
lease is the IPC session that the camera runtime grants to one run; `Unclosed` is a session whose
`close_ipc_session()` raised, which the service logs and passes over. `run[r].fed` is the run
whose inputs the child was given, as the inputs lie in a map of the RIG (`OwnInputs`).

The flags of a start (startup, cancellation, STOP) are the RIG's, not a run's, and several properties hold
only of runs that do not share them. `rig.crossed` remembers that: a start wrote them
while another run was not settled or its child survived (`Crosses`), or an emergency start
failed under a STOP and took the mark of it along. It is a history variable; no action reads it.
`rig.unfrozen` remembers that a START raised while it froze the inputs of a simulation, and left its
startup flag set (`StartUnfrozen`). A property that excepts one of the two names it. The scheduler is external: it exits, goes silent (`hung`), or
cannot be killed (`stuck`).

`_recovery_window_open` is modelled by what it does, which is to answer False for every run
with a timeline (see the findings). `_run_ids_by_rig` is written and never read and is left
out, as are the contents of the inputs, a journal that cannot be written, and the recovery
after a restart of the runtime.

### EclipseScheduler

`pc` is the place of the main thread in `PhaseRuntime.run` and the callbacks of
`eclipse_trigger.py`, or in `run_emergency_totality`. Time is an integer; a call of the camera may
end after any of its `Durations`, fail, or run until its time-out, and the watchdog counts from the
last pulse. The timeline is given by the instants `C1`..`C4`, the margins around totality and the
intervals; `Windows` is what `build_phase_schedule` makes of them, for a total eclipse, for a
partial one and for `--totality-only`. STOP and SIGUSR1 arrive at any step. A call that exceeds
the time-outs it was given is left to `Longest` and `Deadline`, which say how long the IPC client
waits. History variables keep the last photo with its window and what began after a signal.

### CameraLease and ExclusiveLease

`lease[s]` is a session with its scope and whether it is open or closing, `instances[i]` a
`CameraIpcServer` with the sessions it serves, `worker[r]` and `live` the workers and the processes
behind them. `close_ipc_session` releases the lock between its steps, so it is a chain of actions
(`CloseBegin` ... `CloseClear`) that another open, reconciliation or shutdown may interrupt; a
server can be stuck, a stop can fail, a worker can die. `LeasePromise` states that all this
implements `ExclusiveLease`: a session takes its RIGs only when nobody holds one of them, and the
camera of a RIG that is held does not change.

### CameraSession

A handler checks its session once, when it is admitted; each call of the camera process is one
step under the worker's lock; everything else can come in between: a revocation with its clean-up,
another handler, the death of the process. A token carries the lease and the generation it was
made in. `strangers` is set when a process is handed a capture it does not know.

### RuntimeRpc and RuntimeCall

A call has two attempts over two connections; `place` is where each handler is, `result` the cache,
`stage` the life of the server: starting, serving, closing, draining, cleanup, down. Answers are
lost, results pruned after they were delivered or expired, the process crashes. `CallsKeepPromise`
states that this implements `RuntimeCall`: a call takes effect once while it is remembered, an
answer belongs to a call that took effect, and "unavailable" is said only of one that did not.

### RuntimeRecovery and RuntimeRelay

`RuntimeRecovery` has the journal's entries, the runs they describe, the boot id, and a runtime
that dies, is rebooted, shuts down, or finds its journal unreadable, at any step; `claimed` is the
entry between `claim_runtime_recovery` and the resumed run. A run that may not be resumed is
shown as failed. `RuntimeRelay` has the two rings of sequence numbers and
the portal's cursors; an entry is its number.

### DeviceRuntime and IndiDiscovery

`reconcile` and `stop_all` run under one lock and are single actions, in which each stop and each
start may fail on its own; a worker whose process survives is `retained`, a registry that could
not be restored is `degraded`. In `IndiDiscovery` a pass is a chain of steps (scan, turn to a driver,
probe, cycle the connection, look again, turn tracking off, publish) over drivers that restart
and ports that are unplugged; `file` is what a later pass remembers. `TrackState` is the set of drivers
that advertise TELESCOPE_TRACK_STATE: a pass touches the tracking of no other mount.

### MountMotion and SlewGesture

`home[g]` is the thread of the g-th `home_start`, which drives the mount by the steps of the plugin
chosen by `kind` and looks for its cancellation between two of them. `link` says who has the
serial port: the INDI driver, or the direct connection of the fast synchronization. A command
that fails may have reached the mount or not. `SlewGesture` is the pair of requests of one press of
a button and the table of releases that overtook their press. A START or STOP may be answered with
an error whether the mount obeyed or not, and the request ends there; `errored` has the
gestures whose last call ended so.

### FocuserMotion and EafSession

Jogs are threads that an event shared by all of them asks to end, and that are given up after
three seconds. `EafSession` counts the owners of an SDK session in each process, with the lock
files between processes.

### SettingCache, RearmSearch, TriggerSelection, Qualification

`SettingCache` draws a camera with any side effects of one setting on another (`body.effects`), a
profile made by the characterization's own probes, and any sequence of phase settings and groups;
the plugin skips the SETs it believes redundant. A run begins with a preflight or, like an
emergency start, without one, and may then trust a snapshot that is out of date (`wake = "trusted"`). `RearmSearch` looks for the smallest delay after
which a camera takes the next photo, over a camera whose ability is drawn at the start.
`TriggerSelection` tries the primitives, prunes those that fail, measures them and reopens the
session, and ends when the baseline settings cannot be restored after a bracket; `Qualification` runs the recipe with the contract and revises budgets.

### CameraJobs, GpsAuthority, HardwarePreflight

`CameraJobs` has the two jobs with their early checks outside the lock (`asked`), the admission lock,
the child of a characterization with the two files it replaces one after the other, and a roll-back
that may fail as well, the deletion of these files one by one, the temporary
runtime of a validation, and a START whose answer was lost. `GpsAuthority` has the three copies of
the GPS record, the receiver's thread, and restarts of portal, runtime and machine; a record's
`sync` is the number of the synchronization that made it. `HardwarePreflight` has the barriers
(all cameras, then all mounts placed, then all tracking), the tokens and their identity.

## 3. Runs

Deadlock checking is off everywhere: jobs, calls and requests are finite and the systems really
come to rest. States and times are those of two workers.

| Run | Question | Bounds, and why they are enough |
|---|---|---|
| `worker` | Are futures, queue, device and thread handled right under any interleaving, and does everything end? | both policies; two jobs (a sequencer job that may expire and crash, a diagnostic one whose caller may give up); two stops; a queue of two. Three entries (two jobs and the STOP) overfill the queue, one job and the STOP are enough for every overtaking, and two stops for every race between stops |
| `device` | Does one child drive the device, is the motor's state remembered, does every call end? | both kinds; one mover, one STOP, one reader, the owner; three children: one that is lost or forgotten, its successor, and one more after that |
| `trigger_stop` | Is a STOP right at every moment of a run and of the run after it, is the RIG ready for the next run? | a START and a simulation, hence two runs in either order or across each other; two graceful STOPs, so that each run can have one, or one run both; one fault, which may be a session that cannot be closed, inputs that cannot be frozen, a child that survives. STOPs are interchangeable. 3.5 million states, ~110 s |
| `trigger_overlap` | Do runs that overlap disturb each other? | two starts, one emergency start, an override; three runs, so that a run and its recovery meet a third one; one fault. 2.9 million states, ~90 s |
| `trigger_live` | Does an accepted STOP end the run for good, does the run of a silent child come to its end? | an emergency start and its recovery, a STOP and a forced STOP, one fault |
| `scheduler` | Does the scheduler keep to its windows, obey the signals, and survive its own watchdog? | a total and a partial eclipse and `--totality-only`, over 24 units of time, so that each window has several slots; calls of length 0 and 1 that may fail or time out (time-outs in units of five seconds, with the code's proportions); STOP and the override at any step. ~95 s |
| `camera` | Does a lease mean what its holder takes it for, and does a token fire only where it belongs? | leases: two sessions over two RIGs (each takes one of them, both, or all there are, so that they are disjoint or overlap), two servers, two workers per RIG, one camera per RIG and two configurations of its policy, one fault; captures: two handlers, two captures, two leases, two processes, one failure. Handlers are interchangeable. 1.5 million states, ~100 s |
| `runtime` | Are calls executed once, lost runs recovered at most once, logs followed without holes? | a call with both of its attempts against three lives of the runtime; two RIGs, two boots, three lives, two runs, one write that fails; rings of two with answers of one, four entries, two runtimes and two portals. 850 thousand states, ~60 s |
| `station` | Do devices have one owner, and does a STOP last? | two devices with two settings, four processes, two troubles; two drivers (one of OnStep, the other one with TELESCOPE_TRACK_STATE) and three ports (one taken), two events, one failure; all four kinds of mounts with three homes and one fault; two presses of a button; both focusers with two jogs; two EAFs and three processes. 1.0 million states, ~55 s |
| `jobs` | Is what a characterization publishes proven, does the camera's cache stay true, does nothing own the camera beside the Trigger, does a run start on a valid clock and on tested hardware? | delays up to 7 units with a jump of 3 and one glitch; two primitives, brackets of 3, 5, 7, two trials, one flop; a recipe of five operations; a camera with at most one side effect, runs with and without a preflight of their own, two groups, three calls, one mishap; two jobs and one failure; two synchronizations and one restart of each kind; two RIGs of which one has a mount, one preflight with its tokens, two changes of the GPS record and two of the configuration, one restart of the portal (a second preflight was run apart, with one change of each: 0.5 million states, no violation). `CacheSafe` promises less of a camera whose side effects the probe cannot see. 1.9 million states, ~125 s |

A *fault*, *failure*, *trouble* or *mishap* is something that goes wrong in the environment: a child
that hangs or sticks, a Popen or a write that fails, a cable. One is enough to make the code take each of
its error paths; where a path needs two (a roll-back that fails itself) the bound is two. Counters
of generations, runs, lives, servers and workers are bounded by constants named `Max...`, in the
guards of the actions that count.

Two runs expect a violation. Each shows a disagreement between the code and what the repository
says of it:

| Run | What happens |
|---|---|
| `trigger_real_lost` | `datetime.now(timezone.utc) < tend` with a naive `tend` raises a TypeError that is turned into False: no real run is ever recovered (`trigger_service.py:658`) |
| `gps_start_race` | `api_trigger_start` checks the GPS record before it takes the admission lock, and with a preflight token it does not check it again; the runtime's own check reads the file, where `gps_sync_running` is always false. So a synchronization that is admitted between the check and the lock moves the clock under the run that starts (`app.py:5661`), although `app.py:3168` says that a START fails closed then |

### Disagreements without a run

Found while modelling; the definitions named are in the modules, with the words of the repository
that they state, and TLC finds each of them violated by a behaviour of the module as it is.

| Definition | What happens |
|---|---|
| `GenericWorker!DiagnosticNeverWaits` | `reject_if_busy` looks at `_executing_priority`, which the worker sets some time after it took the job (`generic_worker.py:206`): a diagnostic shot is queued behind a job that is about to run, although `camera_worker.py:374` says that it never waits |
| `SupervisedDevice!NoMotionAfterAmbiguity`, two movers | two threads pass `_require_motion_state_known`; the first motion times out; the second thread gets the lock and sends its motion through a fresh child (`device_process_worker.py:319`) |
| `SupervisedDevice!MotionRefusedUntilStop` | a focuser's `stop()` succeeds and releases the lock; a motion times out and marks the state unknown; then `stop()` clears the mark (`focuser_process_worker.py:152`) |
| `SupervisedDevice!AmbiguityRemembered`, two stoppers | two recovery STOPs are under way; the first one clears the mark, a new motion starts, is lost and leaves a mark of its own; then the second STOP clears that (`mount_process_worker.py:215`) |
| `SupervisedDevice!StopJogStopsMotor` | `stop_jog()` of a child that has no hold thread (a fresh child, or one whose motion was a go) does nothing and succeeds, and the mark of the ambiguous motion is cleared while the motor travels; the comment there takes it for a physical STOP (`focuser_process_worker.py:141`) |
| `SupervisedDevice!OneLiveChild` | a child whose pipe breaks before it is ready is discarded without a kill or a look (`device_process_worker.py:596`), and may live on beside its successor, which `device_process_worker.py:376` excludes; it never connects its plugin and is asked nothing (`OneDriver`) |
| `SupervisedDevice!StopStopsMotor` | the child that moved a mount is lost during a `status()`; `stop()` goes to a fresh child without a plugin, which answers success and sends nothing (`mount_service.py:612`) |
| `TriggerService!OwnInputs`, with a simulation | the inputs of a run lie in maps of the RIG: a simulation is accepted between the end of a child and its settlement, which frees the startup flag; an emergency start follows and freezes its inputs, and the child of the simulation is started with those, although each run has a snapshot of its own (`trigger_service.py:434`) |
| `TriggerService!CoalescedStopWasAsked` | `_stopping_by_rig` survives a failed emergency start and makes the next run's first STOP a "repetition" (`trigger_service.py:2285`) |
| `TriggerService!StoppedRunNotRecovered`, with starts | START resets the STOP flag before it knows whether it is admitted: a refused START makes a stopped run look as if it had failed, and a Totality run is started again (`trigger_service.py:1125`) |
| `EclipseScheduler!NeverSpins`, `Lead` of a second | after a failed SET of a continuous phase the next slot is a second later, but is prepared `capture_lead_s` before: the SET is repeated without a pause (`phase_trigger.py:341`) |
| `EclipseScheduler!EmergencyRetrySurvives` | no pulse precedes the repeated `camera.initialize()` of Emergency Totality, so the watchdog's 20 s of an earlier stage run while the client allows 35 s (`eclipse_trigger.py:585`) |
| `CameraLease!LeaseServed` | a session is opened on a server whose stop was decided a moment before (`camera_worker_runtime.py:520`) |
| `CameraSession!ReservationsInFlight` | `prepare_capture` refused by its policy (`POLICY_INVALID`) keeps its reservation; eight of them close the RIG for good (`camera_ipc_server.py:203`). A Totality emergency on a RIG with an exposure limit meets this, as its camera never got an ISO target |
| `SettingCache!SnapshotTrusted` | an emergency start has no preflight of its own, and its initialization trusts the snapshot of an earlier one (`profile.py:877`) |
| `MountMotion!StopIsHonoured` | the direct OnStep's `go_home` sends `find_home` without looking whether it was cancelled, and the mount moves after its STOP (`onstep.py:862`, `mount_service.py:583`) |
| `EafSession!InventoryKeepsOff` | the inventory looks for busy focusers before it lists them, and a worker opens one in between (`zwo_eaf.py:96`) |

Others are steps of the models, or seen while reading, without a definition of their own:

* **workers.** An isolated worker whose queue was emptied sleeps in `queue.get()`; a later `stop()`
  queues nothing for it, joins in vain and answers False, although `generic_worker.py:220` says that
  False means a stuck hardware call. A draining `stop()` whose join times out cancels the jobs that
  were to be drained, which `specs/FEAT-111-generic-worker.md:42` promises to execute.
* **trigger.** A STOP after a failed child has left the books and before its recovery has claimed the
  startup is answered `not_running`, and the recovery goes on (`trigger_service.py:2278`).
  `stop()` publishes `stopping` after it released the lock, possibly after the supervisor published
  the end, and then the RIG stays shown as stopping (`:2351`). A phase line whose suppression flag was
  read before a STOP overwrites `stopping` (`:1701`). A START accepted between the end of a child and
  its settlement loses its inputs to the old supervisor, and its flags: the STOP of either run can be answered by the
  other's. A simulation accepted there takes the books, and the real run's supervisor
  returns before `_journal_finish` (`:1902`), so that its entry stays active; a settlement that comes later
  still may clear the cancellation of a newer startup (`_procs is None and cancel`, `:1791`). A STOP of a child that
  survives leaves `_stopping_by_rig` set (`:1812`), and the next run's first STOP is taken for a repetition. An emergency start may overlap a
  simulation, which has no lease: the handle of the simulated child is overwritten (`:1548`). A
  Totality recovery and a newer real start share a journal entry, and the later `begin_run`
  replaces it, after which nobody ends the entry (`JournalSettled`, with START, Totality and a fault). An
  emergency start looks for a live child first and claims the RIG later by the startup flag alone (`:2080`), so that a
  START may come in between and both are on the books: a STOP then marks the startup as cancelled
  while the other run is watched (`CancelledNeverRuns`, with START, Totality and STOP), and a child that
  survived its STOP loses its handle to the new one (`SurvivorStaysReachable`, likewise). A preparation of an
  emergency start that fails under a STOP clears the STOP's marks for good. The inputs of a simulation are
  frozen outside every `try` (`:1250`): an OSError leaves `_starting_by_rig` set and the RIG busy until the
  runtime is restarted (`StartUnfrozen`). A `close_ipc_session()` that raises is logged and
  passed over (`:1773`, `:2187`), and the session keeps every later run from the camera (`Unclosed`).
* **scheduler.** A capture of 120 s and the discarding of its token, 5 s, add up to exactly the
  watchdog's 125 s; the client's capture time-out is fixed at 120 s although the watchdog's follows
  the estimate; a heartbeat pipe closed on EAGAIN leaves a healthy scheduler silent; STOP is not looked
  at again after a SET.
* **cameras.** A handler of a revoked session may still set the ISO target and the initial settings that
  the next run finds. `_finalize_stop` leaves the workers' recovery snapshots. A server that
  stopped by itself and is refreshed to None makes `close_ipc_session` raise, and the lease
  remains. In the plugin, the dependency probe is blind to side effects that put a setting to its
  baseline (`profile.py:1989`; `Visible` excludes them), and an early release followed by a cut at
  the deadline lets an unqualified SET follow (`:1006`).
* **device runtimes.** A partial failure of the stops in `reconcile` leaves stopped workers
  registered (`mount_worker_runtime.py:289`): the RIG is without a mount until `stop_all`.
* **discovery.** A mount that does not advertise TELESCOPE_TRACK_STATE is published whether it tracks or not
  (`indi_device_manager.py:1009`), which the docstring there says and the tests expect
  (`test_indi_device_manager.py:159`, `:778`): the safety boundary ends there. A port of a mount that waits for its reconnection is not claimed, though
  `indi_device_manager.py:793` says otherwise. A half-connected OnStep without a learned port whose cycle
  fails stays on an unclaimed port, which the next driver probes (`:897`). A cable that is unplugged
  and plugged in between two passes is seen for OnStep drivers only. A failed write forgets that a
  reconnection is needed.
* **mounts.** A slew request that is answered with an error leaves the mount as it is: a START that timed
  out may slew on, without the second look at the release (`app.py:2817`), and a STOP that fails is not
  repeated (`app.py:2829`, `:2871`). A second `home_start` neither stops nor is refused; an exception while polling ends a home
  thread without a STOP, and so does the time-out of the direct OnStep; EQMod, the direct home and the
  discovery turn tracking off behind the service's flag; the synchronization is not refused during a
  home; the last STOP of a cancelled home may stop a newer slew.
* **focusers.** An INDI focuser without FOCUS_ABORT_MOTION and FOCUS_MOTION answers success to a STOP that did
  nothing. `stop_jog()` during a go forgets the go while the motor travels
  (`focuser_service.py:321`). A ZWO go beyond the end is clamped in the plugin but not in the service.
  A go during a jog is not refused.
* **jobs.** Characterization and validation can run side by side: each looks at the other before it
  takes the lock (`camera_validation_routes.py:121`). Deleting the files of a camera is not refused
  during a characterization and works from an old verdict (`camera_validation.py:1789`). The pair of
  profile and timing has no journal: a death between the two replacements, or a deletion there, a
  roll-back that fails too (`camera_characterization.py:1053`), a temporary name that cannot be removed
  after its link is made (`:1049`), or a deletion that stops after the first file
  (`camera_validation.py:1809`) leave a mixed pair (`broken.pair` remembers it). A child that is killed
  after it published reports a failure. A child killed in the middle of a message blocks the monitor
  (`camera_characterization.py:641`).
* **characterization.** `CalibrationSound` says of single triggers only that a rejected primitive is measured
  again after the session was opened anew; the comment at `camera_characterization.py:3905` speaks of any
  rejected exploratory primitive, and the code reopens for the single ones. A camera whose first
  photo always comes late raises the budget of a single photo without end (`:4522`); `Upper` is
  a bound of the model, not of the code.
* **GPS and preflight.** A failed synchronization revokes the authority in memory only, and the next
  poll restores the older one from the file. A poll between the update and the save of a
  synchronization loses it in the portal. A poll answered by an old runtime and saved can make a new
  runtime of the same boot trust an older synchronization. A token's identity is taken when it is
  issued, so a change of the GPS record during the preflight goes unnoticed; a later preflight that fails
  does not revoke the tokens of an earlier one.

## 4. Fairness

`GenericWorker!FairSpec`: a thread that is in the middle of something is scheduled again,
a callable returns in the end (the plugins bound their I/O; a job that never returns is what
isolation is for), and the lock is not denied for ever (strong fairness, because it is free
again and again). Nobody has to submit, start, stop or give up.
`SupervisedDevice!FairSpec`: the threads of the parent go on and get the lock. Nothing is
assumed of children: every wait in `call()` has a deadline, and that is what `CallsEnd` shows.
`TriggerService!FairSpec`: supervisors and requests go on; a scheduler that received SIGTERM and
is not hung exits at its next safe boundary; the watchdog notices silence; the output of a dead
child is finite. Nothing forces a request to come or a child to end by itself.
`EclipseScheduler!SchedulerSpec`: the main thread goes on, and a call of the camera ends at its
time-out at the latest. `MCRuntime!RuntimeSpec`: the main thread of the runtime and the handlers of
requests go on, but a command may stay in `dispatch()` for ever; that the runtime ends all the same
is what `TerminationEnds` shows.

## 5. Proofs

`GenericWorkerProofs` proves, for any finite or infinite set of jobs, any number of stopping
threads, both policies and any queue bound:

| Theorem | Statement |
|---|---|
| `Invariance` | `Spec => []IInv` |
| `TypeCorrect` | `Spec => []TypeInv` |
| `FuturesAnswered` | `Spec => []NoOrphanedFuture` |
| `DeviceClosedOnce` | `Spec => []ClosedOnceAfterUse` |
| `QueueEmptied` | `Spec => []ShutdownEmptiesQueue` |
| `DrainKeepsJobs` | `Spec => []DrainCancelsOnlyIsolated` |
| `CallersKeepFutures` | `Spec => []FuturesKept`, the three that the run checks together |
| `StopNeverSleeps` | `Spec => []StopWakesWorker` |

The assumptions are the two of `GenericWorker`: the constants have their types
(`ConstantsAssumption`) and threads and the sentinel are different from jobs
(`ThreadsAssumption`). The properties are not inductive: that a worker leaving its loop has
answered every job depends on where jobs can be, on who may add them, and on who may take them
away. `IInv` says it:

* `LockInv`: the lock is held by exactly the thread whose program counter is in a cancellation;
* `FutureInv`: a pending future is in the queue once or in the worker's hands, a running one is
  the worker's current job;
* `AdmissionInv`: isolation, a STOP anywhere, a worker past its loop and a started `stop()` all
  imply that nothing is accepted any more, so a queue once empty stays empty;
* `CancelInv`: who cancels is isolated, a `cancel_pending` stop, or stops a worker without a thread;
* `CloseInv`: the right to close is taken once;
* `DrainedInv`: a worker past its loop, and a cancelled queue, have nothing but STOPs left; a
  stopped healthy worker waits on a queue that is not empty.

Each part has one lemma with one step per action (`TypeStep`, `LockStep`, ...).

`SupervisedDeviceProofs` proves, for both kinds of device, any threads and any bound on the
number of children, from `ConstantsAssumption` (no thread is in two roles):

| Theorem | Statement |
|---|---|
| `DeviceInvariance` | `Spec => []IInv` |
| `DeviceTypes` | `Spec => []TypeInv` |
| `DeviceHasOneDriver` | `Spec => []OneDriver` |
| `DeviceHasConnection` | `Spec => []LiveChildHasConnection` |
| `DeviceOwnsChild` | `Spec => []ChildOwned`, both of them |
| `RecoveryIsPhysical` | `Spec => []RecoveryStopsMotor` |

A child that was forgotten alive is no reason for concern as long as it does nothing, so what is proved is
that it does nothing: only the child of the handle has a connected plugin or is asked
something (`OneDriver`), although several may live (`OneLiveChild` is false, section 3). `IInv` strengthens it:

* `LockInv`: the lock is held by exactly the thread that is inside a call. Without it two threads
  could both find the handle's process dead and both spawn;
* `DriverInv`: the child that drives the device is alive, and while a child starts up none drives it;
* `ServiceInv`: a worker in service that has a handle has a pipe, and a call in progress has both.
  This is what a kill that leaves a survivor would break if it left the worker in service: the
  handle is kept, the pipe is closed.

The proof rests on lemmas about the ways a call can move the lock (`OutsideStep`, `InsideStep`,
`LeaveStep`) and about what a kill leaves behind (`TerminateLeaves`, `DiscardLeaves`); `SafeStep`
then takes the actions one by one.

The motor needs one invariant more. `AnswerInv`, for `RecoveryIsPhysical`: the call that waits is the
one the child works for, a call that is answered was carried out, and a recovery that was carried out
left the motor at rest; the lock is what keeps a second call from the pipe. A recovery is an
`emergency_stop` of a mount or a `stop()` of a focuser; `stop_jog()` clears the mark without being one
(`StopJogStopsMotor`, section 3). `MotionGuarded` has no theorem: with two threads that move the mount, or two
that stop it, it is false, because the flag is read and written outside the lock, and with one of each it is
what the run `device` checks.

`JobsProofs` proves of the camera jobs, from `JobsAssumption` (a first job exists, the bounds are numbers), for any
number of jobs and failures:

| Theorem | Statement |
|---|---|
| `JobsAreSafe` | `JobsSpec => []JobsSafe` |

Every step of these parties may fail, the roll-back and each of the two deletions included. A pair of files is
then whole but in the cases that the history `broken.pair` records, which the code has no means to repair: the
roll-back fails as well, the temporary name cannot be removed, a deletion stops half-way, or the process dies or
the files are deleted between the two replacements (section 3).

`JobsSafe` is not inductive. `JobsIInv` adds what a step of one party has to know of the others:

* `LateKnown`: a START that goes on without its portal is one whose answer was lost;
* `OpensClean`: a validation opens its camera only when nothing is stranded, and holds a runtime only
  while it runs or closes. This is what `StrandedAlone` rests on;
* `FilesEarlier`: before it publishes, a characterization finds files of earlier ones only;
* `HalfKnown`: between its two replacements it remembers the pair that it found, which was whole unless
  the history says otherwise, and a deletion takes the profile first. Without it a roll-back could restore anything;
* `Unreported`: a process has a success to report only once it has ended.

It proves of the two conditions of a START, from `AuthorityAssumption` and
`PreflightAssumption` (the bounds are numbers, mounts are of RIGs, RIGs are finitely many):

| Theorem | Statement |
|---|---|
| `ClockIsOfThisBoot` | `AuthoritySpec => []ClockOfThisBoot` |
| `PreflightIsSafe` | `PreflightSpec => []PreflightSafe` |
| `AdmissionIsSafe` | `StudySpec => []AdmissionSafe`, both with their types, in the specification of the run |

For the clock, `ClocksRecent` says that no copy in a process is of an earlier boot, while the file
may be: then it holds the synchronization the runtime found at its start, which `Trusted` refuses. For
the hardware, a START knows only what it read earlier. `OwnerFit` says what has passed by the time the
request that holds the lock has come so far; `TokensFit` that a token whose version is the present one is of
hardware that passed with it, as versions only grow; `TokensFresh` that a token in the portal, or on
its way to the runtime, was not used. `AdmissionIsSafe` needs one fact more, `AdmissionApart`: a
step of anything else in `MCJobs` leaves both alone.

And it proves of the profile of a camera, from `RearmAssumption`, `SelectionAssumption` and
`QualificationAssumption` (a ceiling and a step of the search of at least one; some primitives and finitely many
bracket sizes; a recipe that is not empty) and `CacheAssumption` (numbers):

| Theorem | Statement |
|---|---|
| `CalibrationIsSound` | `StudySpec => []CalibrationSound`: what a calibration publishes |
| `CacheIsSafe` | `CacheSpec => []CacheSafe`: what the plugin then knows of its camera |

* *The pause* (`RearmIInv`). `SearchInOrder`: the candidate of the bisection is between a delay below which nothing
  will do and one that was passed; `PassedSustained`: whatever passed is sustained, a guarded delay is never
  below the policy, and each later stage is above what the stage before it asked for; `FailedBelow`: without a
  glitch whatever failed is not sustained, so that the search ends at the shortest delay (`RearmFound`) and not
  merely at a good one. `Forward` and `Back` are a candidate that passed and one that failed.
* *The budgets* (`QualificationIInv`). `RecipeKept`: while the recipe runs its budgets are those of the contract and no
  operation of the attempt has exceeded them; `RaisesCovered`: a budget covers the operations that raised it,
  which is what `RevisionCovers` shows of each revision.
* *The selection* (`SelectionIInv`). `TurnKept`: the primitive in hand passed every bracket before the one in
  hand; `PublishedProven`: only what passed is published, each in its stage; `TimingShared`: one primitive
  passed every bracket of the timing, and they publish no other; `RejectionKept`: a rejection is remembered until
  the session is opened again; `CapturePreferred`: "capture" loses only to a primitive that is more than 50 ms
  faster. Fastest, best pair and common primitive are each a CHOOSE of a least element of a finite set;
  `LeastOfTwo` and `FiniteBound` show that it exists, without which nothing could be said of them.
* *The cache* (`CacheIInv`). `ProbesSee` is where the profile comes in: a side effect that never restores a baseline
  value is one that the probe has recorded, so that a SET makes the plugin forget everything it changes
  (`EffectsKnown`). Then what is known stays right through every SET, preflight and reconnection (`LearntIs`,
  `EnsureIs`, `RecoveredIs`). For the photo the group is followed from its plan to its last SET: `Sifting` says that
  a SET is left out only when its setting is known to be there or an earlier SET of the group puts it there, and
  `GroupSettled` that what is still to be sent leaves every setting of the group right or in doubt
  (`TailSettled`). `ReleaseInOrder` needs that a photo released early is followed by a shutter SET in the
  effective group, which is computed again later from the same knowledge (`EffectiveKept`). `CacheSafe` has
  no hypothesis on how runs begin: an emergency start that skips the preflight is a step like the others. If
  the snapshot it trusts is out of date (`wake = "trusted"`, which `SnapshotTrusted` of section 3 denies), what the
  plugin knows may be wrong for the rest of the run, and the property says so; `Sure` is the part of the
  invariant that separates these runs. What an early release promises holds for every camera; the two
  facts about settings are for those whose side effects the probe sees (`Visible`).

`CalibrationApart` says that the rest of `MCJobs` leaves the calibration alone.

`TriggerServiceProofs` proves, from `ConstantsAssumption` alone (requests are no runs, the bounds are
numbers), hence for any number of requests, runs and faults:

| Theorem | Statement |
|---|---|
| `TriggerTypes` | `Spec => []TypeInv` |
| `CameraHasOneScheduler` | `Spec => []OneScheduler` |
| `CancelledStartNeverRuns` | `Spec => []CancelledNeverRuns` |
| `JournalIsSettled` | `Spec => []JournalSettled` |
| `RigIsFree` | `Spec => []RigFree` |
| `StopTellsTruth` | `Spec => []StopTruthful` |
| `SurvivorIsReachable` | `Spec => [](rig.crossed \/ SurvivorStaysReachable)` |
| `StoppedStaysStopped` | `Spec => [](rig.crossed \/ StoppedRunNotRecovered)` |
| `RigIsReady` | `Spec => [](rig.crossed \/ RigReady)` |

All are theorems of `Spec`, without a hypothesis on what may meet: START, simulation, Totality, override, STOP and
forced STOP come at any step, and any of them may fail. `JournalSettled` and `StopTruthful` have the condition
`~rig.crossed` in their own text, the last three have it here. It is
false only after a start wrote the flags of a RIG whose last run was not settled or left a child, an emergency
start failed under a STOP, or a START raised with its flag set (section 2). The code
tries to prevent the first with `_starting_by_rig` and the poll of the child, and falls short of it between the end
of a child and the publication of its run's end, and between the two looks of an emergency start; what goes wrong
then is listed in section 3. Runs that follow each other, a STOP of the one and then of the other, repetitions,
refused STARTs and recoveries do not cross.

`RigReady` is divided: that no process on the books, no session and no startup flag keeps the next
run out (`RigFree`) holds however runs cross, but for the session that could not be closed and the flag of a START
that raised; that no STOP or cancellation of an earlier run disturbs the next one holds of runs that do not cross.

That two live schedulers never share the camera rests on the lease, and the lease is taken and given
back far from where the child is started and ended. `TriggerIInv` bridges the distance:

* `HoldsSession`: from its first step to its last a run with a camera has the RIG's session;
* `ChildKnown`: a child is alive only between those steps, or is marked as a survivor;
* `HandsFit`, `HandsApart`: an emergency start has a run of its own in hand, with the session from the
  moment it is prepared until a supervisor takes over, and nobody else has that run in hand;
* `RecoversOnce`, `Numbered`, `StartsNumbered`: a recovery belongs to a first attempt, runs are numbered
  as they are admitted.

For the other theorems the steps are split once (`StepKinds`): a *calm* step neither admits, launches,
settles nor concludes a run, accepts no STOP, and is disposed of by the frame that `Calm` states; each of the
others, which `Major` lists, has a lemma that says what it does (`AcceptIs`, `SettleIs`, `FailsIs`, ...).
`UncrossedStep` is the bridge to the history: a step after which nothing has crossed found nothing crossed, and if it
begins a run, every other run finished and no other child alive (`RunsApart`). So an invariant whose lemma
uses `RunsApart` is carried as `rig.crossed \/ ...`. On these rest the invariants, each of which uses the ones before it:

* `LatestWaits` (always): while a start or a cancellation is pending, the latest run is not yet watched;
* `BooksHeld`, `LeaseHeld` (always): a startup without a handle is that of the latest run, on its way to Popen() or to
  its end; the handle is that of a run on its way or of a survivor; an open session is that of a run on its way or in
  the hand of an emergency start;
* `AloneInv`: the run under way is the latest, or the one that the latest is to recover (`Placed`); until its
  child is attached it starts, from then on the books are its own, so that it settles what it began
  (`Owned`, `SettlesOwn`); a finished run's child is dead or on the books (`Resting`, `HandleInUse`);
* `OriginInv`: a run shares its journal id with at most one other, its recovery (`Original`, `OnceRecovered`), which an
  emergency start has in hand (`HandOriginal`); from its settlement to the claim of its recovery a run has no STOP
  accepted for it (`StopNoted`), because the settlement reads the STOP flag under the lock and a later STOP finds
  nothing that runs or starts;
* `JournalRuns`: an active entry is that of the run under way;
* `FlagsHeld`: a cancellation or the mark of a STOP belongs to the latest run, while it is not settled or its child
  survives;
* `StopsJournaled`, `Answered`: how a stopped run is journaled, and for which run a repetition is answered.

`SchedulerProofs` proves, for any contacts, intervals and camera, from `ScheduleAssumption` (windows of
positive duration, which `build_phase_schedule` demands), `TimesAssumption` (numbers) and
`WatchAssumption` (every stage of `DEFAULT_STAGE_TIMEOUTS_S` exceeds the time-out of its call, and
`capture.begin` is at least a capture and the discarding of its token):

| Theorem | Statement |
|---|---|
| `ScheduleIsKept` | `SchedulerSpec => []ScheduleKept` |
| `EmergencyIsAlternating` | `SchedulerSpec => EmergencyAlternates`, an action property |

`SchedulerIInv` adds what each place of the main thread may count on:

* `SlotInWindow`: from the SET to the photo the slot is before the end of the window and the clock past its
  beginning, and after a SET that succeeded the camera has the settings of the phase. That a photo is in its
  window needs one look more, `DeadlinePassed` at the shutter (`FiresInWindow`);
* `PulseBeforeCall`: during a call the watchdog has the time-out of the pulse before it and has waited for
  nothing else, but in `discard` and `ediscard`, which follow a group without a pulse, and in `einit`,
  which follows any stage. These are the three places `WatchdogSparesRun` excepts;
* `SignalsSeen`: after a call was begun under a signal, the loop is on its way to the next look at it, and
  nothing else can begin there;
* `EmergencyKnown`: what the last call of Emergency Totality was, where the next one is decided.

`AlignedSlot` is a minimum over an interval of time; `SlotAligned` shows from the arithmetic of the remainder that a
slot exists for every interval, so that it is one.

`CameraProofs` proves, from `LeaseAssumption` and `SessionAssumption` (the bounds are numbers, RIGs
and bindings are not 0), in the specification of `MCCamera`:

| Theorem | Statement |
|---|---|
| `LeasesAreHonoured` | `Spec => []LeasesHonoured`: one owner per camera, no session without its lease, frozen settings |
| `LeasesAreExclusive` | `Spec => LeasePromise`: `CameraLease` implements `ExclusiveLease` |
| `CapturesAreOwned` | `Spec => []CapturesOwned`: captures, tokens, reservations and the respawned process |

`close_ipc_session` lets go of the lock between its steps, so `LeaseIInv` says what each of them may
count on: `ClosesInOrder` where the session can still be when its close is at a step, `ClosesTheirLease`
that only a shutdown takes the lease away from under a close, and then takes all of them,
`FrozenForLeases` that settings are frozen by a lease that is held, `LeasesApart` that leases do not
overlap. For the refinement a lease that is `open` or `closing` is held, and a camera is bound to what
its worker was started with; every step maps to `Acquire`, `Release`, `Rebind` or a stutter. For
the captures, `OneHand` says that a prepared capture is in the hand of one handler, in the tokens, or
among the abandoned ones, and `HandsKnown` that the process of its generation knows it while it lives;
`ReservationsCounted` that no reservation is given back twice (those that are never given back, see
`ReservationsInFlight`, do no harm here).

`RuntimeProofs` proves, from `RpcAssumption`, `RecoveryAssumption` (there is a boot, RIGs are numbers
from 1 on) and `RelayAssumption` (rings, answers, runtimes and portals are at least one), in the
specification of `MCRuntime`:

| Theorem | Statement |
|---|---|
| `CleanupIsAlone` | `RuntimeSpec => []CleanupAlone` |
| `CallsArePromised` | `RuntimeSpec => CallsKeepPromise`: `RuntimeRpc` implements `RuntimeCall` |
| `RecoveryIsSafe` | `RuntimeSpec => []RecoverySafe` |
| `LostRunsAreShown` | `RuntimeSpec => LostRunsShown`, an action property |
| `RelayIsFaithful` | `RuntimeSpec => []RelayFaithful` |

* *Calls.* `OneExecutes`: of the two connections of a call one at most is inside `dispatch`, and while it
  is there the cache says "running"; `AnswersKnown`: a result that is stored, or on its way, was done;
  `EffectsCounted`: each connection takes effect at most once; `DoorsClosed`: nobody is let in while
  the server ends. The clean-up waits for the active requests, and without `DoorsClosed` a late
  connection could become one after it began.
* *Recovery.* `EntriesTrue`: an entry knows the boot of its run and whether it was resumed; `RunsApart`: no
  run is at two RIGs; `ClaimInOrder`: the claimed entry is of this boot and was not resumed before;
  `EndsInOrder`, `TruthKept`, `LossesShown`: the accounts of the entries the scan has still to look at
  and of those it has passed. `LostRunsShown` is `LossesShown` at the step that opens the runtime, when
  nothing is left to look at.
* *Relay.* `RelayedBehind`: what was relayed is behind the cursor; `MeetsInOrder`: a portal that reads
  again has a runtime before it that it has not met. The lemmas `SelectedRange`, `AdvancedTo` say what
  the answer to a cursor contains, for any size of the ring and of the answer.

`StationProofs` proves, from the assumptions of `MountMotion`, `SlewGesture`, `FocuserMotion`,
`EafSession`, `DeviceRuntime` and `IndiDiscovery` (bounds are numbers; the marks for "nobody" are nobody; finitely many
devices), in the specification of `MCStation`:

| Theorem | Statement |
|---|---|
| `MountsAreSafe` | `StationSpec => []MountsSafe`, for the four kinds of mounts, any number of homes, faults and presses, with slew requests that fail |
| `FocusersAreSafe` | `StationSpec => []FocusersSafe`, for both kinds of focusers, any travel, jogs, EAFs and processes |
| `OwnersAreKnown` | `StationSpec => []OwnersKnown`, for any devices and settings, processes and troubles |
| `DiscoveryIsSafe` | `StationSpec => []DiscoverySafe`, for any drivers and ports (numbers, as the code sorts them), any device at each port, any events and failures; that a published mount stands still is said of those with TELESCOPE_TRACK_STATE |

* *Mount.* `MoverStops`: a mount that moves after its STOP is moved by a home that has not yet looked
  for its cancellation; `OlderMoves`, `EqmodAtPlace`: what a home that ends well can rely on, though an
  older home may still drive the mount; `PortInOrder`: who has the serial port follows from where the
  synchronization is; `TrackingKept`: the flag survives a synchronization. An action `ThreadStep` of
  each home thread has a lemma of its own (`BeginStep` ... `FinishStep`).
* *Gesture.* `MarksWait`: the mark of a release is kept for the press that has still to look;
  `SlewsForStarted`: the mount slews for no gesture that has not begun. A gesture whose last call was answered with an
  error is excepted (section 3).
* *Focuser.* `StopIsAsked`: as long as a focuser is stopped, an INDI jog under way is asked to end;
  `JogIsAsked`: a jog about to begin was asked for after the STOP.
* *EAF.* `CountFits` is `LocksCounted` of one process and focuser, `Acquired` and `Released` are the lemmas
  about the two SDK calls; each step changes the count of one pair and leaves the others (`Only`).
* *Fleet.* The three properties need each other: a new worker is the only owner of its device
  (`OneOwnerPerDevice`) because every process alive is registered or retained (`NoLostOwner`) and a retained
  one refuses a new worker (`LostWorkerBlocks`). `NumbersUnused`: numbers above the counter belong to no
  process, so that a worker of a reconciliation that is rolled back is nobody else's.

* *Discovery.* Three of the four promises are about a whole pass, and `IndiIInv` says what each of its steps
  passes on. `PortsClaimed` and `TargetFits`: a port through which a mount works is claimed unless the mount
  waits for its own reconnection, and what is tried is not claimed and is the port that was learned. `FileBehind`,
  `WhereLearned`: the file knows the same ports as the pass, or none. `Recovering`: in a pass that nothing
  disturbs, a lost mount whose port answers it alone is still on the list with that port free, or works; its
  hard case is the end of a driver's turn without a port left, where `PortsStand` (a port that was tried has
  not answered) says that this port cannot have been tried in vain. `TriedBehind` makes the port tried last the
  greatest one, by which the model names it. `Disturbed` is the one lemma about everything that comes from outside.

`PartsApart` says that a step of one part of the station leaves the others alone; `RuntimeApart` and
`CameraApart` do so for the other two compositions.

Only model-checked:

* all liveness: the provers have neither fairness nor ENABLED;
* `TriggerService!PublishedSettles`: who publishes last depends on two publications outside the lock, and it is
  false with a STOP (section 3, `:2351`); `trigger_overlap` has none, and checks the roll-backs and ends against each other;
* `SupervisedDevice!MotionGuarded`, with one thread that moves and one that stops: false with more of either.

Every other invariant, action property and refinement that a passing run checks is stated by a theorem; where
the theorem names a condition that the property does not (`rig.crossed`), the run shows the property without it for
the requests it lets meet.

## 6. Plan

What the models could still take in: the mixes of real and simulated runs in `TriggerService`; the other sections of the
state store; the reports of a validation; two RIGs that share the camera server in
`CameraSession`.

## 7. Not modelled

* *Exposure planning and astronomy*: floating point, out of TLC's reach. What the models need of
  them (instants of a timeline, an estimate, a limit) is a constant.
* *Statistics of the characterization*, the discovery of gphoto2 settings, and the writing of a
  profile: a measured duration is a small number, a setting a member of a small set.
* *Sony, Nikon and simulated camera plugins, GPS receivers, the INDI server process*: a command
  arrives, fails, or never returns.
* *RIG configuration and device inventory*: documents that are validated and replaced. A
  configuration is a version, where a property depends on it (`CameraLease`, `DeviceRuntime`,
  `HardwarePreflight`).
* *Maintenance, updates, resets*: file operations and external commands; what counts is that they
  exclude a START, which is in `CameraJobs`.
* *The portal's pages and pass-through routes.* A slew gesture's mark lives 15 s, and `SlewGesture`
  takes it that a START does not take longer.
