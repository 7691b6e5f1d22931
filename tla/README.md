# TLA+ verification of the Duet 5 keyboard fixes

The repository makes the Lenovo Duet 5 Bluetooth keyboard usable on FydeOS. Its
runtime part is a set of small programs that share two Upstart jobs, one Floss
daemon and one file: a bridge that forwards the keyboard's reports to UHID, a
watchdog script that starts the bridge and chases native clients away, a filter
preloaded into `btadapterd`, and two scripts that switch between the pogo cover
and Bluetooth. Installers put these, or a patched daemon, in place and roll them
back. Each program is short; what is hard is what happens between them. The
models here are of that.

Paths below are relative to `src/bluetooth-keyboard/`.

## 1. Inventory

| Part | Code | State it keeps | Operations | Talks to |
|---|---|---|---|---|
| Bridge | `runtime/duet5-hogp-bridge.py` (`bridge/` holds the same file) | locals of `main`: candidate addresses and index, `registered`, `connected`, `notification_setup`, `mode_set`, command queue, two times; the UHID device; btclient | start-up, one handler per kind of btclient line, set-up of notifications, touchpad mode, retry, typing a command, poll of btclient, shutdown | btclient by pseudo-terminal, Floss by `gdbus`, the watchdog and the filter by `/tmp/duet5-bridge-client-id` |
| Bridge, direct variant | `bridge/duet5-hogp-bridge-direct.py` | the same without the files | the same, with direct connections | btclient |
| Watchdog | `run-duet5-bridge.sh` | `$bridge`, `$bridge_id`, place in `$IDS` | remove files, start, `kill -0`, read the file, unregister, wait; the trap | the bridge, Floss, the file, Upstart's signals |
| Filter | `patch/duet5-gatt-filter-rpa-hotfix.c`, older `patch/duet5-gatt-filter.c` | none; reads the file at each open | interposed `BTA_GATTC_Open` | every GATT client |
| Mode scripts | `duet5-auto-mode.sh`, `duet5-mode.sh`, `duet-bt`, `duet-pogo` | `$last`, `$mode` | poll, stop and start of two jobs | Upstart |
| Bridge job | `runtime/duet5-hogp-bridge.conf` | up, being stopped, down; the process group | start and stop conditions, SIGTERM, SIGKILL, respawn | the watchdog and the bridges in its group |
| Adapter job | `runtime/btadapterd.conf.duet-runtime-filter` | running, respawns in the interval | respawn with a limit | all GATT clients |
| Live installer | `install-live-bridge.sh`, `uninstall-live-bridge.sh` | backups, two pointers to them, mount state of `/` | save, point, stage, put, restart; check, restore, reload | the file system, Upstart |
| Daemon installers | `install.sh`, `uninstall.sh`, `install-fydeos-floss.sh`, `uninstall-fydeos-floss.sh` | backups in one directory, one pointer each | save, point, stop, replace, start; check, stop, restore, start | the same binary |
| Report map | `patch/duet5-uhid-preload.c`, `patch/0001...`, `patch/0002...`, `descriptors/` | none | repair of a 512-byte map, no native reconnect | UHID, Floss |
| Shortcuts, diagnostics, tests | `install-mode-shortcuts.sh`, `diagnostics/`, `src/tests/` | none | one-shot | |

What makes the parts correct, and what is hard about it:

- **Watchdog and bridge.** The watchdog must never unregister the bridge's own
  GATT client: btclient aborts on it, which is the reconnect loop recorded in
  `AUTO-MODE.md` and `HANDOFF.md`. It learns the id from a file that the bridge
  writes late, removes early, and leaves behind when it is killed. A zombie
  still answers `kill -0`.
- **Filter.** It reads the same file in another process, some time before the
  open takes effect. The bridge itself may be given one of the ids it blocks.
- **Adapter restarts.** All clients and links die with `btadapterd`; the bridge
  is not told, never registers again, and the id in the file names nobody.
- **Bridge.** Callbacks arrive late and from several addresses (each pairing
  brings a new privacy address), the link comes and goes by itself, commands
  wait 0.8 s each in a queue while the connection they were for is lost, and
  the candidate index is moved by three different handlers.
- **Bridge job.** Upstart takes the job for stopped when the script is gone, and
  may start it again while the bridge of the last run is still shutting down;
  the trap of the script cleans up and does not exit; a script that dies alone
  leaves its bridge in no group that anybody signals; and a bridge that calls
  `gdbus` when it should end may be held up for any time.
- **Mode scripts.** Starting `btmanagerd` starts the bridge job by an event,
  also when the script wants it stopped; Ctrl-C stops a script anywhere.
- **Installers.** They replace files of the system in place and must be able to
  put the originals back after a failure half-way, an interruption, a second
  installation, or one by the other pair of scripts.

`PROJECT.json` lists all components with their status and every hazard with the
line where it bites and the properties that watch it.

## 2. Modules

An arrow reads "is extended by", a double one "is implemented by".

```
GattFilter -> BridgeLife -> Watchdog -> WatchdogProps -> AdapterRestart -> WatchdogProofs
                  ||
                  \/
BtClient -> Bridge -> BridgeProps -> DirectBridge -> BridgeProofs -> BridgeRefinement
                                                          \--> BridgeArmed
Service -> ServiceProofs
ModeSwitch -> ModeSwitchProofs
SafeUpdate => LiveInstall -> LiveInstallProofs
          \=> DaemonInstall -> DaemonInstallProofs
```

Each model that is run has a module `MC...` with the values of its constants.

- `GattFilter`: the filter's decision, both generations, as operators.
- `BridgeLife`: the abstract lifecycle of a bridge process. It is what the
  watchdog and the filter can see: started, registered with Floss, published,
  shutting down, dead (a zombie or collected).
- `Watchdog`: the script, one action per command, composed with `BridgeLife`,
  with native clients that register again and again, and with the filter as two
  steps (read the file; take effect). `WatchdogProps` states its properties.
- `AdapterRestart`: the same composition with an adapter daemon that dies at any
  point, comes back until its respawn limit, and forgets every client.
- `BtClient` (external): what the bridge relies on of btclient, Floss and the
  keyboard. Lines and commands are records.
- `Bridge`: the main loop, one action per handler and per step of the tail of
  the loop. `BridgeProps` states its properties and the refinement of
  `BridgeLife`.
- `DirectBridge`: the direct variant as the two handlers that differ and the
  other kind of connection; `EitherSpec` is a run of either program, and what is
  checked and proved of the bridge is checked and proved of both.
- `Service`: the job of the bridge under Upstart, in discrete time: several
  bridges at once, signals, the trap, the kill timeout, respawn, orphans.
- `ModeSwitch`: both mode scripts against Upstart.
- `SafeUpdate`: the abstract specification of an installer: the file changes
  only while a rollback would restore the original, and what a rollback restores
  changes only while the original is in place.
- `LiveInstall`, `DaemonInstall`: the installers, one action per command, with
  the failure of any of them (in `LiveInstall` signals and the mount as well).

Operators named in a comment as "Mutant" are wrong variants of the definition
that follows. Nothing uses them: they are substituted for that definition to see
that the property they belong to fails.

How the models read against the code:

| Model | Code |
|---|---|
| `Watchdog!sh` | the command of `run-duet5-bridge.sh` that runs next; `seen` is `$bridge_id`, `pos` the place in `$IDS` |
| `BridgeLife!idFile` | contents of `/tmp/duet5-bridge-client-id`; the rename in `write_runtime_file` makes publication one step |
| `Reaped` | a shell collects a dead child when it next runs a foreground command (`rm`, `cat`, `gdbus`, `sleep`) |
| `AdapterRestart!daemon`, `respawns` | `btadapterd`: up, down, given up; its respawns in the current ten seconds |
| `Bridge!pc` | the place in `main`; `line` once for each line of the batch that `client.lines()` returned |
| `cooldown`, `retryDue` | `now < next_command_at`, `now - last_connect_try > 6` |
| `connected`, `setup`, `modeSet`, `queue` | `connected`, `notification_setup`, `mode_set`, `command_queue` |
| `DirectBridge!direct` | which of the two programs runs |
| `Service!sh`, `cur` | where the script is (its inner loop is `work` and `sleep`), `$bridge` |
| `Service!br` | the bridge processes: state, ticks left of it, UHID device bound, SIGTERM received, in the script's process group; `calling` is a last round that waits for `gdbus` |
| `Service!file`, `killIn` | the bridge that wrote the id file; ticks until SIGKILL |
| `Service!mortal` | which processes die by themselves in this behaviour |
| `ModeSwitch!started` | the event `started btmanagerd`, emitted and not handled yet |
| `ModeSwitch!used` | which of the scripts the user runs in this behaviour |
| `pos` and `Steps` of the installers | the next command of the script that runs; `At(step)` |
| `saved`, `jobSaved`, `ptr`, `jobPtr` | the backups by time stamp, the `*current-backup` files; `Empty` is a pointer cut short |
| `staged` | the bridge, the descriptor and the libraries in the state directory: none yet, whole, or torn by a `cp` that failed |
| `wasRo`, `mnt` | `$was_ro`; how the root is mounted |
| `again` | whether, in this behaviour, an installer is ever run on what an earlier one has changed |

`used`, `mortal` and `again` never change in a behaviour. They let one run check
what holds always next to what holds under a condition; the condition is part of
the property.

## 3. Runs

| Run | Shows | Bounds |
|---|---|---|
| `watchdog_safety` | the script spares the bridge's client (`OwnClientKept`), the file names this bridge, the filter lets it open, natives are left alone before there is a bridge to protect | ids 7, 43, 45; natives use 43 and 45; the bridge may get any |
| `adapter_restart` | with the daemon dying anywhere: the file still names the bridge, the client is lost with the daemon only, a dead bridge is started again, and while a bridge stays published natives are out for good, except one that was given the published id (`restart_hijack`) | ids 43, 45 for everybody; one respawn an interval |
| `bridge_safety` | both variants: beliefs match the link (`ArmedWhenQuiet`), no report lost, index aligned, queue bounded, one registration, refinement of `BridgeLife` | two addresses, two handles, a backlog of 2 unsolicited lines; with and without `--address` |
| `bridge_live` | both variants: a link is armed in the end, retries go on, a stop ends the process | one or two addresses bonded, one handle, backlog 1 |
| `mode_switch` | the automatic script alone follows the cover; the manual one beside it does not make it leave Floss stopped | only the automatic one is interrupted |
| `service` | one bridge forwards at a time, no predecessor but one held up by `gdbus` takes the file of a published bridge, one bridge in the group, a job that stays stopped leaves none running | two bridges; tick 0.5 s |
| `live_install` | the original stays recoverable, rollbacks are complete, libraries come before the line that names them, an installation that reports success has done all of it, refinement of `SafeUpdate` | three installations, any number of rollbacks, all kinds of root |
| `daemon_install` | a rollback by either pair restores, a script that ends well leaves a daemon running, refinement of `SafeUpdate` | three installations, any number of rollbacks |
| `restart_hijack` | finding: after a restart a native may hold the published id and keep the keyboard | one id |
| `bridge_late_bond` | finding: a keyboard paired later is not found | one address |
| `bridge_candidates` | finding: of two candidates one is never tried | two addresses, both bonded |
| `mode_manual_pogo` | finding: `duet5-mode.sh pogo` leaves the bridge running | the manual script |

Why the bounds are enough. The list of the watchdog is the one of the script; the
ids given to clients cover "in the list", "in the list and next to the bridge's"
and "outside the list". One respawn in an interval is enough to meet a daemon
that comes back, one that gives up, and, as the interval ends, any number of
restarts. Two handles distinguish a half-armed link from an armed one, two
addresses are what index and rotation need, and a backlog of two unsolicited
lines, next to a batch of two or more that is being handled, holds a loss, a
reconnection and a report behind each other (the proofs are for any). The queue,
the candidates and the lines of one batch are not bounded: that they stay small
is a result (`QueueBound`, `OneRegistration`). Two bridges are the one of the
running job and the one of the last; a script that finds both places taken waits.
Three installations give a pointer of the first, a failed second and a third
over it. `MaxOut`, `MaxBridges`, `RespawnLimit` and `MaxInstalls` are the only
bounds.

The times of `Service` in ticks of half a second: `sleep 2` of the script and
`time.sleep(2)` of the bridge are at least 4; the 0.8 s between two commands at
least 1; the round of the bridge's loop in which SIGTERM arrives at most 1, up to
its `gdbus` call if it makes one, which has no limit (`Call`); the shutdown
(0.5 s, then `quit` with at most 3 s) at most 7; the kill timeout of Upstart 10.
Least times are rounded down and most times up, so that the model has more
orders than the code. Nothing else is timed. Of these values the proofs use only
`TimingAssumption`: a round that got SIGTERM comes to its end, or to its `gdbus`
call, in less than the 2 s in which a new bridge settles (the loop waits 0.2 s
for input), and a registration is not answered before the first command was due.

`CHECK_DEADLOCK FALSE` stands where a bridge process ends, and with it the run.

### Fairness

- Watchdog with restarts: the script is scheduled, whether the daemon is there or
  not; an open that was made returns; `gdbus` does not fail for ever on the same
  id while it is called again and again (strong fairness of `UnregisterOther`; a
  failing `gdbus` is the action `UnregisterFails`); Upstart respawns. Nothing is
  assumed of the bridge: it may hang or die.
- Bridge: the interpreter is scheduled, time passes, Floss answers a
  registration. The keyboard, the callbacks, signals and failures are unfair.
- Service: time passes, the script runs, Floss answers a registration, a bridge
  that got SIGTERM or is closing goes on, Upstart sends its SIGKILL. That a bridge
  comes back from `gdbus` in the end is the time limit of D-Bus itself on a call
  that is not answered. Starting and stopping the job and deaths are unfair.
- Mode scripts: a script that runs goes on, Upstart handles its event. The five
  seconds a script sleeps are taken to be longer than that takes (guard
  `~started` of the last step). The user need not start a script again.
- Installers: none; all that is claimed of them is safety.

### Findings

1. `runtime/duet5-hogp-bridge.py:194`, `:220`: the registration is queued at the
   start or for the first device line and never again, so the bridge does not
   register anew after a restart of `btadapterd` (`if not registered` at line 227
   would ignore a second answer, but nobody asks). The published id belongs to
   nobody then and may be given to a native client, which the filter lets open
   the keyboard and the watchdog spares; `AUTO-MODE.md:25` says the filter blocks
   competing native clients. The trace needs no failure but the restart.
2. `runtime/duet5-hogp-bridge.py:196` asks for the bonded keyboards once;
   `README.md:92` says to pair after the service is running. The model lets
   btclient print device lines only in answer to `list bonded`, as the bridge
   uses it.
3. `runtime/duet5-hogp-bridge.py:257` and `:320` both advance the candidate. With
   two bonded addresses and attempts that are answered by a failure, every
   attempt goes to the same address. Attempts that are not answered at all do
   rotate.
4. `duet5-mode.sh:35` reports that the bridge remains stopped; it was started by
   the job's start condition, which `duet5-auto-mode.sh:24` knows about.

### Limits the properties carry as conditions

Where the code promises nothing and the model shows what happens, a property
names the condition it needs:

- The hotfix filter blocks the known native ids for every device while an id is
  published (`patch/duet5-gatt-filter-rpa-hotfix.c:63`), not for the keyboard
  only. `NativesEventuallyOut` needs them blocked whatever address they use.
- `NativesEventuallyOut` exempts the native that holds the published id: that is
  finding 1.
- A second installation over changed files (`again`) saves what the first has
  changed and points to that (`install-live-bridge.sh:22`); a rollback restores
  it. The original is still on disk, under its stamp (`OriginalOnDisk`). It also
  copies the libraries in place over those that are in use: a `cp` that fails
  leaves them torn under a configuration that names them. `PreloadStaged` claims
  only that they were put there once in that case.
- What a rollback restores of the job is claimed after an installation that ended
  well (`last = "ok"` in `RollbackComplete`). Without a pointer to a backup the
  rollback removes the job (`uninstall-live-bridge.sh:30`), also one that was
  there before an installation that failed before it came to it.
- The remount of the trap is guarded by `|| true`: it may fail, and `*ro*` in
  `install-live-bridge.sh:13` matches `errors=remount-ro` too. So nothing is
  claimed of the mount at the end of a script; the model has both, and
  `InstallComplete` says what a root that is read-only too early must not do.
- `install.sh` that fails between stopping and starting Floss leaves it stopped
  (`ended` in `EndsRunning`); no property speaks of such a run.
- When the script dies alone, its bridge is an orphan next to the one of the
  respawned script, and no stop of the job reaches it (`ScriptLasts`).
  `OneOwnBridge` holds even then, but speaks of the group only.
- The round in which SIGTERM arrives may still start `gdbus`, which the signal to
  the group came too early for, and waits for it without a timeout
  (`runtime/duet5-hogp-bridge.py:302`). The job counts as stopped when the script
  is gone and may be started again, and the old bridge then unlinks (line 333)
  the id file of the new one, which nobody writes again; without it the watchdog
  unregisters no native. `OnlyACallTakesFile` names that step as the only
  exception.
- The device is found by its name (`runtime/duet5-hogp-bridge.py:188`) and may be
  that of a predecessor that is still closing: a bridge whose own device was not
  bound then goes on (`Settled`). Nothing is claimed of it.
- `Watchdog` has one bridge at a time. One of an earlier job that is still in its
  last round, which would unlink the file under the next, is in `Service` only.
- Releasing the GATT client of a bridge that ends is left to btclient:
  `BridgeLife` lets it keep the client until btclient is gone.
- The automatic script compares with the mode it last set, so it does not undo
  what the manual one changed (`used` in `AutoSettled` and `AutoFollows`). For the
  same reason it does not repair a Floss that an interrupted manual script left
  stopped: only the automatic one is interrupted in the runs (`Interruptible`).
- A job killed with SIGKILL may leave the id file; the next run of the script
  removes it first (`FileNamesBridge`).

## 4. Proofs

All theorems hold for every value of the constants that the named assumptions
allow. `ClientIdsAssumption`, `NativeIdsAssumption`, `RespawnAssumption`,
`BtAssumption`, `GivenAssumption`, `ServiceAssumption`, `ScriptsAssumption`,
`InstallAssumption` and `DaemonAssumption` say what the constants are sets or
numbers of; only `TimingAssumption` (section 3) relates two of them.

- **`WatchdogProofs`**: `TypeCorrect`, `FileIsOurs`, `OwnClientIsKept`,
  `BridgeIsNotBlocked`, `NativesAreSpared`, and `HotfixStopsNoLess` (the hotfix
  filter blocks all that its predecessor did). `OwnClientKept` alone is not
  inductive. That the loop spares the right id rests on `LoopSparesOwn` (the id
  read at its head is the bridge's until it ends), that on `FileNamesBridge` at
  the moment of reading and on `LookHasBridge` (there is a bridge to read the id
  of), and those on `BetweenBridges`: while the script is between two bridges
  nothing runs and the file is gone before the next starts. `WatchInv` is the
  conjunction; `NoChildNoId` and `HeldIsRunning` tie the id to btclient.
  Under restarts of the daemon: `RestartInvariant` (`RestartInv`) and
  `ClientLostWithDaemon` (`LostOnlyWithDaemon`). A restart breaks
  `OwnClientKept`; what is left of `WatchInv` is `Survives`, and it is inductive
  because nothing in it speaks of what Floss holds. Next to it stands that a
  daemon that is down holds nothing.
- **`BridgeProofs`**, for both variants and any number of addresses, handles and
  ids: `OneCandidate` (`IndexAligned`), `QueueStaysShort` (`QueueBound`),
  `RegistersOnce` (`OneRegistration`). `TalkInv` types what is exchanged with
  btclient, `CandidateInv` says that address and index agree whenever there is a
  candidate, and `RegInv` distinguishes the time before the registration was
  answered, when the queue holds at most the list and the one registration, and
  nothing is connected, from the time after, when no `register` is left in it.
- **`BridgeRefinement`**: `BridgeIsALife`, the bridge implements `BridgeLife`.
  `LifeInv` adds that every successful answer to a registration that is still to
  be read carries the id of the client, and that the file is empty before it and
  on the way out. `PhaseFacts` gives the phase for each place of `main`; then
  each action is one move of the lifecycle or none (`NoMove`).
- **`BridgeArmed`**: `TypeCorrect`, `NoReportIsLost` (`NoReportLost`) and
  `QuietIsArmed` (`ArmedWhenQuiet`), for both variants, again for any number of
  addresses, handles and ids. What the bridge knows lags behind Floss by the lines
  it has not handled (`Stream`: the rest of the batch, then what is printed). Of
  one state this says little; `ToldInv` replays the lines: `Told(Stream, Current,
  e)` says that handled in order, from the address the bridge takes itself to be
  connected to, they lead to `e`, and that each report is of the address known
  just before it; while btclient runs, `e` is the link that exists. A handler
  takes the first line and moves `Current` as the replay says (`ToldTail`); Floss
  appends a line and moves the link the same way (`ToldAppend`). The replay needs
  that what comes up is a candidate (`KnownInv`: only candidates are connected,
  and none is ever removed). `ArmInv` ties the queue to the link: once a link is
  set up and no later one is on its way through the lines (`Steady`), every handle
  is enabled or still queued for the address. With nothing to read the replay is
  empty, so that `Current` is the link; with nothing to type every handle is
  enabled. That a link must be `Steady` is why the flags have to be cleared by
  each connection line and why set-up has to wait for an empty queue.
- **`ServiceProofs`**, for any number of bridges: `StopReachesAll`
  (`OneOwnBridge`), `TypeCorrect`, `OneForwards` (`OneForwarder`) and `FileIsKept`
  (`OnlyACallTakesFile`). `OwnInv`: a bridge in the group is `$bridge`, and the script is in
  its inner loop. The last two rest on times, of which `TimingAssumption` is all
  that is used. `LoopInv`: a bridge outside the group has its SIGTERM and leaves
  its loop within `Grace`, to close or to wait for `gdbus`, and that is over before
  a younger one has settled. `FileInv`: a predecessor that was still settling when
  it got its SIGTERM unlinks the file when it has settled, not later than the
  bridge of the running job does, and so before that one registers and publishes.
  What is left next to a published bridge is closing, or waits for `gdbus`, and
  the unlink of the latter is the exception in the property.
- **`ModeSwitchProofs`**: `TypeCorrect`, `AutoIsSettled`. `Alone` says, for each
  place of the automatic script when only it is used, what it relies on of the
  two jobs and of the pending event.
- **`LiveInstallProofs`**: `TypeCorrect`, `OriginalIsRecoverable`, `OriginalStays`
  and `InstallerIsSafe` (refinement of `SafeUpdate`). `Places` turns `At(step)`
  into numbers; `BackupInv` says that a pointer that is followed leads to a backup; `ConfInv`
  that the configuration is untouched before step 5, when its copy is saved and
  pointed to, and that every pointer leads to a copy of the original; `StampInv`,
  for repeated installations, that the stamp of a new one is unused, so that a
  backup of the original is never written again. `FilterIsStaged`
  (`PreloadStaged`), from `StagedInv` (a copy of a changed configuration was made
  when the libraries were there, and nothing removes them) and `DoneInv`: what an
  installation of an untouched system has done by each of its places, where a
  write that a read-only root refuses goes no further. `InstallIsComplete`
  (`InstallComplete`) reads `DoneInv` at the last place. `RollbackIsComplete` (`RollbackComplete`), from `RollbackInv`: from the
  step on that records the copy of the job, or that there was none, a rollback
  finds it, and a failed installation in between does not change what it finds.
- **`DaemonInstallProofs`**: `TypeCorrect`, `RollbackIsComplete`, `OriginalStays`,
  `InstallersAreSafe`, along the same lines with `OrigInv`. Both pairs of scripts
  are in one invariant: a pointer of either leads to a copy of the original.
  `DaemonIsLeftRunning` (`EndsRunning`), from `RunInv`: past the start the daemon
  runs on what the step before it put in place, and only the next script stops it.

Every invariant, refinement and action property of the passing runs is a theorem.
Only model-checked is the liveness (`Relaunched`, `NativesEventuallyOut`,
`EventuallyArmed`, `KeepsTrying`, `StopEnds`, `AutoFollows`, `FlossReturns`,
`StopStopsBridge`): it holds under fairness, and reasoning about that and ENABLED
is beyond the prover.

## 5. Not modelled

- `/tmp/duet5-active-address`: written and unlinked next to the id file and read
  by no program of the repository.
- The UHID device, the bytes of reports, counters, warnings and logging.
- The mount handling and the signals of the daemon installers: the mount is
  handled as by the live installer, where both are modelled.
- The refusals of an internal root and the checks of the environment at the
  beginning of the installers: they end the script before it has done anything.
- The mode shortcuts (two files copied under names of their own, nothing
  replaced), the UHID preload shim (one comparison and one copy of constant
  bytes), the patches to Floss (a program that is not in the repository), the
  descriptors and the parser test (data and one straight line).
- What Floss does with an id after a restart is unknown: `AdapterRestart` lets it
  give any id to anyone.

## 6. Plan

Done: the watchdog with the filter and the lifecycle, the bridge in both variants
and its refinement, the mode scripts, the two jobs, the installers, and proofs of
the safety of each. Left, in this order:

1. The safety half of the liveness properties as theorems: for `EventuallyArmed`
   that no step but a loss of the link takes away what has been armed, for
   `StopEnds` that a stop is never forgotten and the way out never turned back.
2. The lifecycle of the watchdog's composition against the bridge's own: `Life`
   assumes less of Floss than `BtClient` does, and a theorem that carries
   `OwnClientKept` over to a watchdog with the detailed bridge would say so.
3. `Service` composed with `ModeSwitch`, so that a switch of modes and the slow
   end of a bridge meet; both are checked alone because their product is large.
