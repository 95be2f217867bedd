# Formal verification of the Cortetsu platform

TLA+ models of the parts of Cortetsu that change durable state: the
transactions that select generations, the collector that deletes them, the
owner of do-not-disturb, the coordinator that changes it on behalf of the
user, and the agent realms: the life of a sandboxed session, its observer and
its simulated services. Every module is translated from the source under `src/`; `PROJECT.json`
maps each definition to the lines it stands for, lists the runs, the mutants,
the hazards and the theorems.

1. [Inventory](#1-inventory)
2. [Plan](#2-plan)
3. [Modules and the code](#3-modules-and-the-code)
4. [Runs](#4-runs)
5. [Proofs](#5-proofs)
6. [Disagreements and known limits](#6-disagreements-and-known-limits)
7. [Not modelled](#7-not-modelled)

To repeat the checks, in this directory:

    tlc -workers 2 -config MCRescueTransaction.cfg MCRescueTransaction
    tlapm RescueProofs.tla

and likewise for the other configurations and the other seven `*Proofs.tla`.
Deadlock is checked except where a `.cfg` says `CHECK_DEADLOCK FALSE`.

## 1. Inventory

Cortetsu is a desktop: a QML shell, Rust helpers, Go coordinators and the
scripts that install them, with a Python package for agent realms. The QML side
renders; the state that must survive crashes and concurrent callers is in the
Rust crates, the Go module and the Python package below.

### Generations (Rust, shell scripts)

| part | state | operations | correct when |
|---|---|---|---|
| rescue transaction, `cortetsu/rescue/src/transaction.rs`, `lib.rs` | eight links `{system,shell,dotfiles,helpers}/{current,previous}`, `rescue-transaction-v1.json`, `install.lock`, `system.lock` | `rollback [--acknowledge]`, `recover` | layers are never selected from different systems without a journal that can undo it; a committed rollback stays; recovery ends |
| installation, `platform-rs/src/install.rs`, `scripts/install-cortetsu.sh`, `scripts/cortetsu`, `bin/build-runtime.sh` | `install-journal.json`, `install.lock`, staged shell and helpers | stage, begin, activate, commit, recover, the script's EXIT trap, standalone build | nobody else moves a link while it is pending; recovery restores what begin saved; a commit keeps a working way back |
| dotfiles, `platform-rs/src/dotfiles.rs` | `dotfiles/apply-journal.json`, `dotfiles.lock`, two links | apply, recover, rollback | a selection changes in one step or not at all |
| system promotion, `platform-rs/src/system.rs` | `system/promotion-journal.json`, `system.lock`, two links | promote, recover, rollback | the active SYSTEM.json names what is selected; undo returns to the links before |
| garbage collector, `platform-rs/src/gc.rs` | generations on disk, the plan and its id, pins | dry run, `--apply <id>` | no link dangles, every rollback that was possible stays possible, only what was shown is deleted |
| helper bundles, `rescue/src/helper_bundle.rs` | one immutable directory per generation | stage | content agrees with its manifest |
| idempotency ledger, `rescue/src/idempotency.rs` | one record per key | prepare, verify, replay | one key, one effect |

They meet on the eight links, on the locks, and through journals that each
command reads before it starts (`check_mutation`, `reject_pending_*`). One
installation runs the others as child processes that carry its token.

### Do-not-disturb, its owner and its automation (Rust, Go)

| part | state | operations | correct when |
|---|---|---|---|
| DND owner, `notification-helper/src/owner.rs`, `lib.rs` | `notification-status.json`, `dnd-observed.json`, `dnd-journal.json`, `dnd-requests/<key>.json`, `notifications-rs.lock` | snapshot, set, manual, ensure, recover | a revision names one state; a key acts once; the user's choice outlasts automation |
| notification history, same crate and `services/Notifs.qml` | the history file, the clear marker, batches of the shell | merge, clear, dismiss | what was cleared does not return, nothing else is lost |
| policy runner and engine, `protocol/coordinator/runner.go`, `protocol/policy/engine.go`, `activation/store.go`, `policyaudit/ledger.go`, `execclient/client.go` | `activation.json`, the ledger, stability and cooldown per rule, the owner's processes | Handle an event; grant, withdraw, pause | nothing is asked without consent and a durable INTENT; the ledger does not claim what was not done |
| coordinator daemon, `protocol/daemon/daemon.go`, `observehypr`, `activation/watch.go` | connection and epoch, queue of events, timers | observe, enqueue, judge, expire, restart | do-not-disturb follows the focused window once things settle |
| IPC listener, `protocol/daemon/session.go`, `ipcv1` | sessions of local clients | snapshot, subscribe | a client sees epochs in order |

### Other owners and helpers

| part | state | operations |
|---|---|---|
| hardware owner, `hardware-runtime-rs/src/owner.rs`, `hardware.rs` | revision, ledger and manual override of three domains | snapshot, apply, manual |
| game mode, `gamemode.rs` | compositor options and their journal | enable, disable, recover |
| power watcher, `power.rs` | last battery state, override | one iteration per poll |
| display, `display.rs`, `display-presets-rs` | preview, confirmation deadline, presets | preview, confirm, revert |
| pomodoro, prompter, recorder, share picker, `desktop-runtime-rs/src/` | one state file or one process each | start, stop, expire, answer |
| keyboards, `keyboards/src/store.rs`, `editor.rs` | source and compiled keybinds, snapshots | edit, commit, restore |
| prune-applications, imports, migrations, theme, doctor | files of the user | one-shot conversions, read-only checks |

### Agent realms (Python, `agent-realms/src/cortetsu_agent_realms/`)

| part | state | operations | correct when |
|---|---|---|---|
| lifecycle, `runtime.py`, `process.py` | `session.json`, `apps/<pid>.json`, `.lifecycle.lock`, the realm's systemd scopes | start, run, stop, stop-app, pause, resume, recover | no two sessions overlap; what is declared over is gone; the freezer is as stated; a realm can always be cleared |
| observer, `observer.py`, `auth.py` | `.lock`, the control socket, launch files, tickets and sessions in memory | serve, launch, revoke, stop, redeem, frame, the watchdog | one serves; what is revoked stays so; it ends with its session and for idleness under nobody |
| simulation daemon, `simulation/daemon.py`, `network.py`, `audio.py`, `scenario.py`, `dbus.py` | the simulated state, timers, objects on a private bus, the private PipeWire | D-Bus calls, Apply, Set, Event, Reset | the bus shows the state; overlapping requests end as the last one asked; it comes to rest |
| sessions of agents, `agent.py`, `mcp_server.py` | none of their own | start or reuse, stop at the end | an agent never loses the session of another |
| supervisor, input, capture | processes inside the realm | start in order, wait | the compositor answers when its record says so |

The lifecycle commands are short-lived and meet on `.lifecycle.lock` and on what
systemd says; `stop` tells the observer, which otherwise finds out by the
identity of the session; the simulation daemon is an app of the realm.

### What is hard

- **Crashes between two durable writes.** Eight renames make one rollback; an
  installation nests two journals inside a third.
- **Interleaving.** Locks are per command family; commands of different
  families run side by side and only look at each other's journals.
- **Retries and timeouts.** The coordinator kills an owner's process at its
  deadline, not knowing whether it acted, and automation retries by key.
- **Stale reads.** Observations are taken before they are queued; the plan of a
  collection is approved before it runs; revisions are read before they are used.
- **Two truths.** What a realm runs is known to systemd and to its own records;
  either may be behind the other, or damaged.
- **Callbacks.** Timers and idle callbacks act on a state that was replaced
  since they were set; signal handlers run inside whatever they interrupt.
- **Progress.** An undo that fails half-way must leave something a later undo
  can finish; a stabilising rule must be looked at again.

`PROJECT.json` lists these at their lines under `hazards`.

## 2. Plan

Order: what could lose the user's system first, then what changes state without
being asked.

1. `GenerationStore`, `RescueTransaction`, `AtomicRollback`, `RescueProofs`: done
2. `PlatformState`, `DotfilesApply`, `SystemPromotion`, `InstallTransaction`,
   `DotfilesSelection`, `InstallProofs`: done
3. `GenerationGC` over `RescueTransaction`, `GCProofs`: done
4. `DndOwner`, `DndProofs`: done
5. `PolicyRunner` and, over it, `Coordinator`, `PolicyProofs`: done for the
   do-not-disturb rules
6. Agent realms: `RealmSession` and `RealmLifecycle`, `RealmObserver`,
   `RealmSimulator`, each of the last three with its proofs: done for the Wi-Fi
   device and PipeWire of the simulation; Bluetooth's delayed reveal has the
   shape of the activation timers and would come next
7. `HardwareOwner` with the power watcher as a client, then `GameMode`: next
8. `NotificationHistory`: the shell's batches against clear and dismissal
9. Rescue and installation composed: `begin()` does not look at the rescue journal
10. `KeybindStore`, `IdempotencyLedger`, `DisplayTransaction`, `Pomodoro`,
   `Prompter`, `IpcSession`, `PolicyObserver`

Compositions: `InstallTransaction` EXTENDS `DotfilesApply` and
`SystemPromotion`, which share `PlatformState` and `GenerationStore`;
`GenerationGC` EXTENDS `RescueTransaction`; `Coordinator` EXTENDS
`PolicyRunner`. `DndOwner` is the detail of the one step that the owner takes
in `PolicyRunner`.

Abstract specifications: `AtomicRollback`, implemented by `RescueTransaction`;
`DotfilesSelection`, implemented by the applies of `InstallTransaction`;
`RealmSession`, implemented by `RealmLifecycle`.

Theorems: every safety property, action property and refinement that a passing
run checks is proved (section 5). Next are those of the modules to come, and
two compositions: that `DndOwner` implements the one step the owner takes in
`PolicyRunner`, whose theorems hold in the daemon already
(`CoordinatorIsARunner`), and that a rollback of the rescue transaction and an
installation, each proved alone, keep each other out.

## 3. Modules and the code

**GenerationStore.** A generation is `intact`, `damaged` or `absent`; a digest
in the code distinguishes no more. A snapshot of pointers is a function on the
eight `Link`s. `Coherent`, `PlanRollback`, `Validate` and `RollbackTarget` are
the functions of `lib.rs` and `transaction.rs` they are named for; `Manifest`,
a constant, is what SYSTEM.json of each system says, schema 1 having no helpers.

**RescueTransaction.** One process of `Proc` is one invocation. `RollbackPlan`,
`Store`, `ApplyTarget`, `Verify`, `RemoveJournal`, `RecoverLoad`,
`VerifyCommitted`, `RestoreCheck`, `ApplyBefore`, `RestoreVerify` and
`RestoreFailed` are the calls of `execute()`, `recover()` and `restore()`, one
per durable effect; `step` counts the links of `ApplyOrder` already written. A
pointer write may fail (`PointerFails`), and then the code runs the undo at
once. A failed `store()` or `remove_journal()` returns and leaves the journal,
as a `Crash` does. `pending` is the set of platform journals that make rollback
refuse without `--acknowledge`. Damage and repair of generations come from
outside.

**AtomicRollback.** The rollback without links, journal, locks or crashes.

**PlatformState.** What the commands of `cortetsu-platform` share: links, three
journals, three locks, `check_mutation`, and `Program`, the subcommands each
command line runs in order. `fresh` are the ids `unique()` has not given out;
when they run out, a build fails as a full disk makes it fail.

**DotfilesApply, SystemPromotion, InstallTransaction.** One action per durable
effect and per refusal of `apply`, `recover_apply_locked`, `rollback`,
`promote`, `recover`, `begin`, `activate`, `commit` and `restore_snapshots`.
`StepFails` is any I/O error at the current step and runs the error path of the
command: for the installer, the EXIT trap with its recover. `BuildPrevious`
and `BuildCurrent` are `build-runtime.sh` run by hand, under `build.lock` only.
Launchers, themes, configuration and the adopted target files go through the
same snapshot and restore loops as the links; the models keep the links.
`validate_shell()` (`system.rs:20`) looks at the presence of three files and at
a schema only, so of a damaged shell it may say either: `BeginAllowed` and
`Activate` accept one, `BeginRefused` and `ActivateRefused` may refuse it, and
`ShellsKept` is what `activate()` may then keep as previous. Helpers and sealed
systems are verified in full.

**DotfilesSelection.** The pair of current and previous dotfiles: a new
generation is selected, and the one it replaces becomes previous, in one step.

**GenerationGC.** `PlanOf` is the plan `build()` computes (links, retained
systems with the legacy proof a checkpoint needs, newest others); its id is the
plan itself, which is what the digest in the code stands for. `DryRun` shows
one, `ApplyPlan` compares under the locks, `Recheck` compares again, `Delete`
removes one generation in the code's order, `DeleteInterrupted` stops half-way
and leaves a damaged directory. A plan may or may not accept a damaged shell, for
`build()` calls `validate_shell()` too. The other steps are those of the rescue
transaction, on the same links.

**DndOwner.** `op` is the one command that holds `notifications-rs.lock`. The
four files are `status`, `anchor`, `journal` and `receipt`. Each durable write
is an action: recovery of what an earlier command left (`RecoverCheck`,
`Restore`, `Abort`, `DropJournal`), observation of outside edits (`Observe`,
`NoteStatus`, `NoteAnchor`), and the change (`Prepare`, `Write`, `Verify`,
`WriteAnchor`, `DropOwnJournal`, `ForgetReceipt`). A crash comes between any
two. `told`, `acted` and `choice` are history: what a command last printed, the
keys that changed the file, and the user's last choice with its pause.

**PolicyRunner.** `Handle` to `Record` are `Handle()` of `runner.go` in its
order: activation file, owner's snapshot, engine, the second read of the
activation file, INTENT, the request, the read-back, the outcome. `engine` is
`stableSince` and `lastSelection`. `child` are the owner's processes: each acts
or refuses by revision, its reply may be lost at the deadline, and it may
survive its coordinator. `late` counts changes a session made after its consent
ended; `disturbed` the last time something else was observed.

**Coordinator.** The goroutines of `Serve()`: the observer with its connection
and epoch (`Connect`, `Drop`, `TakeLine`), the watch of the activation file
(`TakeChange`), the timer's goroutine (`Fire`), each reading the compositor
before it sends (`Read`, `Send`) to the bounded queue; `Receive` and `Judge`
are the loop. Unread lines of the socket beyond a resync are one line, as every
event carries a fresh read. Only one expired timer is on its way at a time.

**RealmSession.** What a client of a realm sees without a lock: `session.json`
and whether the session's scope is up.

**RealmLifecycle.** `op` is the command that holds `.lifecycle.lock`, `at` where
it is; one action per durable effect: a write of `session.json` or of an app
record, a start of `systemd-run`, a call of `systemctl` for one scope. `Collect`,
`StopUnit` and `Unlink` are `cleanup_groups()`, which stop, recover and a failed
start share; `TransitionUnit`, `TransitionSave`, `RollBack`, `Restore` and
`RestoreError` are `_transition_scopes()`. `StartReady` is the write of
`_readiness()` that shows the session as running and `StartSave` the second one
of `start()`; whichever fails, the handler of `start()` takes the compositor
down (`StartFails`), so that clients may see a running session end as
`cleanup_failed`. `waiting` are the foreground `run`s in `proc.wait()`, which
hold no lock: `RunWaited` is the `finally` that drops the record when the wait
ends, also by Ctrl-C or while other processes of the scope live, `WaiterKilled`
an end by a signal Python does not handle. A scope is `spawning` between
`Popen()` and its registration. A command that is refused without a change is
no step. `era`, `unseen` and `torn` are history: the session each scope belongs
to, the scopes that were up, or on their way, when a command looked and did not
see them, until they are gone, and that a freeze was cut short.

**RealmObserver.** `main[p].at` is the main thread of an observer process, from
`flock()` to its release, with the steps of `watch_once()` and `shutdown()`
apart. Requests hold a lock for one step and are actions of their own: `Issue`,
`Write` and `Note` are `issue_launch_file()`, `Redeem` and `Redeemed` the POST,
`Authorize` and `Frame` the GET, `RevokeFiles` and `RevokeStore` a revocation by
the control socket. A signal runs `shutdown()` on the main thread, which is
`stuck` for good when it was inside one of the two locks, with its files dropped
if it was the store's. `BindFails` is the end
of a `serve()` that gets no control socket, or gets it and not its port: then
the `finally` waits for a control server that never served, and the process is
`hung` for good, with the lock. Time is two facts: a
ticket or session expires (`Expire`, `SessionExpires`), and a process has been
idle for `idle_timeout` (`Idles`).

**RealmSimulator.** One main loop: every call, control request, timer and idle
callback is one action. `pending` is what `changed()` believes and `queued` the
callbacks really in the loop. `activations` are the timers of `_activate()`,
each with the dictionary it captured (`live` until the state is replaced),
`recoveries` those of failed ones. `published` is what the bus shows. `asked` is
history: the network whose activation nothing has crossed. `Sync` publishes the
Wi-Fi device and, by `SyncPipewire`, starts or stops PipeWire; a start may fail
(`start_daemon()` raises and `sync()` notes it), and the process may die unseen
(`PipewireDies`). `failed` is history: PipeWire's last start failed, or it has
died since.

## 4. Runs

| run | what TLC answers | bounds |
|---|---|---|
| `rescue` | journal suffices for an exact undo (`JournalCoversPointers`), mixed layers only under it (`MixedOnlyUnderJournal`), `system/current` last (`CommitMarkerLast`), a commit is final (`CommittedNeverUndone`), the whole is an atomic exchange (`ImplementsAtomicRollback`), recovery ends (`RecoveryTerminates`) | 2 invocations, 2 faults, 1 damaged generation at a time; four starts: an upgrade with two kinds of previous links, a first schema-2 system over schema 1, a fresh installation |
| `install_safety` | no other command moves a link or a journal of a pending installation (`InstallBlocksOthers`), recovery restores exactly what begin saved (`RecoveredIsBefore`), an apply is one step (`ImplementsDotfilesSelection`) | 2 processes running install, recover, apply, dotfiles recover and promote; 2 faults; 2 shells, 3 dotfiles, 2 helper bundles, one system id per selection and one to seal a selection again |
| `install_sequence` | types, and the promotion journal covers every state it may be undone from (`InstallInv`); a commit over schema 1, or on an empty machine, leaves the way back it promised (`CommitKeepsRollback`); an installation ends (`InstallEnds`) | installations, recoveries, promotions, dotfiles rollbacks and hand-made builds of one process over a schema-1 system that may be sealed again, 2 faults, 1 damaged generation |
| `gc_safety` | types, and no link dangles (`GCInv`), a possible rollback stays possible (`RollbackSurvives`) | 1 rescue process beside the collector, 2 faults, keep 0 or 1; a checkpoint with its legacy proof, one garbage system, one garbage shell |
| `dnd` | what was printed is never contradicted (`ToldNeverContradicted`), a key acts once (`KeyActsOnce`), the user's choice lasts (`UserChoiceHolds`), types, and the owner's own changes never pause automation (`DndInv`), interrupted changes are cleared (`JournalCleared`) | one key of automation and one of manual commands, revisions to 3, one receipt, 2 crashes, 1 edit between commands or at any point of one but the five windows between a read of the file and its replacement (section 6) |
| `policy_safety` | types, INTENT before any change and APPLIED only for a change of the request (`LedgerHolds`), at most the change in flight after consent ends (`OneInFlight`) | 2 sessions, 2 failures of five kinds, 2 events each, 2 acts of the user, one tick |
| `coordinator` | types, and a timer runs only while a rule stabilises (`CoordinatorInv`), a rule acts only after an undisturbed hysteresis (`Undisturbed`), do-not-disturb ends as the window asks (`DndFollowsFullscreen`) | goroutines, queue of 1, one lost connection or failed read, which a restart may follow but not precede (`drops + faults < MaxDrops`; the theorems have any number in any order), two changes of the window, consent, a restart with a mutation in flight, rules without cooldown |
| `realm_lifecycle` | a cleanup that succeeds leaves nothing (`CleanedMeansGone`), sessions never overlap (`OneSession`), types, and the freezer is as stated (`LifecycleInv`), only the `run` that waits for an app drops the record of a live one (`OthersKeepRecords`), clients see sessions in order (`ImplementsRealmSession`), a realm is cleared again and again (`ClearedAgain`) | 3 scopes, 1 kill or failure, 1 damaged file, 1 foreground `run` at a time (`MaxWaiting`) |
| `realm_observer` | one observer serves and the socket is its own (`SocketIsItsOwn`), a revocation is final (`RevokedIsFinal`), idleness evicts nobody (`IdleEvictsNobody`), an observer that is neither stuck nor hung ends with its session (`EndsWithItsSession`) and clears its files (`LaunchFilesCleared`) | 2 processes, 1 launch with its viewer, 2 sessions of the realm, 1 signal, kills at any point, a socket or port that may not be had at every bind |
| `simulation` | nothing stays unpublished (`NothingUnpublished`), the last activation wins (`LatestActivationWins`), saved networks stay saved (`SeenStaysSaved`), the device comes to rest (`Settles`), and PipeWire comes back from every restart unless its start failed or it died (`AudioComesBack`) | 2 networks, 2 scenarios, 3 calls, 2 control requests, 1 failed start or death of PipeWire (`MaxFaults`) |
| `recover_unseats_system`, `gc_collects_journal` | violations, section 6 | smallest that show them |

The type invariant of a module is the first part of `InstallInv`, `GCInv` (with
that of the rescue transaction), `DndInv`, `LedgerHolds`, `CoordinatorInv` and
`LifecycleInv`. Those of `RealmObserver` and `RealmSimulator` are proved for all
constants, and no run repeats them.

**Why the bounds are enough.** Two processes are the smallest number with an
overlap, and every lock is exclusive, so a third only waits or is refused. Two
faults reach a crash during the recovery from a crash; the state after a third
is one that the second can leave already, since no command counts the attempts
before it. One damaged generation makes every refusal of a verification happen,
at any moment. The eight links, the nesting of journals and every phase are
complete, not bounded. Where a queue, a revision or a receipt has a limit in
the code, the run uses a small one so that the limit is reached. Three scopes
are a compositor, an app and the compositor of the next session, or an app that
a record names beside one that none does. Three calls let two activations
overlap and a third call cross them; one launch is enough because launches of
one observer share nothing but the locks and the table, which a revocation
empties at once, and the proofs of section 5 have any number.

**Symmetry** is used over processes, sessions and ids not given out, in runs
without liveness only (`install_safety`, `recover_unseats_system`,
`policy_safety`).

**Deadlock** is not checked in the runs of `PolicyRunner` and `Coordinator`,
whose events, clock and acts of the user are bounded and simply end, nor in
those of `RealmObserver`, whose processes end, and `RealmSimulator`, whose calls
are bounded. In the
other runs a state without successor is an error, which covers `begin()`
waiting for `system.lock` and `dotfiles.lock` while it holds `install.lock`.

**Fairness.** Code that runs goes on running: weak fairness of the steps of a
started command (`RescueTransaction`, `InstallTransaction`, `DndOwner`) and of
the goroutines (`Work` in `Coordinator`). Nothing makes a user start a rollback
or an installation. Two assumptions are about people: a pending journal is
answered by `recover` again and again (strong fairness of starting it while one
is pending, because other commands may come in between), which is what every
refusal tells the user to do; and commands keep coming to the DND owner, which
the shell's start and the policy's snapshots do. In `RealmLifecycle` a started
command runs on and systemd registers or ends what `systemd-run` started (weak),
and an operator who can stop a session, or else recover it, does so sooner or
later (strong, for other commands come in between). In `RealmObserver` the main
thread runs and deadlines pass; no request need ever come. In `RealmSimulator`
GLib dispatches every source that is ready: activations in the order of their
timers, recoveries, the restart and the idle callback; that PipeWire starts is
not assumed. `RecoveryTerminates` asks for
a disk that stays intact in the end, `JournalCleared` for no outside
edits, `DndFollowsFullscreen` for inputs that stop
(`LastInput`) and for reads, requests and sends shorter than the tick that
stands for 400 ms (`Prompt`), as an answer older than the TTL is dropped.

## 5. Proofs

`RescueProofs` proves about `RescueTransaction`, for any sets of generations,
any manifests, any set of invocations and any bounds on faults and damage:

| theorem | states |
|---|---|
| `InductiveInvariant` | `Spec => []IInv` |
| `NeverMixedWithoutJournal` | `Spec => []MixedOnlyUnderJournal` |
| `JournalIsSufficient` | `Spec => []JournalCoversPointers` |
| `MarkerComesLast` | `Spec => []CommitMarkerLast` |
| `CommitIsFinal` | `Spec => CommittedNeverUndone` |
| `RollbackIsAtomic` | `Spec => ImplementsAtomicRollback` |

Assumptions: `StoreAssumption` (layers have disjoint ids and every system a
manifest of the right shape) and `RescueAssumption` (an installation left
coherent pointers). TLC evaluates both in every run of the module.

**The invariant.** None of the properties is inductive: whether a link may be
written depends on which process is where, what that process has in memory, and
how many links it has already moved. `IInv` is the conjunction of `TypeOK`;
`LocksHeld`, which says that a started process holds `install.lock` and a
working one `system.lock` too, so that two never work; `JournalInv`, that the
before of a journal is coherent and its target the rollback of it, that every
link has one of the two values, and that without a journal the links are
coherent; and `ProcInv(p)`, which ties for each location of `p` the memory to
the journal, the phase on disk, and the links to `before` and `target` at the
`step` reached. That an undo may start from any prefix of an apply, or of an
earlier undo, and still find every link at one of its two values, is what makes
`JournalInv` survive a crash anywhere.

**The argument.** `TargetOfPlan` and `OrderCoversLinks` are the two facts about
data: the target of a rollback is coherent, and the eight writes reach every
link, `system/current` last. `Exclusion` and `OthersKeep` reduce every step to
the process that takes it. One lemma per kind of action follows (`LockStep`,
`PlanStep`, `StoreStep`, `ApplyTargetStep`, `ApplyBeforeStep`, `FailStep`,
`DecideStep`, `ReturnStep`, `DiskStep`), and `NextIInv` puts them together.
For the action property and the refinement, `NextShape` says what a step may do
to journal and links (`StepShape`): nothing, one link with the journal unchanged
and uncommitted, a phase of the same journal, a new journal, or its removal.
`MarkerComesLast` follows from `ProcInv` at `apply`: the order puts
`system/current` at place eight, and a `step` is at most eight before its write.
`CommitIsFinal` and `RollbackIsAtomic` follow case by case; the refinement maps
`selection` to the `before` of an uncommitted journal and to the links otherwise,
so that the write of COMMITTED is the exchange.

`InstallProofs` proves about `InstallTransaction`, for any number of processes,
any generations and schemas, and any bounds on faults and damage:

| theorem | states |
|---|---|
| `InductiveInvariant` | `Spec => []IInv` |
| `InstallationExcludesOthers` | `NoBuild`: `Spec => InstallBlocksOthers` |
| `RecoveryIsExact` | `NoBuild`: `Spec => RecoveredIsBefore` |
| `PromotionsStayCovered` | `Spec => []InstallInv` |
| `AppliesSelectOnce` | `NoRollback`: `Spec => ImplementsDotfilesSelection` |
| `CommitsCanRollBack` | `Spec => CommitKeepsRollback` |

Assumptions: `StoreAssumption` and `PlatformAssumption` (journals and
snapshots of the right kinds). Two theorems assume `NoBuild` as well, that
nobody runs `build-runtime.sh` by hand: it looks at no journal, and section 6
shows what it does. `AppliesSelectOnce` assumes `NoRollback`, for `dotfiles
rollback` swaps the two links without a journal and selects nothing new; the
run that checks the refinement leaves it out for the same reason.

A standalone `apply` or `promote` never takes `install.lock`, so no lock alone
keeps it off a pending installation. The invariant says what does:
`Position` and `Count` tie each step to its place in a command line and its
loop; `ProcInv` says that whoever is between `check_mutation()` and its last
write holds its own lock, and `install.lock` too while an installation is
pending. It holds at `begin()`, which finds both locks free when its journal
becomes durable, and it stays, because every later command is refused by
`check_mutation()`. `Restored(i)` is what `recover()` has put back when it comes
to its `i`-th target, over any number of interruptions before. Each action has
a lemma that it keeps its own process's part and a lemma-wide statement
`Moves(q)` of what it leaves to the others; `OthersKeep` turns the second into
the rest of the invariant.

For `PromotionsStayCovered` the strengthening is `CoverInv`: every system
generation that a link or a journal names exists (nothing removes one), so that
what `promote()` resolves is what the link holds; and the links are covered by
the promotion journal, or an installation has saved both that journal and links
it covers. The second case is real: over a schema-1 system `activate()` selects
the checkpoint while an older promotion may be pending, and until the
installation promotes or recovers, only its own snapshot covers the links. An
earlier statement of the property without that case failed its proof and then
failed in TLC, once a run had promotions over schema 1.

`AppliesSelectOnce` needs to say what is selected while two undo journals may
be open. `Now` is the pair of dotfiles links that `dotfiles recover` would
leave, `Base` the pair that recovering a pending installation first would; the
refinement maps `DotfilesSelected` to `Base`. An installer finds `Now = Base`
until its own apply commits; from then on the links name its choice (`Chose`:
a new generation over one of the pair), and `Base` stays until the installation
commits, which is the one step that selects. `GivenInv` says that no id a link
or a journal names is given out again, which makes the choice new. Whoever is
past `check_mutation()` while an installation is pending is its child
(`AppliesInv`), by the argument above.

`CommitsCanRollBack` follows one system through the whole installation:
`Before`, the checkpoint or else the system that `begin()` found.
`BeforeInv` says that it has helpers and that all its parts were given out;
with `NeverGiven` (ids not given out are not on the disk), and because nothing
repairs a generation, `Before` never verifies again once it does not. That is
why the check `promote()` made of it when it planned still counts at the
commit. `KeepStep` follows it: `activate()` selects it before any other link,
nobody else moves `system/current` until the promotion records it as
`beforeCurrent`, what the promotion seals is another id, and when `Before`
verifies at the end, it verified at the plan and so was made
`system/previous`. No assumption about hand-made builds is needed, which move
the shell links only: `commit` compares those itself.

`GCProofs` proves about `GenerationGC`, for any store and any `--keep`:

| theorem | states |
|---|---|
| `GCInductiveInvariant` | `GCSpec => []GCIInv` |
| `NoLinkDangles` | `GCSpec => []GCInv` |
| `RollbackStaysPossible` | `GCSpec => RollbackSurvives` |

Assumptions: those of the rescue transaction and `CollectorAssumption`. The
invariant of `RescueProofs` is kept, for the collector changes the disk only.
`CollectsAlone` adds why a deletion is safe long after its plan: `gc --apply`
took both locks when no invocation held them, none starts until they are free,
and so the links are still those the plan was made of. `RetainedCovers` and
`PlanSpares` say of the plan that it spares the linked generations, their
components and the legacy proofs a rollback reads.

`DndProofs` proves about `DndOwner`, for any keys, any bounds, any crashes, and
any edits of the status file, also those inside a command that `EditInside`
leaves out of the run:

| theorem | states |
|---|---|
| `InductiveInvariant` | `Spec => []IInv` |
| `OnlyTheUserPauses` | `Spec => []DndInv` |
| `PrintedRevisionsGrow` | `Spec => ToldNeverContradicted` |
| `AKeyActsOnce` | `Spec => KeyActsOnce` |
| `UserChoiceLasts` | `EditInside \cap Windows = {}`: `Spec => []UserChoiceHolds` |

Assumptions: `DndAssumption`, `EditAssumption` and `NoneAssumption` (kinds of the
constants). The
argument rests on the files that only the owner writes. `RevisionInv`: an
uncommitted change starts from the anchor and has a later revision, and nothing
printed is later than what the owner compares the file with. `KeyInv`: a key
that has acted has its receipt, or the journal from which it gets one.
`UneditedInv` describes the file itself, as long as nobody else has edited it.
`UserChoiceLasts` adds `ChoiceInv`: while a choice lasts, the anchor or the
change about to be the anchor knows it, or the file itself tells it and differs
from what the owner believes, so that the next observation takes it up; an
interrupted change, which restores what it found, never touches it. `WindowInv`
is where the assumption comes in: at the five steps of `Windows`, between the
read of the file and its replacement, the file is what the command has read.
Without it the property is false (section 6).

`PolicyProofs` proves about `PolicyRunner` and `Coordinator`, for any number of
sessions, events, failures and acts of the user, any times of the rules, any
capacity of the queue and any number of lost connections and changes:

| theorem | states |
|---|---|
| `LedgerIsTrue` | `Spec => []LedgerHolds` |
| `OneChangeInFlight` | `Spec => []OneInFlight` |
| `ActsUndisturbed` | `"config" \notin Faults`: `Spec => []Undisturbed` |
| `TimersStabilize` | `CoordinatorSpec => []CoordinatorInv` |
| `CoordinatorIsARunner` | `0 .. MaxClock \subseteq Ages`: `CoordinatorSpec => Spec` |
| `DaemonActsUndisturbed` | `"config" \notin Faults`: `CoordinatorSpec => []Undisturbed` |

Assumptions: `PolicyAssumption` and `TaskAssumption` (kinds of the constants),
`CoordinatorAssumption` (the daemon's session is one of them, the queue has a
place). A request carries the revision its runner read.
Once a session without authority has made its one late change, every revision
it has read or handed to a process is out of date (`TaskInv`, `ChildInv`), so
none of its requests is accepted again; a runner gets past `Recheck` with
authority only, and a session with authority has no late change (`LateInv`).

For `Undisturbed`, `Quiet(s)` relates the history to the engine: what disturbed
a rule last is no later than `stableSince` of it, or the event that disturbed it
is at the runner and has not reached the engine yet; whoever gets to `Recheck`
has waited the hysteresis since. It fails if an event can be accepted that the
engine never sees, as an unreadable `activation.json` makes it (section 6), and
that is the assumption. `DaemonInv` is the invariant of the daemon around it:
nobody sends from the future, what is in the channel has been read
(`ChannelInv`), and while the runner has an event no timer runs (`LoopInv`), so
that every verdict of the runner finds the timer to set or delete.
`CoordinatorIsARunner` shows that the daemon's steps are steps of the runner or
stutter, once the events of the runner may be as old (`Ages`) as a queue can
make them: `LedgerIsTrue` and `OneChangeInFlight` hold in the daemon by it.

`RealmLifecycleProofs` proves about `RealmLifecycle`, for any number of scopes,
kills, failures and damaged files:

| theorem | states |
|---|---|
| `InductiveInvariant` | `Spec => []IInv` |
| `CleanupLeavesNothing` | `Spec => []CleanedMeansGone` |
| `SessionsNeverOverlap` | `Spec => []OneSession` |
| `FreezerIsAsStated` | `Spec => []LifecycleInv` |
| `RecordsAreKept` | `Spec => OthersKeepRecords` |
| `ClientsSeeOrder` | `Spec => ImplementsRealmSession` |

Assumptions: `RealmAssumption` and `MetaAssumption`. `SessionInv` says that all
scopes a look has not missed (`Known`) are of one era: a command that looks at
the realm takes down what systemd cannot show it yet (`unseen`), so whatever is
left of an earlier session is listed and stops the start. `CleanupInv`: between
the listing of a cleanup and its end the lock keeps new scopes away, so what is
up was listed or was on its way. `FreezerInv` follows a transition unit by unit,
forth and, after a failure, back; `torn` marks one that was cut short.
`RecordInv`, for `RecordsAreKept`: a cleanup that gets to the records has taken
down what it could not list and could read them all, and `stop-app` gets to the
one of its app only when the scope is gone. The `run` that waits for an app is
the one exception the property makes, because the code makes it (section 6). `ClientInv`, for the refinement:
whoever holds the lock finds `session.json` as it left it, so that what a
cleanup remembers of the session (`op.was`) is what clients saw last, and the
step that declares it over is the one after its compositor is down. A start
whose second write fails cleans up a session that clients saw running: the
invariant has both states there, and `RealmSession.EndFails` lets either end as
`cleanup_failed`.

`RealmSimulatorProofs` proves about `RealmSimulator`, for any set of networks,
any consistent scenarios and any numbers of calls, controls and timers:

| theorem | states |
|---|---|
| `TypeCorrect` | `Spec => []TypeOK` |
| `PublishedOrDue` | `Spec => []NothingUnpublished` |
| `LastAskedIsConnected` | `Spec => []LatestActivationWins` |
| `SeenIsNotForgotten` | `Spec => SeenStaysSaved` |

`PublishedOrDue` needs that `pending` is never TRUE without a callback in the
loop: the explicit sync of a control request resets it and leaves the callback,
which is harmless in that direction only. For `LastAskedIsConnected` the
invariant says that while an activation is asked for and nothing has crossed it,
no failure is pending, every timer set belongs to a state that is still loaded
and succeeds, and the last of them is for the network asked for; a finished
timer then leaves either a later one or the answer. `SeenIsNotForgotten` needs
that, when no callback is due, what the bus shows as connected is saved. They
hold however often PipeWire fails to start or dies.

`RealmObserverProofs` proves about `RealmObserver`, for any number of observer
processes, launches, signals and sessions:

| theorem | states |
|---|---|
| `TypeCorrect` | `Spec => []TypeOK` |
| `OneServes` | `Spec => []SocketIsItsOwn` |
| `RevocationIsFinal` | `Spec => RevokedIsFinal` |
| `IdlenessEvictsNobody` | `~ShortIdle`: `Spec => IdleEvictsNobody` |

The invariant adds to the types: `Section`, that whoever is past `flock()` holds
the lock, which makes every other process one that has not got there or has
ended; `OwnSocket`, that whoever accepts connections owns the socket on disk;
`ReturnsInside`, that a shutdown, from the watchdog or from a signal at any
point, returns to a location inside the section; and `Begun` and `Identified`,
that a session that is up has begun and that whoever is about to bind the
socket has the identity of one and no socket yet. A `hung` process is inside the
section for good, which is why `OneServes` needs no exemption for it. `RevocationIsFinal` follows step by step: only `Issue`,
of a launch not begun, and `Redeem`, of a ticket still in the table, create
credentials. For `IdlenessEvictsNobody`, `CredentialInv` says that a ticket
becomes a session as it is redeemed, and that a process gets idle only with no
ticket out whose file is written; `KnownInv` follows the three looks of the
watchdog: what it knew of when it found the process idle has been redeemed
before, and is over once it has counted the sessions. `~ShortIdle` is that the
idle timeout is longer than a ticket lives, as it is by default.

Their assumptions give the constants their kinds and nothing more:
`ObserverAssumption`, and `SimulatorAssumption`, which says that scenario files
pass `validate()`.

**Only model-checked:** liveness (`RecoveryTerminates`, `InstallEnds`,
`JournalCleared`, `DndFollowsFullscreen`, `ClearedAgain`, `EndsWithItsSession`,
`LaunchFilesCleared`, `Settles`, `AudioComesBack`): its proofs need ENABLED,
which is out of the prover's reach. The two runs of section 6 that end in a
violation refute what they check, so nothing is proved of it.

**What the assumptions leave out.** `NoBuild`, `NoRollback`, edits outside
`Windows`, `"config" \notin Faults` and `~ShortIdle` each exclude one behaviour
that the code has and that breaks the property: all but `NoRollback`, where
the property does not speak of what is left out, are in section 6. Everything
else that a theorem assumes gives the constants their kinds, and TLC evaluates
it in the runs.

## 6. Disagreements and known limits

Two runs end in a violation of what a document or a comment says:

- `recover_unseats_system`: `system promote` does not look at a pending dotfiles
  apply (`system.rs:159`); the next `cortetsu recover` restores the links below
  the system just committed, and `cortetsu verify` then fails.
- `gc_collects_journal`: `gc --apply` looks at the install journal only
  (`gc.rs:399`); after a rollback that died with all links moved, what only its
  journal names can be deleted, and neither recover nor rollback loads that
  journal again.

Variations of the configurations show more that the code does:

- `MCInstallTransaction.cfg` with `Commands = {"install", "build"}`, a third
  shell and `InstallBlocksOthers`: `build-runtime.sh` by hand selects its shell inside a
  pending installation (`build-runtime.sh:214`).
- `MCDndOwner.cfg` with "act", "write" or "restore" in `EditInside`: an edit
  between the read of the status and its replacement (`owner.rs:309`, `:233`) is
  overwritten and pauses nothing, although every later edit becomes a manual
  choice (`owner.rs:130`); "noteStatus" (`:124`) and "noteAnchor" (`:125`) are
  the same window of a second edit. The run has edits at every other point of a
  command and between commands, and `UserChoiceLasts` proves that these five
  points are all there is to the window.
- `MCCoordinator.cfg` with `Cooldown = 3`, `MaxFlips = 3`, a longer clock and
  more events: a decision blocked by the cooldown arms no timer
  (`daemon.go:294`, `engine.go:219`), and a window that is fullscreen again
  keeps do-not-disturb off.
- `MCCoordinator.cfg` with `DndFollowsFullscreen` also after a lost connection:
  the event of an expired timer may have read "unavailable" before the
  reconnection and arrive after its resync. It deletes the new timer
  (`daemon.go:279`) and ends the new stability (`runner.go:178`), and nothing
  looks again until the compositor speaks, although `daemon.go:290` wants a
  timer exactly while a rule stabilises. Of the two directions only the one the
  code keeps, no timer without a stabilising rule, is a theorem
  (`TimersStabilize`).
- `Undisturbed` does not hold once `activation.json` may be unreadable: the
  event was accepted and the engine never saw it (`runner.go:182`). The run that
  checks it leaves that failure out, and the theorems assume so;
  `policy_safety` has it.

What the models of agent realms leave possible because the code does:

- An app started with `run --detach`, or a compositor whose start failed, may
  register its scope after a stop or a cleanup has looked (`runtime.py:474`,
  `:605`): it survives the stop, though operations.md:12 says that stop ends the
  realm. `CleanedMeansGone` and `RealmSession` exempt exactly these scopes.
- A foreground `run` that is ended by Ctrl-C, or whose first process forks and
  returns, drops the record of an app that lives on (`runtime.py:636`), for the
  app is in a session of its own (`:608`). `pause` then refuses the scope as one
  without a record and `stop-app` cannot name it; `stop` and `recover` still
  find it in systemd's list, which `CleanedMeansGone` and `ClearedAgain` check.
  `OthersKeepRecords` therefore speaks of all commands but this one.
- A realm that clients saw running may end as `cleanup_failed` or `failed` by
  its own `start()`: the second write of `session.json` (`runtime.py:486`) is
  inside the `try` whose handler cleans up.
- An observer that finds its port taken never ends (`observer.py:439`, `:454`):
  `control.shutdown()` waits for a loop that no thread has begun, `.lock` stays
  held, every later observer is refused, and SIGTERM runs a handler that ends
  nothing; only SIGKILL does. `EndsWithItsSession` exempts it (`hung`).
- A start of PipeWire that raises, or a PipeWire that dies, is noticed by the
  next `sync()` only (`daemon.py:99`, `audio.py:194`): without another change
  it stays down, so `AudioComesBack` exempts the time after one (`failed`). One
  that is merely late counts as running, without its monitor. That `stop_daemon()` and
  the sync of NetworkManager do not raise is taken for granted; a part that did
  would stay unpublished until the next sync, and `NothingUnpublished` speaks
  of parts that do not.
- SIGTERM or SIGINT while the main thread of an observer is inside
  `_drop_launch_files()` or the credential store makes it wait for itself
  (`observer.py:431`); it then neither ends nor revokes, though
  security-observer.md:15 has the signal revoke. `EndsWithItsSession` and
  `LaunchFilesCleared` exempt it.
- A launch file entered in the table after the shutdown dropped the table stays
  on disk (`observer.py:183`), and `LaunchFilesCleared` does not speak of it.
  Its ticket is worthless by then.
- With `--idle-timeout` under a minute (`ShortIdle`) a viewer that redeems while
  the watchdog looks is evicted (`observer.py:216`); `IdlenessEvictsNobody`
  assumes a longer one.
- Of two callers of `ensure_running()` the one whose process loses the lock gets
  an error instead of the other's observer (`observer.py:528`).
- `Set`, `Apply` or `Reset` during an activation replaces the dictionary its
  timer writes to (`network.py:218`): the activation is lost without a sign. A
  failed activation clears the connection 800 ms later whatever happened since
  (`network.py:236`). Disconnect and switching the radio off cancel nothing, and
  a network deleted while it is activated comes back.
- After a client connects to a network that is not visible, every later `Set` is
  refused, whatever it sets, because the whole state is validated
  (`scenario.py:171`, `network.py:252`).
- A network that was connected and disconnected before the idle callback ran is
  never saved (`network.py:98`).
- The agent's start and the MCP server look and then act without the lifecycle
  lock (`agent.py:118`): the second of two simultaneous starts gets an error
  instead of the session, though mcp.md:84 promises it the same one, and the end
  of the server that started an ephemeral session stops it under another agent
  (`mcp_server.py:241`). These are not modelled.

Limits the models share with the code: a `promote` whose write of COMMITTED
takes effect and still reports an error (`PromoteCommitFails`) undoes the links
before it writes RECOVERED, so a crash in between leaves a committed journal
over restored links, which `InstallInv`, a statement about PREPARED journals,
does not exclude; `dotfiles rollback` has no journal, and a
crash between its two renames leaves one generation on both links; receipts are
never removed, so automation stops after `MAX_RECORDS` changes; an edit after an
interrupted change answers RECOVERY_REQUIRED until somebody restores the file;
a pause that runs out triggers no evaluation.

## 7. Not modelled

Planned: hardware owner, game mode, power watcher, notification history,
display preview, idempotency ledger, keybind store, pomodoro, prompter, IPC
sessions, policy observer and the Bluetooth of the simulation (section 2).
Known hazards there: the hardware owner keeps a PREPARED entry over a crash and
then takes its own change for one of the user (`owner.rs:347`); the power
watcher reads the profile without reconciling it (`power.rs:499`); a crash of
the game mode between its options and ACTIVE (`gamemode.rs:206`); a clear or a
dismissal between a batch of the shell and its merge (`notification-helper`'s
`owner.rs:454`); the two files of a keybind commit (`store.rs:324`). The coordinator's rules
for game mode and power wait for the hardware owner; priorities, the observe and
simulate modes and custom catalogs belong to the same step.

Of agent realms: `agent.py`, `mcp_server.py`, `cli.py`, `profiles.py`,
`paths.py` and `capture.py` keep no state between calls; `supervisor.py` starts
processes in a fixed order and waits; Ethernet, UPower and power profiles are
setters of the state that `RealmSimulator` publishes; audio nodes follow
`pw-cli`, outside the loop; a client that reads a property between two coalesced
changes (`dbus.py:53`) is a matter of signals the model does not have. The
package's `compositor-child` launch changes nothing on disk, and process groups
of records made before scopes are a migration path. Most of the Python in the
repository is tests and one-shot tools: they have no state of their own to
model, which bounds the share of its lines that the map can cover.

Left out: conversions of configuration text, theme and palette generation,
monitor and device probes, network helpers, argument parsing and strict JSON
(input validation without state); the QML interface apart from its batches of
notifications and its prompter; archives and the metadata backup of the
collector, which nothing reads back; digests and signatures, represented by
`intact` and `damaged`; packages, tests, examples and documentation. Reading the
ledger back (`Ledger.Read`) is a separate command that changes nothing; that a
crash may leave it a torn line is outside the set of whole records the model
keeps.
