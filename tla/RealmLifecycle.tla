--------------------------- MODULE RealmLifecycle ---------------------------
(***************************************************************************)
(* The life of one agent realm (agent-realms, runtime.py and process.py):  *)
(* the compositor's systemd scope, the scopes of the apps, session.json    *)
(* and the app records, changed by short-lived commands that hold          *)
(* .lifecycle.lock from their first look to their last write.  op is the   *)
(* command that holds it.                                                  *)
(*                                                                         *)
(* A command may be killed between any two steps (the kernel then frees    *)
(* the lock), systemctl may fail with or without having acted, a write may *)
(* fail, scopes end by themselves, and a file may be damaged from outside. *)
(* `systemd-run --scope' is started and not waited for: its scope is       *)
(* "spawning" until systemd has it, and systemctl does not find it before. *)
(* An argument or a state a command refuses without a change is no step.   *)
(***************************************************************************)
EXTENDS Naturals, FiniteSets

CONSTANTS
    None,
    Damaged,      \* session.json cannot be read
    Unit,         \* names of scopes
    Commands,     \* the commands they run
    MaxFaults,    \* bound on kills and on failures of systemctl and of writes
    MaxEdits,     \* bound on files damaged or removed from outside
    MaxWaiting    \* bound on `run' commands that wait at once

ASSUME RealmAssumption ==
    /\ None \notin Unit \cup {"good", "damaged"}
    /\ Damaged # None
    /\ {MaxFaults, MaxEdits, MaxWaiting} \subseteq Nat

VARIABLES
    scope,     \* what systemd knows of each scope
    meta,      \* session.json
    record,    \* apps/<pid>.json, by the scope it names
    op,        \* the command that holds .lifecycle.lock
    waiting,   \* the apps whose `run' has freed the lock and waits for them
    faults, edits,
    era,       \* the session each scope was started in: the compositor's scope
    unseen,    \* scopes some look has missed, until they are gone
    torn       \* a freeze or a thaw was cut short and nothing has made up for it

disk == <<meta, record>>
history == <<era, unseen, torn>>
vars == <<scope, disk, op, waiting, faults, edits, history>>

\* is-active and list-units: frozen scopes count, those not registered do not.
Live == {u \in Unit : scope[u] \in {"running", "frozen"}}

\* process_alive() of the session.
Alive == meta \notin {None, Damaged} /\ meta.unit \in Live

\* The cleanup that runs looked before systemd had the session's scope.
Missed == meta \notin {None, Damaged} /\ meta.unit \in op.late

\* The realm as its clients see it.
Session == INSTANCE RealmSession WITH alive <- Alive, missed <- Missed

Meta == Session!Meta

\* None and Damaged are no session.
ASSUME MetaAssumption == None \notin Meta /\ Damaged \notin Meta

Readable == Session!Readable

Location == {"idle", "unit", "spawn", "ready", "save", "collect", "stopUnits", "unlink", "close", "closeError",
             "record", "undo", "stopApp", "dropRecord", "transition", "rollback", "restoreError"}

\* was: the meta a command loaded.  todo: scopes still to stop, freeze or thaw.
\* tried: those a transition has asked systemd for.  late: those spawning when
\* cleanup_groups() listed the scopes.
Op ==
    [cmd : {"start", "run", "stop", "stop_app", "pause", "resume", "recover", None}, at : Location,
     unit : Unit \cup {None}, was : Meta \cup {None}, todo : SUBSET Unit, tried : SUBSET Unit,
     late : SUBSET Unit, error : BOOLEAN]

Idle == [cmd |-> None, at |-> "idle", unit |-> None, was |-> None, todo |-> {}, tried |-> {},
         late |-> {}, error |-> FALSE]

TypeOK ==
    /\ scope \in [Unit -> {"absent", "spawning", "running", "frozen"}]
    /\ meta \in Meta \cup {None, Damaged}
    /\ record \in [Unit -> {None, "good", "damaged"}]
    /\ op \in Op
    /\ waiting \subseteq Unit
    /\ faults \in 0 .. MaxFaults
    /\ edits \in 0 .. MaxEdits
    /\ era \in [Unit -> Unit \cup {None}]
    /\ unseen \subseteq Unit
    /\ torn \in BOOLEAN

Init ==
    /\ scope = [u \in Unit |-> "absent"]
    /\ meta = None
    /\ record = [u \in Unit |-> None]
    /\ op = Idle
    /\ waiting = {}
    /\ faults = 0
    /\ edits = 0
    /\ era = [u \in Unit |-> None]
    /\ unseen = {}
    /\ torn = FALSE

-----------------------------------------------------------------------------
At(location) == op.at = location

\* lifecycle_lock(): taken as the command begins, freed as it ends or dies.
Take(command, begun) ==
    /\ command \in Commands
    /\ At("idle")
    /\ op' = [begun EXCEPT !.cmd = command]

Goto(location) == op' = [op EXCEPT !.at = location]

Return == op' = Idle

Fault == faults < MaxFaults /\ faults' = faults + 1 /\ UNCHANGED <<edits, waiting>>

NoFault == UNCHANGED <<faults, edits, waiting>>

\* What has failed once in a command may fail again.
FaultAgain == NoFault

Spawning == {u \in Unit : scope[u] = "spawning"}

Absent == {u \in Unit : scope[u] = "absent"}

\* The scopes change; what is gone has no history.
Become(next) ==
    /\ scope' = next
    /\ era' = [u \in Unit |-> IF next[u] = "absent" THEN None ELSE era[u]]
    /\ unseen' = {u \in unseen : next[u] # "absent"}

\* systemctl stop, freeze or thaw of a scope; "not-found" counts as done.
Controlled(u, state) == IF u \in Live THEN [scope EXCEPT ![u] = state] ELSE scope

\* A random name nothing mentions yet; which one makes no difference.
Fresh ==
    {u \in Unit : /\ scope[u] = "absent"
                  /\ record[u] = None
                  /\ Readable => meta.unit # u
                  /\ op.unit # u
                  /\ u \notin waiting
                  /\ op.was # None => op.was.unit # u}

NewUnit == CHOOSE u \in Fresh : TRUE

\* Popen() of systemd-run; session is the compositor's scope.
Spawn(u, session) ==
    /\ scope' = [scope EXCEPT ![u] = "spawning"]
    /\ era' = [era EXCEPT ![u] = session]
    /\ UNCHANGED unseen

\* A look at the scopes by a query that may, as a fault, time out for one app:
\* process_alive() then takes it for dead.
Look(overlooked) ==
    /\ \/ overlooked = {} /\ NoFault
       \/ Fault /\ \E u \in Live : overlooked = {u} /\ Readable /\ u # meta.unit
    /\ unseen' = unseen \cup Spawning \cup overlooked

-----------------------------------------------------------------------------
\* Mutant of StartBegin: only the session's own scope is looked for.
StartBeginUnlisted ==
    /\ Take("start", [Idle EXCEPT !.at = "unit"])
    /\ meta # Damaged
    /\ \E overlooked \in SUBSET Live : Look(overlooked) /\ ~Alive
    /\ meta' = [state |-> "starting", unit |-> None]
    /\ UNCHANGED <<scope, record, era, torn>>

\* start()
\* _check_startable(), and the first record of the new session.
StartBegin ==
    /\ Take("start", [Idle EXCEPT !.at = "unit"])
    /\ meta # Damaged
    /\ \E overlooked \in SUBSET Live : Look(overlooked) /\ Live = overlooked
    /\ meta' = [state |-> "starting", unit |-> None]
    /\ UNCHANGED <<scope, record, era, torn>>

StartUnit ==
    /\ At("unit")
    /\ Fresh # {}
    /\ meta' = [state |-> "starting", unit |-> NewUnit]
    /\ op' = [op EXCEPT !.at = "spawn", !.unit = NewUnit]
    /\ NoFault
    /\ UNCHANGED <<scope, record, history>>

StartSpawn ==
    /\ At("spawn")
    /\ Spawn(op.unit, op.unit)
    /\ Goto("ready")
    /\ NoFault
    /\ UNCHANGED <<disk, torn>>

\* _readiness() of a compositor that answers.
StartReady ==
    /\ At("ready")
    /\ scope[op.unit] = "running"
    /\ Readable
    /\ meta' = [meta EXCEPT !.state = "running"]
    /\ torn' = FALSE
    /\ Goto("save")
    /\ NoFault
    /\ UNCHANGED <<scope, record, era, unseen>>

\* The record of a session that runs, once more, with the options of start().
StartSave ==
    /\ At("save")
    /\ meta' = [state |-> "running", unit |-> op.unit]
    /\ Return
    /\ NoFault
    /\ UNCHANGED <<scope, record, history>>

\* The child ended or the time is up; or a write fails, interrupted possibly
\* after os.replace().
StartFails ==
    /\ \/ At("ready") /\ scope[op.unit] = "absent" /\ NoFault
       \/ op.at \in {"ready", "save"} /\ Fault
    /\ Goto("collect")
    /\ UNCHANGED <<scope, disk, history>>

-----------------------------------------------------------------------------
\* cleanup_groups(): for a start that failed, for stop() and for recover().
StopBegin ==
    /\ Readable
    /\ Take("stop", [Idle EXCEPT !.at = "collect", !.was = meta])
    /\ NoFault
    /\ UNCHANGED <<scope, disk, history>>

RecoverBegin ==
    /\ ~Alive
    /\ Take("recover", [Idle EXCEPT !.at = "collect", !.was = IF Readable THEN meta ELSE None])
    /\ NoFault
    /\ UNCHANGED <<scope, disk, history>>

Broken == \E u \in Unit : record[u] = "damaged"

Named(m) == {m.unit} \ {None}

\* Mutant of Listed: what systemd lists is not looked at.
ListedRecorded == {u \in Unit : record[u] = "good"} \cup (IF Readable THEN Named(meta) ELSE {})

\* What systemd lists, what the app records name, and the session's own.
Listed == Live \cup {u \in Unit : record[u] = "good"} \cup (IF Readable THEN Named(meta) ELSE {})

\* Mutant of Uncollectable: recover() does not allow a damaged session.json.
UncollectableDamaged == meta = Damaged

Uncollectable == meta = Damaged /\ op.cmd # "recover"

Collect ==
    /\ At("collect")
    /\ ~Uncollectable
    /\ op' = [op EXCEPT !.at = "stopUnits", !.todo = Listed \ Absent, !.error = Broken,
                        !.late = Spawning]
    /\ unseen' = unseen \cup Spawning
    /\ NoFault
    /\ UNCHANGED <<scope, disk, era, torn>>

CollectFails ==
    /\ At("collect")
    /\ \/ Uncollectable /\ NoFault
       \/ Fault
    /\ Goto("closeError")
    /\ UNCHANGED <<scope, disk, history>>

StopUnit(u) ==
    /\ At("stopUnits")
    /\ u \in op.todo
    /\ Become(Controlled(u, "absent"))
    /\ op' = [op EXCEPT !.todo = @ \ {u}]
    /\ NoFault
    /\ UNCHANGED <<disk, torn>>

StopUnitFails(u) ==
    /\ At("stopUnits")
    /\ u \in op.todo \cap Live
    /\ Fault
    /\ \E acted \in {scope, Controlled(u, "absent")} : Become(acted)
    /\ Goto("closeError")
    /\ UNCHANGED <<disk, torn>>

\* The records go after the last scope, and only if all of them could be read.
Unlink ==
    /\ At("stopUnits")
    /\ op.todo = {}
    /\ IF op.error
         THEN Goto("closeError") /\ UNCHANGED record
         ELSE /\ record' = [u \in Unit |-> None]
              /\ Goto("close")
    /\ NoFault
    /\ UNCHANGED <<scope, meta, history>>

Ending ==
    CASE op.cmd = "stop"    -> [state |-> "stopped", unit |-> op.was.unit]
      [] op.cmd = "recover" -> [state |-> "recovered",
                                   unit |-> IF op.was = None THEN None ELSE op.was.unit]
      [] op.cmd = "start"   -> IF Readable THEN [meta EXCEPT !.state = "failed"] ELSE meta

Close ==
    /\ At("close")
    /\ meta' = Ending
    /\ torn' = FALSE
    /\ Return
    /\ NoFault
    /\ UNCHANGED <<scope, record, era, unseen>>

\* Mutant of CloseError: the end is written whatever the cleanup came to.
CloseErrorAnyway ==
    /\ At("closeError")
    /\ meta' = IF Readable THEN Ending ELSE meta
    /\ Return
    /\ NoFault
    /\ UNCHANGED <<scope, record, history>>

\* stop() and recover() leave session.json as it is.
CloseError ==
    /\ At("closeError")
    /\ meta' = IF op.cmd = "start" /\ Readable THEN [meta EXCEPT !.state = "cleanup_failed"] ELSE meta
    /\ Return
    /\ NoFault
    /\ UNCHANGED <<scope, record, history>>

-----------------------------------------------------------------------------
\* run() and stop_app()
RunBegin ==
    /\ Alive
    /\ meta.state = "running"
    /\ Fresh # {}
    /\ Spawn(NewUnit, meta.unit)
    /\ Take("run", [Idle EXCEPT !.at = "record", !.unit = NewUnit])
    /\ NoFault
    /\ UNCHANGED <<disk, torn>>

\* The lock is freed; without --detach the command waits for the app.
RunRecord ==
    /\ At("record")
    /\ record' = [record EXCEPT ![op.unit] = "good"]
    /\ \/ waiting' = waiting
       \/ Cardinality(waiting) < MaxWaiting /\ waiting' = waiting \cup {op.unit}
    /\ Return
    /\ UNCHANGED <<scope, meta, faults, edits, history>>

RunRecordFails ==
    /\ At("record")
    /\ Fault
    /\ Goto("undo")
    /\ UNCHANGED <<scope, disk, history>>

\* _stop_failed_app_scope() stops the scope and ends systemd-run itself.
RunUndo ==
    /\ At("undo")
    /\ Become([scope EXCEPT ![op.unit] = "absent"])
    /\ Return
    /\ NoFault
    /\ UNCHANGED <<disk, torn>>

RunUndoFails ==
    /\ At("undo")
    /\ op.unit \in Live
    /\ FaultAgain
    /\ Return
    /\ UNCHANGED <<scope, disk, history>>

\* The end of proc.wait(), and with it of the record: the app's first process
\* has ended, others of its scope perhaps not, or Ctrl-C has ended the wait and
\* the app, in a session of its own, goes on.
RunWaited(u) ==
    /\ u \in waiting
    /\ waiting' = waiting \ {u}
    /\ record' = [record EXCEPT ![u] = None]
    /\ UNCHANGED <<scope, meta, op, faults, edits, history>>

\* By a signal Python does not handle.
WaiterKilled(u) ==
    /\ u \in waiting
    /\ waiting' = waiting \ {u}
    /\ UNCHANGED <<scope, disk, op, faults, edits, history>>

StopAppBegin ==
    /\ Readable
    /\ \E u \in Unit \ {meta.unit} :
         record[u] = "good" /\ Take("stop_app", [Idle EXCEPT !.at = "stopApp", !.unit = u])
    /\ NoFault
    /\ UNCHANGED <<scope, disk, history>>

StopApp ==
    LET u == op.unit IN
    /\ At("stopApp")
    /\ scope' = Controlled(u, "absent")
    /\ era' = [era EXCEPT ![u] = IF u \in Spawning THEN @ ELSE None]
    /\ unseen' = (unseen \ {u}) \cup ({u} \cap Spawning)
    /\ Goto("dropRecord")
    /\ NoFault
    /\ UNCHANGED <<disk, torn>>

StopAppFails ==
    /\ At("stopApp")
    /\ op.unit \in Live
    /\ Fault
    /\ \E acted \in {scope, Controlled(op.unit, "absent")} : Become(acted)
    /\ Return
    /\ UNCHANGED <<disk, torn>>

DropRecord ==
    /\ At("dropRecord")
    /\ record' = [record EXCEPT ![op.unit] = None]
    /\ Return
    /\ NoFault
    /\ UNCHANGED <<scope, meta, history>>

-----------------------------------------------------------------------------
\* pause() and _transition_scopes()
Pausable == Alive /\ meta.state \in {"running", "paused", "transition-error"}

\* Mutant of Pruned: a frozen app is taken for dead.
PrunedFrozen(overlooked) ==
    [u \in Unit |-> IF record[u] = "good" /\ scope[u] # "running" THEN None ELSE record[u]]

\* app_groups() drops the records of apps it takes for dead.
Pruned(overlooked) ==
    [u \in Unit |-> IF record[u] = "good" /\ u \notin Live \ overlooked THEN None ELSE record[u]]

Registered(overlooked) == {u \in Unit : Pruned(overlooked)[u] = "good"}

Transition(todo) ==
    [Idle EXCEPT !.at = "transition", !.unit = meta.unit, !.was = meta, !.todo = todo]

PauseBegin ==
    /\ Pausable
    /\ ~Broken
    /\ \E overlooked \in SUBSET Live :
         LET units == Live \ overlooked IN
         /\ Look(overlooked)
         /\ units \subseteq Registered(overlooked) \cup {meta.unit}
         /\ record' = Pruned(overlooked)
         /\ Take("pause", Transition({u \in units : scope[u] = "running"}))
    /\ UNCHANGED <<scope, meta, era, torn>>

\* A record that cannot be read, possibly after others were dropped, or an
\* active app without a record.
PauseRefused ==
    /\ "pause" \in Commands
    /\ At("idle")
    /\ Pausable
    /\ \E overlooked \in SUBSET Live :
         /\ Look(overlooked)
         /\ IF Broken
              THEN \E some \in SUBSET Unit :
                     record' = [u \in Unit |-> IF u \in some THEN Pruned(overlooked)[u] ELSE record[u]]
              ELSE /\ ~(Live \subseteq Registered(overlooked) \cup {meta.unit})
                   /\ record' = Pruned(overlooked)
    /\ UNCHANGED <<scope, meta, op, era, torn>>

ResumeBegin ==
    /\ Pausable
    /\ \E overlooked \in SUBSET Live :
         /\ Look(overlooked)
         /\ Take("resume", Transition({u \in Live \ overlooked : scope[u] = "frozen"}))
    /\ UNCHANGED <<scope, disk, era, torn>>

Aim == IF op.cmd = "pause" THEN [scope |-> "frozen", state |-> "paused"]
                                 ELSE [scope |-> "running", state |-> "running"]

\* Only scopes that were not there yet are asked.
Origin == IF op.cmd = "pause" THEN "running" ELSE "frozen"

\* The apps first, the compositor last.
TransitionUnit(u) ==
    /\ At("transition")
    /\ u \in op.todo
    /\ u = op.unit => op.todo = {u}
    /\ Become(Controlled(u, Aim.scope))
    /\ op' = [op EXCEPT !.todo = @ \ {u}, !.tried = @ \cup {u}]
    /\ NoFault
    /\ UNCHANGED <<disk, torn>>

\* Mutant of TransitionUnitFails: the scope whose call failed is not put back.
TransitionUnitFailsUntried(u) ==
    /\ At("transition")
    /\ u \in op.todo
    /\ u = op.unit => op.todo = {u}
    /\ Fault
    /\ \E acted \in {scope, Controlled(u, Aim.scope)} : Become(acted)
    /\ op' = [op EXCEPT !.at = "rollback", !.todo = op.tried]
    /\ UNCHANGED <<disk, torn>>

TransitionUnitFails(u) ==
    /\ At("transition")
    /\ u \in op.todo
    /\ u = op.unit => op.todo = {u}
    /\ Fault
    /\ \E acted \in {scope, Controlled(u, Aim.scope)} : Become(acted)
    /\ op' = [op EXCEPT !.at = "rollback", !.tried = @ \cup {u}, !.todo = op.tried \cup {u}]
    /\ UNCHANGED <<disk, torn>>

Transitioned == [op.was EXCEPT !.state = Aim.state]

TransitionSave ==
    /\ At("transition")
    /\ op.todo = {}
    /\ meta' = Transitioned
    /\ torn' = FALSE
    /\ Return
    /\ NoFault
    /\ UNCHANGED <<scope, record, era, unseen>>

\* An interrupt may come after os.replace().
TransitionSaveFails ==
    /\ At("transition")
    /\ op.todo = {}
    /\ Fault
    /\ meta' \in {meta, Transitioned}
    /\ op' = [op EXCEPT !.at = "rollback", !.todo = op.tried]
    /\ UNCHANGED <<scope, record, history>>

\* The reverse order: a compositor that was asked is put back first.
RollBack(u) ==
    /\ At("rollback")
    /\ u \in op.todo
    /\ op.unit \in op.todo => u = op.unit
    /\ Become(Controlled(u, Origin))
    /\ op' = [op EXCEPT !.todo = @ \ {u}]
    /\ NoFault
    /\ UNCHANGED <<disk, torn>>

RollBackFails(u) ==
    /\ At("rollback")
    /\ u \in op.todo \cap Live
    /\ op.unit \in op.todo => u = op.unit
    /\ FaultAgain
    /\ \E acted \in {scope, Controlled(u, Origin)} : Become(acted)
    /\ op' = [op EXCEPT !.todo = @ \ {u}, !.error = TRUE]
    /\ UNCHANGED <<disk, torn>>

Restore ==
    /\ At("rollback")
    /\ op.todo = {}
    /\ meta' = IF op.error THEN [op.was EXCEPT !.state = "transition-error"] ELSE op.was
    /\ Return
    /\ NoFault
    /\ UNCHANGED <<scope, record, history>>

RestoreFails ==
    /\ At("rollback")
    /\ op.todo = {}
    /\ FaultAgain
    /\ Goto("restoreError")
    /\ UNCHANGED <<scope, disk, history>>

RestoreError ==
    /\ At("restoreError")
    /\ meta' = [op.was EXCEPT !.state = "transition-error"]
    /\ Return
    /\ NoFault
    /\ UNCHANGED <<scope, record, history>>

RestoreErrorFails ==
    /\ At("restoreError")
    /\ FaultAgain
    /\ torn' = TRUE
    /\ Return
    /\ UNCHANGED <<scope, disk, era, unseen>>

-----------------------------------------------------------------------------
\* The command ends here: killed, or an error nothing handles.
Kill ==
    /\ ~At("idle")
    /\ Fault
    /\ Return
    /\ torn' = (torn \/ op.at \in {"transition", "rollback", "restoreError"})
    /\ UNCHANGED <<scope, disk, era, unseen>>

Register(u) ==
    /\ scope[u] = "spawning"
    /\ scope' = [scope EXCEPT ![u] = "running"]
    /\ NoFault
    /\ UNCHANGED <<disk, op, history>>

Exit(u) ==
    /\ scope[u] \in {"spawning", "running"}
    /\ Become([scope EXCEPT ![u] = "absent"])
    /\ NoFault
    /\ UNCHANGED <<disk, op, torn>>

\* A file is damaged while no command works on it.
Edit ==
    /\ At("idle")
    /\ edits < MaxEdits
    /\ edits' = edits + 1
    /\ UNCHANGED <<scope, op, waiting, faults, history>>
    /\ \/ Readable /\ meta' = Damaged /\ UNCHANGED record
       \/ \E u \in Unit : /\ record[u] = "good"
                          /\ record' = [record EXCEPT ![u] = "damaged"]
                          /\ UNCHANGED meta

-----------------------------------------------------------------------------
\* What a command that has begun does next.
Step ==
    \/ StartUnit \/ StartSpawn \/ StartReady \/ StartSave \/ StartFails
    \/ Collect \/ CollectFails
    \/ \E u \in Unit : StopUnit(u) \/ StopUnitFails(u)
    \/ Unlink \/ Close \/ CloseError
    \/ RunRecord \/ RunRecordFails \/ RunUndo \/ RunUndoFails
    \/ StopApp \/ StopAppFails \/ DropRecord
    \/ \E u \in Unit : TransitionUnit(u) \/ TransitionUnitFails(u)
    \/ TransitionSave \/ TransitionSaveFails
    \/ \E u \in Unit : RollBack(u) \/ RollBackFails(u)
    \/ Restore \/ RestoreFails \/ RestoreError \/ RestoreErrorFails

Begin ==
    \/ StartBegin \/ StopBegin \/ RecoverBegin \/ RunBegin \/ StopAppBegin
    \/ PauseBegin \/ PauseRefused \/ ResumeBegin

Next ==
    \/ Begin \/ Step \/ Kill
    \/ \E u \in Unit : RunWaited(u) \/ WaiterKilled(u) \/ Register(u) \/ Exit(u)
    \/ Edit

Spec == Init /\ [][Next]_vars

\* A command runs to its end and systemd answers systemd-run; an operator who
\* can stop the session, or else recover it, does so sooner or later.
FairSpec ==
    /\ Spec
    /\ WF_vars(Step)
    /\ SF_vars(StopBegin \/ RecoverBegin)
    /\ \A u \in Unit : WF_vars(Register(u))

-----------------------------------------------------------------------------
\* Scopes some command could see, and has not stopped since.
Seen == Live \ unseen

\* When the cleanup of a stop, a recovery or a failed start has succeeded,
\* nothing of the realm that systemd could show runs: recorded or not, of this
\* session or of an earlier one, whichever command was killed before.
CleanedMeansGone == At("close") => Live \subseteq op.late

\* No compositor and no app of an earlier session runs beside those of a later
\* one, whatever was killed or damaged in between.
OneSession == \A u, v \in Seen : era[u] = era[v]

\* What session.json says of the freezer is so for every scope no look has
\* missed, except while a transition runs and after one that was cut short; one
\* that failed has put these scopes back or says transition-error.
FreezerAsStated ==
    /\ Readable /\ meta.state \in {"running", "paused"} /\ ~torn
    /\ op.at \notin {"transition", "rollback", "restoreError"}
    => \A u \in Seen : scope[u] = IF meta.state = "paused" THEN "frozen" ELSE "running"

\* What is on disk is what its readers accept, and what it says of the freezer
\* is so.
LifecycleInv == TypeOK /\ FreezerAsStated

\* Only the `run' that waits for an app drops the record of one whose scope a
\* look can find, or a record nobody can read: no pause that finds the app
\* frozen, no cleanup that fails between two scopes and no stop of an app does.
OthersKeepRecords ==
    [][\A u \in Unit : record[u] # None /\ record'[u] = None =>
         \/ u \in waiting \ waiting'
         \/ record[u] = "good" /\ u \notin Live \ unseen']_vars

\* Whatever is killed or fails, clients see sessions announced, brought up and
\* ended in order: none replaces one that is alive, and none is declared over
\* while its compositor still runs.
ImplementsRealmSession == Session!Spec

\* No sequence of kills, failures and damaged files leaves a realm that neither
\* stop nor recover clears.
ClearedAgain == []<>(Seen = {})
=============================================================================
