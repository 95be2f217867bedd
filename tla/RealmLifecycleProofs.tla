------------------------ MODULE RealmLifecycleProofs ------------------------
(***************************************************************************)
(* Proofs about the life of an agent realm, for any number of scopes, any  *)
(* commands and any number of kills, failures and damaged files.           *)
(*                                                                         *)
(* Two facts carry it.  A command that looks at the realm takes down what  *)
(* systemd cannot show it yet, so that whatever is not taken down is of    *)
(* the session that began after that look.  And between the listing of a   *)
(* cleanup and its end, the lock keeps new scopes away: what is up then    *)
(* was listed, or was on its way when the list was made.                   *)
(*                                                                         *)
(* The refinement of RealmSession adds what a command that has read        *)
(* session.json under the lock may rely on until its last write.           *)
(***************************************************************************)
EXTENDS RealmLifecycle, TLAPS

\* The scopes that are there or on their way, and were not missed by a look.
Known == {u \in Unit : scope[u] # "absent" /\ u \notin unseen}

Up(m) == m.state \in {"running", "paused", "transition-error"}

Transiting == {"transition", "rollback", "restoreError"}

Cleaning == {"collect", "stopUnits", "unlink", "close", "closeError"}

\* What a command is about where it is.
CommandInv ==
    /\ op.at \in {"unit", "spawn", "ready", "save"} => op.cmd = "start"
    /\ op.at \in {"spawn", "ready", "save", "record", "undo", "stopApp", "dropRecord"} => op.unit \in Unit
    /\ op.at \in Cleaning =>
         op.cmd \in {"start", "stop", "recover"} /\ (op.cmd = "stop" => op.was # None)
    /\ op.at \in Transiting => op.cmd \in {"pause", "resume"} /\ op.was # None /\ Up(op.was)

\* A cleanup has listed, or seen on its way, whatever is there.
CleanupInv ==
    /\ op.at \in {"stopUnits", "close"} => Spawning \subseteq op.late /\ Live \subseteq op.todo \cup op.late
    /\ op.at = "close" => op.todo = {}

\* The scope of a session that is up has been seen up, and is of its own era.
Owns(m) ==
    /\ m.unit \in Unit \ unseen
    /\ scope[m.unit] # "spawning"
    /\ scope[m.unit] # "absent" => era[m.unit] = m.unit

SessionInv ==
    /\ \A u \in unseen : scope[u] # "absent"
    /\ \A u, v \in Known : era[u] = era[v]
    /\ op.at \in {"unit", "spawn"} => Known = {}
    /\ op.at = "spawn" => scope[op.unit] = "absent"
    /\ op.at \in {"spawn", "ready"} => meta = [state |-> "starting", unit |-> op.unit]
    /\ op.at = "ready" =>
         /\ Known \subseteq {op.unit} /\ op.unit \notin unseen
         /\ scope[op.unit] # "frozen"
         /\ scope[op.unit] # "absent" => era[op.unit] = op.unit
    /\ op.at = "save" => meta = [state |-> "running", unit |-> op.unit]
    /\ Readable /\ Up(meta) => Owns(meta)
    /\ op.at \in Transiting => Owns(op.was) /\ \A u \in Known : scope[u] # "spawning"

\* What a state says of the freezer; a scope on its way is not frozen.
Holds(m) ==
    \A u \in Known : IF m.state = "paused" THEN scope[u] = "frozen" ELSE scope[u] # "frozen"

Calm(m) == m.state \in {"running", "paused"} /\ ~torn

\* What a transition has still to put back.
Undone == IF op.at = "transition" THEN op.tried ELSE op.todo

FreezerInv ==
    /\ Readable /\ Calm(meta) /\ op.at \notin Transiting => Holds(meta)
    /\ op.at = "transition" => \A u \in Known : scope[u] = Aim.scope \/ u \in op.todo
    /\ op.at \in {"transition", "rollback"} /\ Calm(op.was) /\ ~op.error =>
         IF Origin = (IF op.was.state = "paused" THEN "frozen" ELSE "running")
           THEN \A u \in Known \ Undone : scope[u] = Origin
           ELSE \A u \in Known : scope[u] # Origin /\ u \notin op.todo \cup op.tried

IInv == TypeOK /\ CommandInv /\ CleanupInv /\ SessionInv /\ FreezerInv

-----------------------------------------------------------------------------
\* The command that holds no lock.
LEMMA IdleTyped == Idle \in Op /\ Idle.at = "idle"
BY DEF Idle, Op, Location

\* A state is all that changes in session.json.
LEMMA StateOf ==
    ASSUME NEW m \in Meta, NEW x \in Session!State
    PROVE  /\ [m EXCEPT !.state = x] \in Meta
           /\ [m EXCEPT !.state = x].state = x /\ [m EXCEPT !.state = x].unit = m.unit
BY DEF Meta, Session!Meta

\* Before the first session there is nothing to say.
LEMMA InitIInv == Init => IInv
<1> SUFFICES ASSUME Init PROVE IInv
  OBVIOUS
<1>1. TypeOK
  <2>1. op \in Op /\ faults \in 0 .. MaxFaults /\ edits \in 0 .. MaxEdits
    BY IdleTyped, RealmAssumption DEF Init
  <2> QED BY <2>1 DEF Init, TypeOK
<1>2. op.at = "idle" /\ Known = {} /\ unseen = {} /\ ~Readable
  BY IdleTyped DEF Init, Known, Readable, Session!Readable
<1>3. CommandInv /\ CleanupInv /\ SessionInv /\ FreezerInv
  BY <1>2 DEF CommandInv, CleanupInv, SessionInv, FreezerInv, Cleaning, Transiting
<1> QED BY <1>1, <1>3 DEF IInv

\* The bounds on faults are kept.
LEMMA FaultTyped ==
    ASSUME IInv, Fault \/ NoFault \/ FaultAgain
    PROVE  faults' \in 0 .. MaxFaults /\ edits' \in 0 .. MaxEdits /\ waiting' \subseteq Unit
BY RealmAssumption DEF IInv, TypeOK, Fault, NoFault, FaultAgain

-----------------------------------------------------------------------------
\* A command ends and frees the lock, with the last word in session.json: a
\* session that is up is still its own, and what it says of the freezer is so.
LEMMA EndStep ==
    ASSUME IInv, op' = Idle, UNCHANGED <<scope, era, unseen>>,
           meta' \in Meta \cup {None, Damaged},
           Readable' /\ Up(meta') => Owns(meta'),
           Readable' /\ Calm(meta)' => Holds(meta'),
           record' \in [Unit -> {None, "good", "damaged"}], waiting' \subseteq Unit,
           faults' \in 0 .. MaxFaults, edits' \in 0 .. MaxEdits, torn' \in BOOLEAN
    PROVE  IInv'
<1>1. op' \in Op /\ op'.at = "idle"
  BY IdleTyped
<1>2. TypeOK'
  BY <1>1 DEF IInv, TypeOK
<1>3. CommandInv' /\ CleanupInv'
  BY <1>1 DEF CommandInv, CleanupInv, Transiting, Cleaning
<1>4. SessionInv'
  BY <1>1 DEF IInv, SessionInv, Known, Transiting, Owns
<1>5. FreezerInv'
  BY <1>1 DEF FreezerInv, Known, Holds
<1> QED BY <1>2, <1>3, <1>4, <1>5 DEF IInv

\* A command ends without a word there; a transition then is torn.
LEMMA LeaveStep ==
    ASSUME IInv, op' = Idle, UNCHANGED <<scope, meta, era, unseen>>,
           torn' \in BOOLEAN, torn \/ op.at \in Transiting => torn',
           record' \in [Unit -> {None, "good", "damaged"}], waiting' \subseteq Unit,
           faults' \in 0 .. MaxFaults, edits' \in 0 .. MaxEdits
    PROVE  IInv'
<1>1. meta \in Meta \cup {None, Damaged} /\ (Readable /\ Up(meta) => Owns(meta))
  BY DEF IInv, TypeOK, SessionInv
<1>2. Readable' /\ Calm(meta)' => Holds(meta')
  BY DEF IInv, FreezerInv, Calm, Readable, Session!Readable
<1> QED BY <1>1, <1>2, EndStep DEF Readable, Session!Readable, Owns, Up

\* A command goes on to another step, and at most records change.
LEMMA GoStep ==
    ASSUME IInv, NEW location \in Location, Goto(location),
           UNCHANGED <<scope, meta, era, unseen, torn>>,
           location \in {"collect", "closeError", "close", "undo", "restoreError"},
           location \in {"collect", "closeError"} =>
             op.at \in {"ready", "save"} \/ op.at \in Cleaning,
           location = "close" => op.at = "stopUnits" /\ op.todo = {},
           location = "undo" => op.at = "record",
           location = "restoreError" => op.at = "rollback",
           record' \in [Unit -> {None, "good", "damaged"}], waiting' \subseteq Unit,
           faults' \in 0 .. MaxFaults, edits' \in 0 .. MaxEdits
    PROVE  IInv'
<1>1. /\ op' \in Op /\ op'.at = location /\ op'.cmd = op.cmd /\ op'.unit = op.unit
      /\ op'.was = op.was /\ op'.todo = op.todo /\ op'.tried = op.tried
      /\ op'.late = op.late /\ op'.error = op.error
  BY DEF Goto, IInv, TypeOK, Op
<1>2. TypeOK'
  BY <1>1 DEF IInv, TypeOK
<1>3. CommandInv' /\ CleanupInv'
  BY <1>1 DEF IInv, CommandInv, CleanupInv, Transiting, Cleaning, Spawning, Live
<1>4. SessionInv'
  BY <1>1 DEF IInv, SessionInv, Known, Transiting, Owns, Readable, Session!Readable
<1>5. FreezerInv'
  BY <1>1 DEF IInv, FreezerInv, Known, Transiting, Cleaning, Holds, Calm, Readable, Session!Readable
<1> QED BY <1>2, <1>3, <1>4, <1>5 DEF IInv

-----------------------------------------------------------------------------
\* start() has found nothing alive: what is on its way is of no later session.
LEMMA StartBeginStep == ASSUME IInv, StartBegin PROVE IInv'
<1>1. /\ op' \in Op /\ op'.at = "unit" /\ op'.cmd = "start" /\ op'.unit = None
      /\ op'.was = None /\ op'.todo = {} /\ op'.tried = {} /\ op'.late = {}
      /\ op'.error = FALSE
  BY DEF StartBegin, Take, Idle, Op, Location
<1>2. faults' \in 0 .. MaxFaults /\ edits' \in 0 .. MaxEdits /\ waiting' \subseteq Unit
  BY FaultTyped DEF StartBegin, Look
<1>3. TypeOK'
  BY <1>1, <1>2 DEF IInv, TypeOK, Spawning, Live, Meta, Session!Meta, Session!State, StartBegin,
       Look
<1>4. CommandInv' /\ CleanupInv'
  BY <1>1 DEF CommandInv, CleanupInv, Transiting
<1>5. SessionInv'
  BY <1>1 DEF IInv, TypeOK, SessionInv, Known, Up, Transiting, Spawning, Live, StartBegin, Look
<1>6. FreezerInv'
  BY <1>1 DEF FreezerInv, Calm, StartBegin
<1> QED BY <1>3, <1>4, <1>5, <1>6 DEF IInv

\* A name for the compositor's scope that nothing has.
LEMMA StartUnitStep == ASSUME IInv, StartUnit PROVE IInv'
<1>1. NewUnit \in Fresh
  BY DEF StartUnit, NewUnit
<1>2. /\ op' \in Op /\ op'.at = "spawn" /\ op'.cmd = op.cmd /\ op'.unit = NewUnit
      /\ op'.was = op.was /\ op'.todo = op.todo /\ op'.tried = op.tried
      /\ op'.late = op.late /\ op'.error = op.error
  BY <1>1 DEF StartUnit, Fresh, Op, Location, IInv, TypeOK
<1>3. TypeOK'
  BY <1>1, <1>2 DEF IInv, TypeOK, Meta, Session!Meta, Session!State, NoFault, history, StartUnit,
       Fresh
<1>4. CommandInv' /\ CleanupInv'
  BY <1>1 DEF IInv, CommandInv, CleanupInv, Transiting, At, StartUnit, Fresh
<1>5. SessionInv'
  BY <1>1 DEF IInv, SessionInv, Known, Transiting, Owns, At, history, StartUnit, Fresh
<1>6. FreezerInv'
  BY DEF FreezerInv, Calm, StartUnit
<1> QED BY <1>3, <1>4, <1>5, <1>6 DEF IInv

\* systemd-run is started for it.
LEMMA StartSpawnStep == ASSUME IInv, StartSpawn PROVE IInv'
<1>1. /\ op' \in Op /\ op'.at = "ready" /\ op'.cmd = op.cmd /\ op'.unit = op.unit
      /\ op'.was = op.was /\ op'.todo = op.todo /\ op'.tried = op.tried
      /\ op'.late = op.late /\ op'.error = op.error
  BY DEF StartSpawn, Goto, Op, Location, IInv, TypeOK
<1>2. TypeOK'
  BY <1>1 DEF IInv, TypeOK, NoFault, disk, StartSpawn, Spawn
<1>3. CommandInv' /\ CleanupInv'
  BY <1>1 DEF IInv, CommandInv, CleanupInv, Transiting, At, StartSpawn
<1>4. SessionInv'
  BY <1>1 DEF IInv, TypeOK, SessionInv, Known, Up, Transiting, At, disk, StartSpawn, Spawn
<1>5. FreezerInv'
  BY <1>1 DEF IInv, SessionInv, FreezerInv, Calm, At, disk, StartSpawn
<1> QED BY <1>2, <1>3, <1>4, <1>5 DEF IInv

\* The compositor answers: its scope is all that is there.
LEMMA StartReadyStep == ASSUME IInv, StartReady PROVE IInv'
<1>1. /\ op' \in Op /\ op'.at = "save" /\ op'.cmd = op.cmd /\ op'.unit = op.unit
      /\ op'.was = op.was /\ op'.todo = op.todo /\ op'.tried = op.tried
      /\ op'.late = op.late /\ op'.error = op.error
  BY DEF StartReady, Goto, Op, Location, IInv, TypeOK
<1>2. op.unit \in Unit /\ meta' = [state |-> "running", unit |-> op.unit] /\ ~torn'
      /\ UNCHANGED <<scope, record, era, unseen, faults, edits, waiting>>
  BY DEF StartReady, At, NoFault, IInv, CommandInv, SessionInv
<1>3. TypeOK'
  <2>1. meta' \in Meta
    BY <1>2 DEF Meta, Session!Meta, Session!State
  <2>2. torn' = FALSE
    BY DEF StartReady
  <2> QED
    BY <1>1, <1>2, <2>1, <2>2 DEF IInv, TypeOK
<1>4. CommandInv' /\ CleanupInv'
  BY <1>1, <1>2 DEF IInv, CommandInv, CleanupInv, Transiting, Cleaning, At, StartReady
<1>5. SessionInv'
  BY <1>1, <1>2 DEF IInv, SessionInv, Known, Owns, Transiting, At, StartReady
<1>6. FreezerInv'
  BY <1>1, <1>2 DEF IInv, SessionInv, FreezerInv, Known, Holds, Transiting, At, StartReady
<1> QED BY <1>3, <1>4, <1>5, <1>6 DEF IInv

\* stop() begins to clean up.
LEMMA StopBeginStep == ASSUME IInv, StopBegin PROVE IInv'
<1>1. PICK was \in Meta \cup {None} :
        /\ op' = [[Idle EXCEPT !.at = "collect", !.was = was] EXCEPT !.cmd = "stop"]
        /\ was # None
  BY MetaAssumption DEF StopBegin, Take, Readable, Session!Readable, IInv, TypeOK
<1>2. /\ op' \in Op /\ op'.at = "collect" /\ op'.cmd = "stop" /\ op'.unit = None
      /\ op'.was = was /\ op'.todo = {} /\ op'.tried = {} /\ op'.late = {}
      /\ op'.error = FALSE
  BY <1>1 DEF Idle, Op, Location
<1>3. op.at = "idle" /\ UNCHANGED <<scope, disk, waiting, faults, edits, history>>
  BY DEF StopBegin, NoFault, Take, At
<1>4. TypeOK'
  BY <1>2, <1>3 DEF IInv, TypeOK, disk, history
<1>5. CommandInv' /\ CleanupInv'
  BY <1>1 DEF CommandInv, CleanupInv, Transiting
<1>6. SessionInv'
  BY <1>2, <1>3 DEF IInv, SessionInv, Known, Transiting, Owns, Readable, Session!Readable, disk,
       history
<1>7. FreezerInv'
  BY <1>2, <1>3 DEF IInv, FreezerInv, Known, Transiting, Holds, Calm, Readable, Session!Readable,
       disk, history
<1> QED BY <1>4, <1>5, <1>6, <1>7 DEF IInv

\* recover() does, when the session is not alive.
LEMMA RecoverBeginStep == ASSUME IInv, RecoverBegin PROVE IInv'
<1>1. PICK was \in Meta \cup {None} :
        /\ op' = [[Idle EXCEPT !.at = "collect", !.was = was] EXCEPT !.cmd = "recover"]
  BY MetaAssumption DEF RecoverBegin, Take, Readable, Session!Readable, IInv, TypeOK
<1>2. /\ op' \in Op /\ op'.at = "collect" /\ op'.cmd = "recover" /\ op'.unit = None
      /\ op'.was = was /\ op'.todo = {} /\ op'.tried = {} /\ op'.late = {}
      /\ op'.error = FALSE
  BY <1>1 DEF Idle, Op, Location
<1>3. op.at = "idle" /\ UNCHANGED <<scope, disk, waiting, faults, edits, history>>
  BY DEF RecoverBegin, NoFault, Take, At
<1>4. TypeOK'
  BY <1>2, <1>3 DEF IInv, TypeOK, disk, history
<1>5. CommandInv' /\ CleanupInv'
  BY <1>2 DEF CommandInv, CleanupInv, Transiting
<1>6. SessionInv'
  BY <1>2, <1>3 DEF IInv, SessionInv, Known, Transiting, Owns, Readable, Session!Readable, disk,
       history
<1>7. FreezerInv'
  BY <1>2, <1>3 DEF IInv, FreezerInv, Known, Transiting, Holds, Calm, Readable, Session!Readable,
       disk, history
<1> QED BY <1>4, <1>5, <1>6, <1>7 DEF IInv

\* cleanup_groups() lists the scopes, and takes down those on their way.
LEMMA CollectStep == ASSUME IInv, Collect PROVE IInv'
<1>1. Broken \in BOOLEAN
  BY DEF Broken
<1>2. Listed \ Absent \subseteq Unit /\ Live \subseteq Listed \ Absent /\ Spawning \subseteq Unit
  BY DEF Listed, Named, Absent, Live, Spawning, Readable, Session!Readable, Meta, Session!Meta, IInv, TypeOK
<1>3. PICK todo \in SUBSET Unit, broken \in BOOLEAN, late \in SUBSET Unit :
        /\ todo = Listed \ Absent /\ broken = Broken /\ late = Spawning
  BY <1>1, <1>2
<1>4. /\ op' \in Op /\ op'.at = "stopUnits" /\ op'.cmd = op.cmd /\ op'.unit = op.unit
      /\ op'.was = op.was /\ op'.todo = todo /\ op'.tried = op.tried
      /\ op'.late = late /\ op'.error = broken
  BY <1>3 DEF Collect, Op, Location, IInv, TypeOK
<1>5. TypeOK'
  BY <1>4 DEF IInv, TypeOK, NoFault, disk, Collect
<1>6. CommandInv' /\ CleanupInv'
  BY <1>2 DEF IInv, CommandInv, CleanupInv, Transiting, Cleaning, Spawning, Live, At, Collect
<1>7. SessionInv'
  BY DEF IInv, SessionInv, Known, Transiting, Owns, Spawning, Readable, Session!Readable, disk,
       Collect
<1>8. FreezerInv'
  BY DEF IInv, FreezerInv, Known, Transiting, Holds, Calm, Readable, Session!Readable, At, disk,
       Collect
<1> QED BY <1>5, <1>6, <1>7, <1>8 DEF IInv

\* A listed scope is stopped.
LEMMA StopUnitStep == ASSUME IInv, NEW u \in Unit, StopUnit(u) PROVE IInv'
<1>1. /\ op' \in Op /\ op'.at = op.at /\ op'.cmd = op.cmd /\ op'.unit = op.unit
      /\ op'.was = op.was /\ op'.todo = op.todo \ {u} /\ op'.tried = op.tried
      /\ op'.late = op.late /\ op'.error = op.error
  BY DEF StopUnit, Op, IInv, TypeOK
<1>2. TypeOK'
  BY <1>1 DEF IInv, TypeOK, NoFault, disk, StopUnit, Become, Controlled
<1>3. CommandInv' /\ CleanupInv'
  BY DEF IInv, TypeOK, CommandInv, CleanupInv, Spawning, Live, StopUnit, Become, Controlled
<1>4. SessionInv'
  BY DEF IInv, SessionInv, Known, Owns, Readable, Session!Readable, At, disk, StopUnit, Become,
       Controlled
<1>5. FreezerInv'
  BY DEF IInv, FreezerInv, Known, Holds, Calm, Readable, Session!Readable, At, disk, StopUnit,
       Become, Controlled
<1> QED BY <1>2, <1>3, <1>4, <1>5 DEF IInv

\* systemctl has failed to stop it, or so it seems.
LEMMA StopUnitFailsStep == ASSUME IInv, NEW u \in Unit, StopUnitFails(u) PROVE IInv'
<1>1. /\ op' \in Op /\ op'.at = "closeError" /\ op'.cmd = op.cmd /\ op'.unit = op.unit
      /\ op'.was = op.was /\ op'.todo = op.todo /\ op'.tried = op.tried
      /\ op'.late = op.late /\ op'.error = op.error
  BY DEF StopUnitFails, Goto, Op, Location, IInv, TypeOK
<1>2. faults' \in 0 .. MaxFaults /\ edits' \in 0 .. MaxEdits /\ waiting' \subseteq Unit
  BY FaultTyped DEF StopUnitFails
<1>3. TypeOK'
  BY <1>1, <1>2 DEF IInv, TypeOK, disk, StopUnitFails, Become, Controlled
<1>4. CommandInv' /\ CleanupInv'
  BY <1>1 DEF IInv, CommandInv, CleanupInv, Transiting, Cleaning, At, StopUnitFails
<1>5. SessionInv'
  BY <1>1 DEF IInv, TypeOK, SessionInv, Known, Transiting, Owns, Readable, Session!Readable, disk,
       StopUnitFails, Become, Controlled
<1>6. FreezerInv'
  BY <1>1 DEF IInv, TypeOK, FreezerInv, Known, Transiting, Holds, Calm, Readable, Session!Readable,
       At, disk, StopUnitFails, Become, Controlled
<1> QED BY <1>3, <1>4, <1>5, <1>6 DEF IInv

-----------------------------------------------------------------------------
\* An app starts in the era of the session that is running.
LEMMA RunBeginStep == ASSUME IInv, RunBegin PROVE IInv'
<1>1. NewUnit \in Fresh
  BY DEF RunBegin, NewUnit
<1>2. /\ op' \in Op /\ op'.at = "record" /\ op'.cmd = "run" /\ op'.unit = NewUnit
      /\ op'.was = None /\ op'.todo = {} /\ op'.tried = {} /\ op'.late = {}
      /\ op'.error = FALSE
  BY <1>1 DEF RunBegin, Take, Idle, Fresh, Op, Location, IInv, TypeOK
<1>3. /\ meta.unit \in Live /\ meta.state = "running" /\ Owns(meta) /\ Spawn(NewUnit, meta.unit)
      /\ meta \in Meta /\ op.at = "idle" /\ UNCHANGED <<disk, torn, faults, edits, waiting>>
  BY DEF RunBegin, Take, At, NoFault, Alive, Up, Readable, Session!Readable, IInv, TypeOK,
       SessionInv
<1>4. TypeOK'
  BY <1>2, <1>3 DEF IInv, TypeOK, Meta, Session!Meta, disk, Spawn
<1>5. CommandInv' /\ CleanupInv'
  BY <1>1, <1>2 DEF CommandInv, CleanupInv, Transiting, Cleaning, Fresh
<1>6. SessionInv'
  BY <1>1, <1>2, <1>3 DEF IInv, TypeOK, SessionInv, Known, Transiting, Owns, Live, disk, Spawn,
       Fresh
<1>7. FreezerInv'
  BY <1>2, <1>3 DEF IInv, FreezerInv, Known, Transiting, Holds, Calm, Readable, Session!Readable,
       disk, Spawn
<1> QED BY <1>4, <1>5, <1>6, <1>7 DEF IInv

\* A scope that nothing will record is stopped, or an app is.
LEMMA AppGoneStep == ASSUME IInv, RunUndo \/ StopApp \/ StopAppFails PROVE IInv'
<1>1. op' = Idle \/ (op' = [op EXCEPT !.at = "dropRecord"] /\ op.unit \in Unit)
  BY DEF RunUndo, StopApp, StopAppFails, Return, Goto, At, IInv, CommandInv
<1>2. op' \in Op /\ op'.at \in {"idle", "dropRecord"} /\ (op'.at = "dropRecord" => op'.unit \in Unit)
  BY <1>1, IdleTyped DEF Op, Location, IInv, TypeOK
<1>3. faults' \in 0 .. MaxFaults /\ edits' \in 0 .. MaxEdits /\ waiting' \subseteq Unit
  BY FaultTyped DEF RunUndo, StopApp, StopAppFails
<1>4. TypeOK'
  BY <1>1, <1>2, <1>3 DEF IInv, TypeOK, Idle, Goto, disk, RunUndo, StopApp, StopAppFails, Become,
       Controlled
<1>5. CommandInv' /\ CleanupInv'
  BY <1>2 DEF CommandInv, CleanupInv, Transiting, Cleaning
<1>6. SessionInv'
  BY <1>2 DEF IInv, TypeOK, SessionInv, Known, Transiting, Owns, Spawning, Live, Readable,
       Session!Readable, disk, RunUndo, StopApp, StopAppFails, Become, Controlled
<1>7. FreezerInv'
  BY <1>2 DEF IInv, TypeOK, FreezerInv, Known, Transiting, Holds, Calm, Spawning, Live, Readable,
       Session!Readable, At, disk, RunUndo, StopApp, StopAppFails, Become, Controlled
<1> QED BY <1>4, <1>5, <1>6, <1>7 DEF IInv

\* stop_app() has found the record of the app.
LEMMA StopAppBeginStep == ASSUME IInv, StopAppBegin PROVE IInv'
<1>1. PICK u \in Unit : op' = [[Idle EXCEPT !.at = "stopApp", !.unit = u] EXCEPT !.cmd = "stop_app"]
  BY DEF StopAppBegin, Take
<1>2. /\ op' \in Op /\ op'.at = "stopApp" /\ op'.cmd = "stop_app" /\ op'.unit = u
      /\ op'.was = None /\ op'.todo = {} /\ op'.tried = {} /\ op'.late = {}
      /\ op'.error = FALSE
  BY <1>1 DEF Idle, Op, Location
<1>3. TypeOK'
  BY <1>2 DEF IInv, TypeOK, NoFault, disk, history, StopAppBegin
<1>4. CommandInv' /\ CleanupInv'
  BY <1>2 DEF CommandInv, CleanupInv, Transiting, Cleaning
<1>5. SessionInv'
  BY <1>2 DEF IInv, SessionInv, Known, Transiting, Owns, disk, history, StopAppBegin
<1>6. FreezerInv'
  BY DEF IInv, FreezerInv, Known, Transiting, Holds, Calm, At, disk, history, StopAppBegin, Take
<1> QED BY <1>3, <1>4, <1>5, <1>6 DEF IInv

\* A waiting command goes, with the record of its app or without.
LEMMA WaiterStep ==
    ASSUME IInv, NEW u \in Unit, RunWaited(u) \/ WaiterKilled(u)
    PROVE  IInv'
<1>1. TypeOK'
  BY DEF IInv, TypeOK, disk, history, RunWaited, WaiterKilled
<1>2. CommandInv' /\ CleanupInv'
  BY DEF IInv, CommandInv, CleanupInv, Spawning, Live, RunWaited, WaiterKilled
<1>3. SessionInv'
  BY DEF IInv, SessionInv, Known, Owns, Readable, Session!Readable, disk, history, RunWaited,
       WaiterKilled
<1>4. FreezerInv'
  BY DEF IInv, FreezerInv, Known, Holds, Calm, Undone, Aim, Origin, Readable, Session!Readable,
       disk, history, RunWaited, WaiterKilled
<1> QED BY <1>1, <1>2, <1>3, <1>4 DEF IInv

-----------------------------------------------------------------------------
\* pause() sees every known scope, and asks those that are not frozen yet.
LEMMA PauseBeginStep == ASSUME IInv, PauseBegin PROVE IInv'
<1>1. meta \in Meta /\ Up(meta) /\ Owns(meta) /\ meta # None /\ Readable
  BY MetaAssumption DEF PauseBegin, Pausable, Alive, Up, Readable, Session!Readable, IInv, TypeOK, SessionInv
<1>2. PICK overlooked \in SUBSET Live, todo \in SUBSET Live :
        /\ Look(overlooked)
        /\ todo = {u \in Live \ overlooked : scope[u] = "running"}
        /\ op' = [Transition(todo) EXCEPT !.cmd = "pause"]
  BY DEF PauseBegin, Take
<1>3. /\ op' \in Op /\ op'.at = "transition" /\ op'.cmd = "pause" /\ op'.unit = meta.unit
      /\ op'.was = meta /\ op'.todo = todo /\ op'.tried = {} /\ op'.late = {}
      /\ op'.error = FALSE
  BY <1>1, <1>2 DEF Transition, Idle, Op, Location, Live, Meta, Session!Meta
<1>4. faults' \in 0 .. MaxFaults /\ edits' \in 0 .. MaxEdits /\ waiting' \subseteq Unit
  BY <1>2, FaultTyped DEF Look
<1>5. op.at = "idle" /\ UNCHANGED <<scope, meta, era, torn>>
  BY DEF PauseBegin, disk, Take, At
<1>6. record' \in [Unit -> {None, "good", "damaged"}]
  BY DEF PauseBegin, disk, Pruned, IInv, TypeOK
<1>7. TypeOK'
  BY <1>2, <1>3, <1>4, <1>5, <1>6 DEF IInv, TypeOK, Spawning, Live, Look
<1>8. CommandInv' /\ CleanupInv'
  BY <1>1, <1>3 DEF CommandInv, CleanupInv, Cleaning
<1>9. SessionInv'
  BY <1>1, <1>2, <1>3, <1>5 DEF IInv, SessionInv, Known, Owns, Spawning, Live, Look
<1>10. FreezerInv'
  BY <1>1, <1>2, <1>3, <1>5 DEF IInv, TypeOK, FreezerInv, Known, Transiting, Holds, Calm, Aim,
       Origin, Spawning, Live, Look
<1> QED BY <1>7, <1>8, <1>9, <1>10 DEF IInv

\* resume() sees every known scope, and asks those that are not running yet.
LEMMA ResumeBeginStep == ASSUME IInv, ResumeBegin PROVE IInv'
<1>1. meta \in Meta /\ Up(meta) /\ Owns(meta) /\ meta # None /\ Readable
  BY MetaAssumption DEF ResumeBegin, Pausable, Alive, Up, Readable, Session!Readable, IInv, TypeOK, SessionInv
<1>2. PICK overlooked \in SUBSET Live, todo \in SUBSET Live :
        /\ Look(overlooked)
        /\ todo = {u \in Live \ overlooked : scope[u] = "frozen"}
        /\ op' = [Transition(todo) EXCEPT !.cmd = "resume"]
  BY DEF ResumeBegin, Take
<1>3. /\ op' \in Op /\ op'.at = "transition" /\ op'.cmd = "resume"
      /\ op'.unit = meta.unit /\ op'.was = meta /\ op'.todo = todo /\ op'.tried = {}
      /\ op'.late = {} /\ op'.error = FALSE
  BY <1>1, <1>2 DEF Transition, Idle, Op, Location, Live, Meta, Session!Meta
<1>4. faults' \in 0 .. MaxFaults /\ edits' \in 0 .. MaxEdits /\ waiting' \subseteq Unit
  BY <1>2, FaultTyped DEF Look
<1>5. op.at = "idle" /\ UNCHANGED <<scope, meta, era, torn>>
  BY DEF ResumeBegin, disk, Take, At
<1>6. record' \in [Unit -> {None, "good", "damaged"}]
  BY DEF ResumeBegin, disk, Pruned, IInv, TypeOK
<1>7. TypeOK'
  BY <1>2, <1>3, <1>4, <1>5, <1>6 DEF IInv, TypeOK, Spawning, Live, Look
<1>8. CommandInv' /\ CleanupInv'
  BY <1>1, <1>3 DEF CommandInv, CleanupInv, Cleaning
<1>9. SessionInv'
  BY <1>1, <1>2, <1>3, <1>5 DEF IInv, SessionInv, Known, Owns, Spawning, Live, Look
<1>10. FreezerInv'
  BY <1>1, <1>2, <1>3, <1>5 DEF IInv, TypeOK, FreezerInv, Known, Transiting, Holds, Calm, Aim,
       Origin, Spawning, Live, Look
<1> QED BY <1>7, <1>8, <1>9, <1>10 DEF IInv

\* A pause that is refused has looked, and may have dropped records.
LEMMA PauseRefusedStep == ASSUME IInv, PauseRefused PROVE IInv'
<1>1. op' = op /\ op.at = "idle" /\ record' \in [Unit -> {None, "good", "damaged"}]
  BY DEF PauseRefused, At, Pruned, IInv, TypeOK
<1>2. faults' \in 0 .. MaxFaults /\ edits' \in 0 .. MaxEdits /\ waiting' \subseteq Unit
  BY FaultTyped DEF PauseRefused, Look
<1>3. TypeOK'
  BY <1>1, <1>2 DEF IInv, TypeOK, Spawning, Live, PauseRefused, Look
<1>4. CommandInv' /\ CleanupInv'
  BY <1>1 DEF CommandInv, CleanupInv, Transiting, Cleaning
<1>5. SessionInv'
  BY <1>1 DEF IInv, SessionInv, Known, Transiting, Owns, Spawning, Live, Readable, Session!Readable,
       PauseRefused, Look
<1>6. FreezerInv'
  BY <1>1 DEF IInv, FreezerInv, Known, Holds, Calm, Readable, Session!Readable, PauseRefused, Look
<1> QED BY <1>3, <1>4, <1>5, <1>6 DEF IInv

\* One scope freezes or thaws.
LEMMA TransitionUnitStep == ASSUME IInv, NEW u \in Unit, TransitionUnit(u) PROVE IInv'
<1>1. /\ op' \in Op /\ op'.at = op.at /\ op'.cmd = op.cmd /\ op'.unit = op.unit
      /\ op'.was = op.was /\ op'.todo = op.todo \ {u} /\ op'.tried = op.tried \cup {u}
      /\ op'.late = op.late /\ op'.error = op.error
  BY DEF TransitionUnit, Op, IInv, TypeOK
<1>2. TypeOK'
  BY <1>1 DEF IInv, TypeOK, Aim, NoFault, disk, TransitionUnit, Become, Controlled
<1>3. CommandInv' /\ CleanupInv'
  BY DEF IInv, CommandInv, CleanupInv, At, TransitionUnit
<1>4. SessionInv'
  BY DEF IInv, SessionInv, Known, Owns, Aim, Live, Readable, Session!Readable, At, disk,
       TransitionUnit, Become, Controlled
<1>5. FreezerInv'
  BY DEF IInv, TypeOK, SessionInv, FreezerInv, Known, Transiting, Calm, Undone, Aim, Origin, Live,
       At, TransitionUnit, Become, Controlled
<1> QED BY <1>2, <1>3, <1>4, <1>5 DEF IInv

\* systemctl has failed to freeze or thaw it, or so it seems.
LEMMA TransitionUnitFailsStep ==
    ASSUME IInv, NEW u \in Unit, TransitionUnitFails(u)
    PROVE  IInv'
<1>1. /\ op' \in Op /\ op'.at = "rollback" /\ op'.cmd = op.cmd /\ op'.unit = op.unit
      /\ op'.was = op.was /\ op'.todo = op.tried \cup {u}
      /\ op'.tried = op.tried \cup {u} /\ op'.late = op.late /\ op'.error = op.error
  BY DEF TransitionUnitFails, Op, Location, IInv, TypeOK
<1>2. faults' \in 0 .. MaxFaults /\ edits' \in 0 .. MaxEdits /\ waiting' \subseteq Unit
  BY FaultTyped DEF TransitionUnitFails
<1>3. TypeOK'
  BY <1>1, <1>2 DEF IInv, TypeOK, Aim, disk, TransitionUnitFails, Become, Controlled
<1>4. CommandInv' /\ CleanupInv'
  BY DEF IInv, CommandInv, CleanupInv, Transiting, Cleaning, At, TransitionUnitFails
<1>5. SessionInv'
  BY DEF IInv, TypeOK, SessionInv, Known, Transiting, Owns, Aim, Live, Readable, Session!Readable,
       At, disk, TransitionUnitFails, Become, Controlled
<1>6. FreezerInv'
  BY DEF IInv, TypeOK, FreezerInv, Known, Transiting, Calm, Undone, Origin, Live, At,
       TransitionUnitFails, Become, Controlled
<1> QED BY <1>3, <1>4, <1>5, <1>6 DEF IInv

\* The new state may be on disk already when the undo begins.
LEMMA TransitionSaveFailsStep == ASSUME IInv, TransitionSaveFails PROVE IInv'
<1>1. /\ op' \in Op /\ op'.at = "rollback" /\ op'.cmd = op.cmd /\ op'.unit = op.unit
      /\ op'.was = op.was /\ op'.todo = op.tried /\ op'.tried = op.tried
      /\ op'.late = op.late /\ op'.error = op.error
  BY DEF TransitionSaveFails, Op, Location, IInv, TypeOK
<1>2. faults' \in 0 .. MaxFaults /\ edits' \in 0 .. MaxEdits /\ waiting' \subseteq Unit
  BY FaultTyped DEF TransitionSaveFails
<1>3. (meta' \in Meta /\ Up(meta') /\ meta'.unit = op.was.unit) \/ meta' = meta
  BY DEF TransitionSaveFails, Transitioned, Aim, Up, At, Transiting, Meta, Session!Meta,
       Session!State, IInv, TypeOK, Op, CommandInv
<1>4. TypeOK'
  BY <1>1, <1>2, <1>3 DEF IInv, TypeOK, history, TransitionSaveFails
<1>5. CommandInv' /\ CleanupInv'
  BY DEF IInv, CommandInv, CleanupInv, Transiting, Cleaning, At, TransitionSaveFails
<1>6. SessionInv'
  BY <1>3 DEF IInv, SessionInv, Known, Transiting, Owns, Readable, Session!Readable, At, history,
       TransitionSaveFails
<1>7. FreezerInv'
  BY DEF IInv, FreezerInv, Known, Transiting, Calm, Undone, Origin, At, history, TransitionSaveFails
<1> QED BY <1>4, <1>5, <1>6, <1>7 DEF IInv

\* A scope is put back.
LEMMA RollBackStep == ASSUME IInv, NEW u \in Unit, RollBack(u) PROVE IInv'
<1>1. /\ op' \in Op /\ op'.at = op.at /\ op'.cmd = op.cmd /\ op'.unit = op.unit
      /\ op'.was = op.was /\ op'.todo = op.todo \ {u} /\ op'.tried = op.tried
      /\ op'.late = op.late /\ op'.error = op.error
  BY DEF RollBack, Op, IInv, TypeOK
<1>2. TypeOK'
  BY <1>1 DEF IInv, TypeOK, Origin, NoFault, disk, RollBack, Become, Controlled
<1>3. CommandInv' /\ CleanupInv'
  BY DEF IInv, CommandInv, CleanupInv, At, RollBack
<1>4. SessionInv'
  BY DEF IInv, SessionInv, Known, Owns, Origin, Live, Readable, Session!Readable, At, disk,
       RollBack, Become, Controlled
<1>5. FreezerInv'
  BY DEF IInv, TypeOK, SessionInv, FreezerInv, Known, Transiting, Calm, Undone, Origin, Live, At,
       RollBack, Become, Controlled
<1> QED BY <1>2, <1>3, <1>4, <1>5 DEF IInv

\* It could not be put back: the state will say so.
LEMMA RollBackFailsStep == ASSUME IInv, NEW u \in Unit, RollBackFails(u) PROVE IInv'
<1>1. /\ op' \in Op /\ op'.at = op.at /\ op'.cmd = op.cmd /\ op'.unit = op.unit
      /\ op'.was = op.was /\ op'.todo = op.todo \ {u} /\ op'.tried = op.tried
      /\ op'.late = op.late /\ op'.error = TRUE
  BY DEF RollBackFails, Op, IInv, TypeOK
<1>2. TypeOK'
  BY <1>1 DEF IInv, TypeOK, Origin, NoFault, FaultAgain, disk, RollBackFails, Become, Controlled
<1>3. CommandInv' /\ CleanupInv'
  BY DEF IInv, CommandInv, CleanupInv, At, RollBackFails
<1>4. SessionInv'
  BY DEF IInv, TypeOK, SessionInv, Known, Owns, Origin, Live, Readable, Session!Readable, At, disk,
       RollBackFails, Become, Controlled
<1>5. FreezerInv'
  BY DEF FreezerInv, Transiting, At, RollBackFails
<1> QED BY <1>2, <1>3, <1>4, <1>5 DEF IInv

-----------------------------------------------------------------------------
\* A scope comes up, or ends by itself.
LEMMA ScopeStep == ASSUME IInv, NEW u \in Unit, Register(u) \/ Exit(u) PROVE IInv'
<1>1. TypeOK'
  BY DEF IInv, TypeOK, NoFault, disk, history, Register, Exit, Become
<1>2. CommandInv' /\ CleanupInv'
  BY DEF IInv, TypeOK, CommandInv, CleanupInv, Spawning, Live, Register, Exit, Become
<1>3. SessionInv'
  BY DEF IInv, TypeOK, CommandInv, SessionInv, Known, Owns, Readable, Session!Readable, disk,
       history, Register, Exit, Become
<1>4. FreezerInv'
  BY DEF IInv, TypeOK, SessionInv, FreezerInv, Known, Transiting, Holds, Calm, Undone, Aim, Origin,
       Readable, Session!Readable, disk, history, Register, Exit, Become
<1> QED BY <1>1, <1>2, <1>3, <1>4 DEF IInv

\* A file is damaged.
LEMMA EditStep == ASSUME IInv, Edit PROVE IInv'
<1>1. TypeOK'
  BY RealmAssumption DEF IInv, TypeOK, history, Edit
<1>2. CommandInv' /\ CleanupInv'
  BY DEF IInv, CommandInv, CleanupInv, Spawning, Live, Edit
<1>3. SessionInv'
  BY DEF IInv, SessionInv, Known, Owns, Readable, Session!Readable, At, history, Edit
<1>4. FreezerInv'
  BY DEF IInv, FreezerInv, Known, Holds, Calm, Undone, Aim, Origin, Readable, Session!Readable,
       history, Edit
<1> QED BY <1>1, <1>2, <1>3, <1>4 DEF IInv

\* The last word of a transition, an undo or a cleanup.
LEMMA LastWordStep ==
    ASSUME IInv, Close \/ CloseError \/ TransitionSave \/ Restore \/ RestoreError
    PROVE  IInv'
<1>1. op' = Idle /\ UNCHANGED <<scope, era, unseen>>
  BY DEF Close, CloseError, TransitionSave, Restore, RestoreError, Return, history
<1>2. /\ torn' \in BOOLEAN /\ UNCHANGED <<record, faults, edits, waiting>>
  BY DEF Close, CloseError, TransitionSave, Restore, RestoreError, NoFault, history,
     IInv, TypeOK
<1> SUFFICES /\ meta' \in Meta \cup {None, Damaged}
             /\ Readable' /\ Up(meta') => Owns(meta')
             /\ Readable' /\ Calm(meta)' => Holds(meta')
  BY <1>1, <1>2, EndStep DEF IInv, TypeOK
<1>4. CASE Close
  <2>1. meta' \in Meta \cup {None, Damaged}
    <3>1. /\ meta' = Ending
          /\ op.cmd \in {"start", "stop", "recover"} /\ op.was \in Meta \cup {None}
          /\ op.cmd = "stop" => op.was # None
      BY <1>4 DEF Close, At, IInv, TypeOK, Op, CommandInv, Cleaning
    <3>2. ASSUME NEW u \in Unit \cup {None}, NEW x \in Session!State
          PROVE  [state |-> x, unit |-> u] \in Meta
      BY DEF Meta, Session!Meta
    <3>3. op.was # None => op.was.unit \in Unit \cup {None}
      BY <3>1 DEF Meta, Session!Meta
    <3>4. CASE op.cmd = "start"
      <4>1. meta' = IF Readable THEN [meta EXCEPT !.state = "failed"] ELSE meta
        BY <3>1, <3>4 DEF Ending
      <4>2. Readable => meta \in Meta
        BY DEF IInv, TypeOK, Readable, Session!Readable
      <4>3. "failed" \in Session!State
        BY DEF Session!State
      <4> QED BY <4>1, <4>2, <4>3, StateOf DEF IInv, TypeOK
    <3>5. CASE op.cmd = "stop"
      BY <3>1, <3>2, <3>3, <3>5 DEF Ending, Session!State
    <3>6. CASE op.cmd = "recover"
      BY <3>1, <3>2, <3>3, <3>6 DEF Ending, Session!State
    <3> QED BY <3>1, <3>4, <3>5, <3>6
  <2>2. Readable' /\ Up(meta') => Owns(meta')
    BY <1>4 DEF Close, Ending, IInv, CommandInv, Up, Cleaning, Readable, Session!Readable, At
  <2>3. Readable' /\ Calm(meta)' => Holds(meta')
    BY <1>4 DEF Close, Ending, IInv, CommandInv, Cleaning, Calm, Readable, Session!Readable, At
  <2> QED BY <2>1, <2>2, <2>3
<1>5. CASE CloseError
  <2>1. meta' \in Meta \cup {None, Damaged}
    BY <1>5, StateOf DEF CloseError, At, Readable, Session!Readable, Session!State, IInv, TypeOK
  <2>2. Readable' /\ Up(meta') => Owns(meta')
    BY <1>5 DEF CloseError, IInv, SessionInv, Up, Readable, Session!Readable
  <2>3. Readable' /\ Calm(meta)' => Holds(meta')
    BY <1>5 DEF CloseError, IInv, FreezerInv, Transiting, Calm, Readable, Session!Readable, At,
         history
  <2> QED BY <2>1, <2>2, <2>3
<1>6. CASE TransitionSave
  <2>1. meta' \in Meta \cup {None, Damaged}
    BY <1>6, StateOf DEF TransitionSave, Transitioned, Aim, Transiting, CommandInv, Op, At,
         Session!State, IInv, TypeOK
  <2>2. Readable' /\ Up(meta') => Owns(meta')
    BY <1>6 DEF TransitionSave, Transitioned, IInv, SessionInv, Transiting, Owns, At
  <2>3. Readable' /\ Calm(meta)' => Holds(meta')
    BY <1>6 DEF TransitionSave, Transitioned, IInv, FreezerInv, Holds, Aim, At
  <2> QED BY <2>1, <2>2, <2>3
<1>7. CASE Restore
  <2>1. meta' \in Meta \cup {None, Damaged}
    BY <1>7, StateOf DEF Restore, Transiting, CommandInv, Op, At, Session!State, IInv, TypeOK
  <2>2. Readable' /\ Up(meta') => Owns(meta')
    BY <1>7 DEF Restore, IInv, SessionInv, Transiting, Owns, At
  <2>3. Readable' /\ Calm(meta)' => Holds(meta')
    BY <1>7 DEF Restore, IInv, TypeOK, SessionInv, FreezerInv, Known, Transiting, Holds, Calm,
         Undone, Origin, At, history
  <2> QED BY <2>1, <2>2, <2>3
<1>8. CASE RestoreError
  <2>1. meta' \in Meta \cup {None, Damaged}
    BY <1>8, StateOf DEF RestoreError, Transiting, CommandInv, Op, At, Session!State, IInv, TypeOK
  <2>2. Readable' /\ Up(meta') => Owns(meta')
    BY <1>8 DEF RestoreError, IInv, SessionInv, Transiting, Owns, At
  <2>3. Readable' /\ Calm(meta)' => Holds(meta')
    BY <1>8 DEF RestoreError, Calm
  <2> QED BY <2>1, <2>2, <2>3
<1> QED BY <1>4, <1>5, <1>6, <1>7, <1>8

\* A command that ends otherwise, or is killed; start() writes what is there.
LEMMA EndsStep ==
    ASSUME IInv, StartSave \/ Kill \/ RunRecord \/ RunUndoFails \/ DropRecord \/ RestoreErrorFails
    PROVE  IInv'
<1>1. faults' \in 0 .. MaxFaults /\ edits' \in 0 .. MaxEdits /\ waiting' \subseteq Unit
  BY FaultTyped DEF StartSave, Kill, RunRecord, RunUndoFails, DropRecord, RestoreErrorFails,
     IInv, TypeOK, CommandInv, At
<1>2. /\ op' = Idle /\ UNCHANGED <<scope, meta, era, unseen>>
      /\ torn' \in BOOLEAN /\ (torn \/ op.at \in Transiting => torn')
      /\ record' \in [Unit -> {None, "good", "damaged"}]
  BY DEF StartSave, Kill, RunRecord, RunUndoFails, DropRecord, RestoreErrorFails, Return, At, disk,
       history, Transiting, IInv, TypeOK, SessionInv
<1> QED BY <1>1, <1>2, LeaveStep

\* A command that goes on, with nothing but records changed.
LEMMA GoesOnStep ==
    ASSUME IInv, StartFails \/ CollectFails \/ Unlink \/ RunRecordFails \/ RestoreFails
    PROVE  IInv'
<1>1. faults' \in 0 .. MaxFaults /\ edits' \in 0 .. MaxEdits /\ waiting' \subseteq Unit
  BY FaultTyped DEF StartFails, CollectFails, Unlink, RunRecordFails, RestoreFails
<1>2. /\ UNCHANGED <<scope, meta, era, unseen, torn>>
      /\ record' \in [Unit -> {None, "good", "damaged"}]
  BY DEF StartFails, CollectFails, Unlink, RunRecordFails, RestoreFails, disk, history, IInv, TypeOK
<1>3. CASE StartFails
  BY <1>1, <1>2, <1>3, GoStep DEF StartFails, At, Location
<1>4. CASE CollectFails
  BY <1>1, <1>2, <1>4, GoStep DEF CollectFails, At, Cleaning, Location
<1>5. CASE Unlink
  BY <1>1, <1>2, <1>5, GoStep DEF Unlink, At, Cleaning, Location
<1>6. CASE RunRecordFails
  BY <1>1, <1>2, <1>6, GoStep DEF RunRecordFails, At, Location
<1>7. CASE RestoreFails
  BY <1>1, <1>2, <1>7, GoStep DEF RestoreFails, At, Location
<1> QED BY <1>3, <1>4, <1>5, <1>6, <1>7

\* The inductive step: one case per action.
LEMMA NextIInv == IInv /\ [Next]_vars => IInv'
<1>1. ASSUME IInv, UNCHANGED vars PROVE IInv'
  BY <1>1 DEF vars, IInv, TypeOK, CommandInv, CleanupInv, SessionInv, FreezerInv, Known, Owns,
       Holds, Calm, Undone, Aim, Origin, Spawning, Live, Readable, Session!Readable, disk, history
<1> QED BY <1>1, StartBeginStep, StartUnitStep, StartSpawnStep, StartReadyStep, StopBeginStep, RecoverBeginStep,
           CollectStep, StopUnitStep, StopUnitFailsStep, RunBeginStep, AppGoneStep,
           StopAppBeginStep, WaiterStep, PauseBeginStep, ResumeBeginStep, PauseRefusedStep,
           TransitionUnitStep, TransitionUnitFailsStep, TransitionSaveFailsStep, RollBackStep,
           RollBackFailsStep, ScopeStep, EditStep, LastWordStep, EndsStep, GoesOnStep DEF Next,
           Begin, Step

\* The inductive invariant holds of every behaviour.
THEOREM InductiveInvariant == Spec => []IInv
BY InitIInv, NextIInv, PTL DEF Spec

\* runtime.py: a cleanup that reports success leaves nothing running that
\* systemd could show, recorded or not, of this session or of an earlier one.
THEOREM CleanupLeavesNothing == Spec => []CleanedMeansGone
<1>1. IInv => CleanedMeansGone
  BY DEF IInv, CleanupInv, CleanedMeansGone, At
<1> QED BY <1>1, InductiveInvariant, PTL

\* runtime.py: no scope of an earlier session runs beside those of a later one,
\* but for one that every look has missed.
THEOREM SessionsNeverOverlap == Spec => []OneSession
<1>1. IInv => OneSession
  BY DEF IInv, SessionInv, OneSession, Seen, Known, Live
<1> QED BY <1>1, InductiveInvariant, PTL

\* runtime.py: what session.json says of the freezer is so for every scope that
\* no look has missed, but for a transition under way or cut short.
THEOREM FreezerIsAsStated == Spec => []LifecycleInv
<1>1. IInv => LifecycleInv
  BY DEF LifecycleInv, FreezerAsStated, Seen, IInv, FreezerInv, Known, Transiting, Holds, Calm, Live
<1> QED BY <1>1, InductiveInvariant, PTL

-----------------------------------------------------------------------------
\* The records of the apps.

\* A cleanup that may drop the records has taken down what it could not list,
\* and could read them all; stop-app drops the one of an app that is gone.
RecordInv ==
    /\ op.at \in {"stopUnits", "close"} => \A u \in op.late : scope[u] = "absent" \/ u \in unseen
    /\ At("stopUnits") /\ ~op.error => ~Broken
    /\ op.at \in {"stopApp", "dropRecord"} => record[op.unit] # "damaged"
    /\ At("dropRecord") => scope[op.unit] = "absent" \/ op.unit \in unseen

\* The steps that lead to neither.
Elsewhere == op'.at \notin {"stopUnits", "close", "stopApp", "dropRecord"}

LEMMA ElsewhereBegins ==
    ASSUME StartBegin \/ StopBegin \/ RecoverBegin \/ RunBegin \/ PauseBegin \/ ResumeBegin
    PROVE  Elsewhere
<1>1. CASE StartBegin \/ StopBegin \/ RecoverBegin
  BY <1>1 DEF StartBegin, StopBegin, RecoverBegin, Take, Idle, Elsewhere
<1>2. CASE RunBegin
  BY <1>2 DEF RunBegin, Take, Idle, Elsewhere
<1>3. CASE PauseBegin \/ ResumeBegin
  BY <1>3 DEF PauseBegin, ResumeBegin, Take, Transition, Idle, Elsewhere
<1> QED BY <1>1, <1>2, <1>3

LEMMA ElsewhereSteps ==
    ASSUME IInv,
           \/ StartUnit \/ StartSpawn \/ StartReady \/ StartSave \/ StartFails \/ CollectFails
           \/ Close \/ CloseError
           \/ RunRecord \/ RunRecordFails \/ RunUndo \/ RunUndoFails \/ StopAppFails \/ DropRecord
           \/ TransitionSave \/ TransitionSaveFails \/ Restore \/ RestoreFails \/ RestoreError
           \/ RestoreErrorFails \/ Kill
           \/ \E u \in Unit : \/ StopUnitFails(u) \/ TransitionUnit(u) \/ TransitionUnitFails(u)
                              \/ RollBack(u) \/ RollBackFails(u)
    PROVE  Elsewhere
<1>1. op \in Op
  BY DEF IInv, TypeOK
<1>2. op' = Idle => Elsewhere
  BY IdleTyped DEF Elsewhere
<1>3. CASE \/ StartSave \/ Close \/ CloseError \/ RunRecord \/ RunUndo \/ RunUndoFails \/ StopAppFails
           \/ DropRecord \/ TransitionSave \/ Restore \/ RestoreError \/ RestoreErrorFails \/ Kill
  BY <1>2, <1>3 DEF StartSave, Close, CloseError, RunRecord, RunUndo, RunUndoFails, StopAppFails, DropRecord,
     TransitionSave, Restore, RestoreError, RestoreErrorFails, Kill, Return
<1>4. CASE \/ StartUnit \/ StartSpawn \/ StartReady \/ StartFails \/ CollectFails \/ RunRecordFails
           \/ RestoreFails
  BY <1>1, <1>4 DEF StartUnit, StartSpawn, StartReady, StartFails, CollectFails, RunRecordFails, RestoreFails,
     Goto, Op, Elsewhere
<1>5. CASE TransitionSaveFails
  BY <1>1, <1>5 DEF TransitionSaveFails, Op, Elsewhere
<1>6. ASSUME NEW u \in Unit,
             \/ StopUnitFails(u) \/ TransitionUnit(u) \/ TransitionUnitFails(u)
             \/ RollBack(u) \/ RollBackFails(u)
      PROVE  Elsewhere
  BY <1>1, <1>6 DEF StopUnitFails, TransitionUnit, TransitionUnitFails, RollBack, RollBackFails, Goto, At, Op,
     Elsewhere
<1> QED BY <1>3, <1>4, <1>5, <1>6

LEMMA RecordStep == ASSUME IInv, RecordInv, [Next]_vars PROVE RecordInv'
<1>1. op \in Op /\ scope \in [Unit -> {"absent", "spawning", "running", "frozen"}]
      /\ record \in [Unit -> {None, "good", "damaged"}]
  BY DEF IInv, TypeOK
<1>2. Elsewhere => RecordInv'
  BY DEF RecordInv, Elsewhere, At
<1>3. CASE Collect
  <2>1. op'.at = "stopUnits" /\ op'.error = Broken /\ op'.late = Spawning
    BY <1>1, <1>3 DEF Collect, Op
  <2> QED BY <1>3, <2>1 DEF Collect, RecordInv, Broken, At, disk
<1>4. ASSUME NEW u \in Unit, StopUnit(u) PROVE RecordInv'
  BY <1>1, <1>4 DEF StopUnit, RecordInv, Op, At, Become, Controlled, Broken, disk
<1>5. CASE Unlink
  BY <1>1, <1>5 DEF Unlink, RecordInv, Goto, Op, At, history
<1>6. CASE StopAppBegin
  <2>1. PICK u \in Unit :
          /\ record[u] = "good"
          /\ op' = [[Idle EXCEPT !.at = "stopApp", !.unit = u] EXCEPT !.cmd = "stop_app"]
    BY <1>6 DEF StopAppBegin, Take
  <2> QED BY <1>6, <2>1 DEF StopAppBegin, RecordInv, Idle, At, disk
<1>7. CASE StopApp
  <2>1. op.unit \in Unit
    BY <1>7 DEF StopApp, At, IInv, CommandInv
  <2> QED BY <1>1, <1>7, <2>1 DEF StopApp, RecordInv, Goto, Op, At, Controlled, Live, Spawning, disk
<1>8. ASSUME NEW u \in Unit, RunWaited(u) \/ WaiterKilled(u) PROVE RecordInv'
  BY <1>1, <1>8, RealmAssumption DEF RunWaited, WaiterKilled, RecordInv, At, Broken, disk, history,
     IInv, CommandInv
<1>9. ASSUME NEW u \in Unit, Register(u) PROVE RecordInv'
  BY <1>1, <1>9 DEF Register, RecordInv, At, Broken, disk, history, IInv, CleanupInv, CommandInv, Spawning
<1>10. ASSUME NEW u \in Unit, Exit(u) PROVE RecordInv'
  BY <1>1, <1>10 DEF Exit, RecordInv, At, Broken, disk, Become, IInv, CommandInv
<1>11. CASE Edit \/ PauseRefused
  BY <1>11 DEF Edit, PauseRefused, RecordInv, At
<1>12. CASE UNCHANGED vars
  BY <1>12 DEF vars, disk, history, RecordInv, At, Broken
<1> QED BY <1>2, <1>3, <1>4, <1>5, <1>6, <1>7, <1>8, <1>9, <1>10, <1>11, <1>12, ElsewhereBegins,
           ElsewhereSteps DEF Next, Begin, Step

\* runtime.py, process.py: whatever fails or is killed, only the `run' that waits
\* for an app drops the record of one whose scope a look can find, and only it
\* drops a record nobody can read; pause, cleanup and stop_app() never do.
THEOREM RecordsAreKept == Spec => OthersKeepRecords
<1>1. Init => RecordInv
  BY IdleTyped DEF Init, RecordInv, At
<1>2. IInv /\ RecordInv /\ [Next]_vars =>
        [\A u \in Unit : record[u] # None /\ record'[u] = None =>
           \/ u \in waiting \ waiting'
           \/ record[u] = "good" /\ u \notin Live \ unseen']_vars
  <2> SUFFICES ASSUME IInv, RecordInv, Next, NEW u \in Unit, record[u] # None, record'[u] = None
               PROVE  \/ u \in waiting \ waiting'
                      \/ record[u] = "good" /\ u \notin Live \ unseen'
    OBVIOUS
  <2>1. record \in [Unit -> {None, "good", "damaged"}]
    BY DEF IInv, TypeOK
  <2>2. ASSUME NEW overlooked, Look(overlooked), record[u] # Pruned(overlooked)[u]
        PROVE  u \notin Live \ unseen' /\ record[u] = "good"
    BY <2>1, <2>2 DEF Pruned, Look
  <2>3. CASE PauseBegin
    BY <2>2, <2>3 DEF PauseBegin
  <2>4. CASE PauseRefused
    <3>1. PICK overlooked \in SUBSET Live :
            Look(overlooked) /\ (record' = Pruned(overlooked)
              \/ \E some \in SUBSET Unit :
                   record' = [v \in Unit |-> IF v \in some THEN Pruned(overlooked)[v] ELSE record[v]])
      BY <2>4 DEF PauseRefused
    <3>2. record'[u] = Pruned(overlooked)[u]
      BY <3>1
    <3> QED BY <2>2, <3>1, <3>2
  <2>5. CASE Unlink
    BY <2>1, <2>5 DEF Unlink, IInv, CleanupInv, RecordInv, Broken, Live, At, history
  <2>6. CASE DropRecord
    <3>1. u = op.unit /\ unseen' = unseen
      BY <2>1, <2>6 DEF DropRecord, history
    <3>2. record[u] # "damaged"
      BY <2>6, <3>1 DEF DropRecord, RecordInv, At
    <3> QED BY <2>1, <2>6, <3>1, <3>2 DEF DropRecord, RecordInv, Live, At
  <2>7. ASSUME NEW v \in Unit, RunWaited(v) PROVE u \in waiting \ waiting'
    BY <2>1, <2>7 DEF RunWaited
  <2>8. ASSUME NEW v \in Unit,
               \/ StopUnit(v) \/ StopUnitFails(v) \/ TransitionUnit(v) \/ TransitionUnitFails(v)
               \/ RollBack(v) \/ RollBackFails(v) \/ WaiterKilled(v) \/ Register(v) \/ Exit(v)
        PROVE  FALSE
    BY <2>8 DEF StopUnit, StopUnitFails, TransitionUnit, TransitionUnitFails, RollBack, RollBackFails,
       WaiterKilled, Register, Exit, disk
  <2>9. CASE RunRecord \/ Edit
    <3>1. op.unit \in Unit \/ Edit
      BY <2>9 DEF RunRecord, At, IInv, CommandInv
    <3> QED BY <2>1, <2>9, <3>1, RealmAssumption DEF RunRecord, Edit
  <2>10. ~(\/ StartBegin \/ StopBegin \/ RecoverBegin \/ RunBegin \/ StopAppBegin \/ ResumeBegin
           \/ StartUnit \/ StartSpawn \/ StartReady \/ StartSave \/ StartFails \/ Collect \/ CollectFails
           \/ Close \/ CloseError \/ RunRecordFails \/ RunUndo \/ RunUndoFails \/ StopApp \/ StopAppFails
           \/ TransitionSave \/ TransitionSaveFails \/ Restore \/ RestoreFails \/ RestoreError \/ RestoreErrorFails \/ Kill)
    BY DEF StartBegin, StopBegin, RecoverBegin, RunBegin, StopAppBegin, ResumeBegin, StartUnit, StartSpawn,
       StartReady, StartSave, StartFails, Collect, CollectFails, Close, CloseError, RunRecordFails, RunUndo,
       RunUndoFails, StopApp, StopAppFails, TransitionSave, TransitionSaveFails, Restore,
       RestoreFails, RestoreError, RestoreErrorFails, Kill, disk
  <2> QED BY <2>3, <2>4, <2>5, <2>6, <2>7, <2>8, <2>9, <2>10 DEF Next, Begin, Step
<1>3. IInv /\ RecordInv /\ [Next]_vars => RecordInv'
  BY RecordStep
<1> QED BY <1>1, <1>2, <1>3, InitIInv, NextIInv, PTL DEF Spec, OthersKeepRecords

-----------------------------------------------------------------------------
\* What clients see: RealmLifecycle implements RealmSession.

\* Whoever holds the lock finds session.json as it has left it.
ClientInv ==
    /\ op.at \notin {"stopUnits", "close", "closeError"} => op.late = {}
    /\ At("unit") => meta = [state |-> "starting", unit |-> None]
    /\ op.at \in Cleaning =>
         IF op.cmd = "start" THEN Readable /\ meta.state \in {"starting", "running"}
         ELSE op.was = IF Readable THEN meta ELSE None
    /\ op.at \in Transiting => Readable /\ Up(meta) /\ meta.unit = op.was.unit

\* A command that ends leaves nothing to remember.
LEMMA ClientEnds == ASSUME op' = Idle PROVE ClientInv'
BY DEF ClientInv, Idle, At, Cleaning, Transiting

LEMMA ClientBegins == ASSUME IInv, ClientInv, Begin PROVE ClientInv'
<1>1. CASE StartBegin
  BY <1>1 DEF StartBegin, Take, Idle, ClientInv, At, Cleaning, Transiting
<1>2. CASE StopBegin
  <2>1. PICK was : was = meta /\ op' = [[Idle EXCEPT !.at = "collect", !.was = was] EXCEPT !.cmd = "stop"]
    BY <1>2 DEF StopBegin, Take
  <2> QED BY <1>2, <2>1 DEF StopBegin, Idle, ClientInv, At, Cleaning, Transiting, Readable,
             Session!Readable, disk
<1>3. CASE RecoverBegin
  <2>1. PICK was : /\ was = IF Readable THEN meta ELSE None
                   /\ op' = [[Idle EXCEPT !.at = "collect", !.was = was] EXCEPT !.cmd = "recover"]
    BY <1>3 DEF RecoverBegin, Take
  <2> QED BY <1>3, <2>1 DEF RecoverBegin, Idle, ClientInv, At, Cleaning, Transiting, Readable,
             Session!Readable, disk
<1>4. CASE RunBegin
  BY <1>4 DEF RunBegin, Take, Idle, ClientInv, At, Cleaning, Transiting
<1>5. CASE StopAppBegin
  <2>1. PICK u : op' = [[Idle EXCEPT !.at = "stopApp", !.unit = u] EXCEPT !.cmd = "stop_app"]
    BY <1>5 DEF StopAppBegin, Take
  <2> QED BY <2>1 DEF Idle, ClientInv, At, Cleaning, Transiting
<1>6. CASE PauseRefused
  BY <1>6 DEF PauseRefused, ClientInv, At, Cleaning, Transiting
<1>7. CASE PauseBegin \/ ResumeBegin
  <2>1. PICK todo \in SUBSET Live, cmd \in {"pause", "resume"} : op' = [Transition(todo) EXCEPT !.cmd = cmd]
    <3>1. CASE PauseBegin
      <4>1. \E todo \in SUBSET Live : op' = [Transition(todo) EXCEPT !.cmd = "pause"]
        BY <3>1 DEF PauseBegin, Take
      <4> QED BY <4>1
    <3>2. CASE ResumeBegin
      <4>1. \E todo \in SUBSET Live : op' = [Transition(todo) EXCEPT !.cmd = "resume"]
        BY <3>2 DEF ResumeBegin, Take
      <4> QED BY <4>1
    <3> QED BY <1>7, <3>1, <3>2
  <2>2. meta \notin {None, Damaged} /\ Up(meta) /\ UNCHANGED meta
    BY <1>7 DEF PauseBegin, ResumeBegin, Pausable, Alive, Up, disk
  <2>3. op'.at = "transition" /\ op'.was = meta /\ op'.late = {}
    BY <2>1 DEF Transition, Idle
  <2> QED BY <2>2, <2>3 DEF ClientInv, At, Cleaning, Transiting, Readable, Session!Readable, Up
<1> QED BY <1>1, <1>2, <1>3, <1>4, <1>5, <1>6, <1>7 DEF Begin

LEMMA ClientSteps == ASSUME IInv, ClientInv, Step PROVE ClientInv'
<1>1. op \in Op
  BY DEF IInv, TypeOK
<1>2. CASE \/ StartSave \/ Close \/ CloseError \/ RunRecord \/ RunUndo \/ RunUndoFails \/ StopAppFails
           \/ DropRecord \/ TransitionSave \/ Restore \/ RestoreError \/ RestoreErrorFails
  BY <1>2, ClientEnds DEF StartSave, Close, CloseError, RunRecord, RunUndo, RunUndoFails,
     StopAppFails, DropRecord, TransitionSave, Restore, RestoreError, RestoreErrorFails, Return
<1>3. CASE StartUnit
  BY <1>1, <1>3 DEF StartUnit, ClientInv, Op, At, Cleaning, Transiting
<1>4. CASE StartSpawn \/ StartReady \/ RunRecordFails \/ StopApp
  BY <1>1, <1>4 DEF StartSpawn, StartReady, RunRecordFails, StopApp, Goto, ClientInv, Op, At, Cleaning, Transiting
<1>5. CASE StartFails
  <2>1. /\ op.cmd = "start" /\ meta \in Meta
        /\ \E state \in {"starting", "running"} : meta = [state |-> state, unit |-> op.unit]
    BY <1>5 DEF StartFails, At, IInv, CommandInv, SessionInv, Op, TypeOK, Meta, Session!Meta, Session!State
  <2> QED BY <1>1, <1>5, <2>1, MetaAssumption DEF StartFails, Goto, ClientInv, Op, At, Cleaning,
             Transiting, Readable, Session!Readable, disk
<1>6. CASE Collect
  <2>1. op'.at = "stopUnits" /\ op'.cmd = op.cmd /\ op'.was = op.was /\ op.at = "collect"
    BY <1>1, <1>6 DEF Collect, Op, At
  <2> QED BY <1>6, <2>1 DEF Collect, ClientInv, At, Cleaning, Transiting, Readable, Session!Readable, disk
<1>7. CASE CollectFails \/ Unlink
  <2>1. /\ op'.at \in {"close", "closeError"} /\ op'.cmd = op.cmd /\ op'.was = op.was
        /\ op.at \in {"collect", "stopUnits"} /\ meta' = meta
    BY <1>1, <1>7 DEF CollectFails, Unlink, Goto, Op, At, disk
  <2> QED BY <2>1 DEF ClientInv, At, Cleaning, Transiting, Readable, Session!Readable
<1>8. ASSUME NEW u \in Unit, StopUnit(u) \/ StopUnitFails(u) PROVE ClientInv'
  <2>1. /\ op'.at \in {"stopUnits", "closeError"} /\ op'.cmd = op.cmd /\ op'.was = op.was
        /\ op.at = "stopUnits" /\ meta' = meta
    BY <1>1, <1>8 DEF StopUnit, StopUnitFails, Goto, Op, At, disk
  <2> QED BY <2>1 DEF ClientInv, At, Cleaning, Transiting, Readable, Session!Readable
<1>9. CASE \/ RestoreFails
           \/ \E u \in Unit : \/ TransitionUnit(u) \/ TransitionUnitFails(u)
                             \/ RollBack(u) \/ RollBackFails(u)
  <2>1. /\ op'.at \in Transiting /\ op'.was = op.was /\ op'.late = op.late
        /\ op.at \in Transiting /\ meta' = meta
    BY <1>1, <1>9 DEF TransitionUnit, TransitionUnitFails, RollBack, RollBackFails, RestoreFails,
       Goto, Op, At, disk, Transiting
  <2> QED BY <2>1 DEF ClientInv, At, Cleaning, Transiting, Readable, Session!Readable
<1>10. CASE TransitionSaveFails
  <2>1. /\ op'.at = "rollback" /\ op'.was = op.was /\ op'.late = op.late
        /\ op.at = "transition" /\ op.was \in Meta /\ Up(op.was)
    BY <1>1, <1>10 DEF TransitionSaveFails, Op, At, IInv, CommandInv, Transiting
  <2>2. meta' = meta \/ (meta' \in Meta /\ Up(meta') /\ meta'.unit = op.was.unit)
    BY <1>10, <2>1 DEF TransitionSaveFails, Transitioned, Aim, Up, Meta, Session!Meta, Session!State
  <2> QED BY <2>1, <2>2, MetaAssumption DEF ClientInv, At, Cleaning, Transiting, Readable, Session!Readable
<1> QED BY <1>2, <1>3, <1>4, <1>5, <1>6, <1>7, <1>8, <1>9, <1>10 DEF Step

LEMMA ClientStep == ASSUME IInv, ClientInv, [Next]_vars PROVE ClientInv'
<1>1. CASE Kill
  BY <1>1, ClientEnds DEF Kill, Return
<1>2. CASE Edit
  BY <1>2 DEF Edit, ClientInv, At, Cleaning, Transiting
<1>3. ASSUME NEW u \in Unit, RunWaited(u) \/ WaiterKilled(u) \/ Register(u) \/ Exit(u) PROVE ClientInv'
  BY <1>3 DEF RunWaited, WaiterKilled, Register, Exit, ClientInv, At, Readable, Session!Readable, disk
<1>4. CASE UNCHANGED vars
  BY <1>4 DEF vars, disk, ClientInv, At, Readable, Session!Readable
<1> QED BY <1>1, <1>2, <1>3, <1>4, ClientBegins, ClientSteps DEF Next

\* The views of a client, as truth values.
LEMMA Views == Alive \in BOOLEAN /\ Missed \in BOOLEAN
BY DEF Alive, Missed

\* session.json stays: the session's scope may have gone, come up late, or been
\* missed, and a cleanup may have ended.
LEMMA MetaStays ==
    ASSUME UNCHANGED meta,
           \/ (Missed' <=> Missed) /\ (Alive' => Alive \/ (Readable /\ meta.unit # None))
           \/ (Alive' <=> Alive) /\ (Missed' => Readable /\ ~Alive)
    PROVE  [Session!Next]_(Session!session)
<1>1. Alive \in BOOLEAN /\ Missed \in BOOLEAN /\ Alive' \in BOOLEAN /\ Missed' \in BOOLEAN
  BY DEF Alive, Missed
<1> HIDE DEF Alive, Missed
<1>2. CASE (Missed' <=> Missed) /\ (Alive' <=> Alive)
  BY <1>1, <1>2 DEF Session!session
<1>3. CASE (Missed' <=> Missed) /\ Alive' /\ ~Alive
  BY <1>1, <1>3 DEF Session!Next, Session!Rise, Readable
<1>4. CASE (Missed' <=> Missed) /\ ~Alive' /\ Alive
  BY <1>1, <1>4 DEF Session!Next, Session!Fall
<1>5. CASE (Alive' <=> Alive) /\ Missed' /\ ~Missed
  BY <1>1, <1>5 DEF Session!Next, Session!Overlook, Readable
<1>6. CASE (Alive' <=> Alive) /\ ~Missed' /\ Missed
  BY <1>1, <1>6 DEF Session!Next, Session!Forget
<1> QED BY <1>1, <1>2, <1>3, <1>4, <1>5, <1>6

\* Commands begin with what a client can see, and with what it cannot.
LEMMA BeginImplements == ASSUME IInv, ClientInv, Begin PROVE [Session!Next]_(Session!session)
<1>2. CASE StartBegin
  <2>1. op'.late = {} /\ op.late = {} /\ meta' = [state |-> "starting", unit |-> None] /\ scope' = scope
    BY <1>2 DEF StartBegin, Take, Idle, At, ClientInv
  <2>2. ~Alive /\ ~Alive' /\ meta # Damaged
    BY <1>2, <2>1, RealmAssumption DEF StartBegin, Look, Alive, Live, Readable, Session!Readable
  <2>3. ~Missed /\ ~Missed'
    BY <2>1 DEF Missed
  <2> QED BY <2>1, <2>2, <2>3, Views DEF Session!Next, Session!Announce, Missed, Alive
<1>3. CASE StopBegin \/ RecoverBegin \/ StopAppBegin
  <2>1. op'.late = {} /\ op.late = {} /\ UNCHANGED <<meta, scope>>
    BY <1>3 DEF StopBegin, RecoverBegin, StopAppBegin, Take, Idle, At, ClientInv, disk
  <2> QED BY <2>1, MetaStays DEF Missed, Alive, Live
<1>4. CASE RunBegin
  <2>1. op'.late = {} /\ op.late = {} /\ UNCHANGED meta
    BY <1>4 DEF RunBegin, Take, Idle, At, ClientInv, disk
  <2>2. Alive' <=> Alive
    BY <1>4, <2>1 DEF RunBegin, Spawn, Fresh, NewUnit, Alive, Live, IInv, TypeOK
  <2> QED BY <2>1, <2>2, MetaStays DEF Missed
<1>5. CASE PauseRefused
  BY <1>5, MetaStays DEF PauseRefused, Missed, Alive, Live
<1>6. CASE PauseBegin \/ ResumeBegin
  <2>1. op'.late = {} /\ op.late = {} /\ UNCHANGED <<meta, scope>>
    BY <1>6 DEF PauseBegin, ResumeBegin, Transition, Take, Idle, At, ClientInv, disk
  <2> QED BY <2>1, MetaStays DEF Missed, Alive, Live
<1> QED BY <1>2, <1>3, <1>4, <1>5, <1>6 DEF Begin

\* A start, and the cleanup of one that fails, of a stop and of a recovery.
LEMMA SessionImplements ==
    ASSUME IInv, ClientInv,
           \/ StartUnit \/ StartSpawn \/ StartReady \/ StartSave \/ StartFails \/ Collect \/ CollectFails
           \/ \E u \in Unit : StopUnit(u) \/ StopUnitFails(u)
           \/ Unlink \/ Close \/ CloseError
    PROVE  [Session!Next]_(Session!session)
<1>1. op \in Op /\ scope \in [Unit -> {"absent", "spawning", "running", "frozen"}]
  BY DEF IInv, TypeOK
<1>2. CASE StartUnit
  <2>1. op'.late = {} /\ op.late = {} /\ scope' = scope /\ meta = [state |-> "starting", unit |-> None]
    BY <1>1, <1>2 DEF StartUnit, Op, At, ClientInv, history
  <2>2. PICK u \in Fresh : meta' = [state |-> "starting", unit |-> u]
    BY <1>2 DEF StartUnit, NewUnit
  <2>3. u \in Unit /\ ~Alive /\ ~Alive' /\ ~Missed /\ ~Missed'
    BY <2>1, <2>2, RealmAssumption DEF Fresh, Alive, Live, Missed
  <2>4. meta' = [meta EXCEPT !.unit = u]
    BY <2>1, <2>2
  <2> QED BY <2>1, <2>3, <2>4, Views DEF Session!Next, Session!Identify, Missed, Alive
<1>3. CASE StartSpawn
  <2>1. op'.late = {} /\ op.late = {} /\ UNCHANGED meta
    BY <1>1, <1>3 DEF StartSpawn, Goto, Op, At, ClientInv, disk
  <2>2. Alive' => Alive
    BY <1>1, <1>3, <2>1 DEF StartSpawn, Spawn, Alive, Live
  <2> QED BY <2>1, <2>2, MetaStays DEF Missed
<1>4. CASE StartReady
  <2>1. op'.late = {} /\ op.late = {} /\ UNCHANGED scope /\ op.unit \in Unit
        /\ meta = [state |-> "starting", unit |-> op.unit] /\ scope[op.unit] = "running"
        /\ meta' = [state |-> "running", unit |-> op.unit]
    BY <1>1, <1>4 DEF StartReady, Goto, Op, At, ClientInv, IInv, CommandInv, SessionInv
  <2>2. meta \in Meta /\ meta' \in Meta
    BY <2>1 DEF Meta, Session!Meta, Session!State
  <2>3. Alive /\ Alive' /\ ~Missed /\ ~Missed'
    BY <2>1, <2>2, MetaAssumption DEF Alive, Live, Missed
  <2>4. meta.state = "starting" /\ meta' = [meta EXCEPT !.state = "running"]
    BY <2>1
  <2> QED BY <2>3, <2>4, Views DEF Session!Next, Session!Ready, Missed, Alive
<1>5. CASE StartFails \/ CollectFails \/ Unlink
  <2>1. op'.late = op.late /\ UNCHANGED <<meta, scope>>
    BY <1>1, <1>5 DEF StartFails, CollectFails, Unlink, Goto, Op, disk
  <2> QED BY <2>1, MetaStays DEF Missed, Alive, Live
<1>6. CASE Collect
  <2>1. op'.late = Spawning /\ op.late = {} /\ UNCHANGED <<meta, scope>>
    BY <1>1, <1>6 DEF Collect, Op, At, ClientInv, disk
  <2>2. Missed' => Readable /\ ~Alive
    BY <2>1 DEF Missed, Alive, Live, Spawning, Readable, Session!Readable
  <2> QED BY <2>1, <2>2, MetaStays DEF Alive, Live
<1>7. ASSUME NEW u \in Unit, StopUnit(u) \/ StopUnitFails(u) PROVE [Session!Next]_(Session!session)
  <2>1. op'.late = op.late /\ UNCHANGED meta
    BY <1>1, <1>7 DEF StopUnit, StopUnitFails, Goto, Op, disk
  <2>2. Alive' => Alive
    BY <1>1, <1>7, <2>1 DEF StopUnit, StopUnitFails, Become, Controlled, Alive, Live
  <2> QED BY <2>1, <2>2, MetaStays DEF Missed
<1>8. CASE Close
  <2>1. op'.late = {} /\ op.at = "close" /\ op.cmd \in {"start", "stop", "recover"} /\ UNCHANGED scope
    BY <1>8 DEF Close, Return, Idle, At, IInv, CommandInv, Cleaning
  <2>2. Alive => Missed
    BY <2>1 DEF IInv, CleanupInv, Alive, Missed, Live
  <2>3. ~Missed'
    BY <2>1 DEF Missed
  <2>4. CASE Readable
    <3>1. meta \in Meta
      BY <2>4 DEF IInv, TypeOK, Readable, Session!Readable
    <3>2. PICK state \in {"stopped", "recovered", "failed"} : meta' = [meta EXCEPT !.state = state]
      <4>1. CASE op.cmd = "start"
        BY <1>8, <2>1, <2>4, <4>1 DEF Close, Ending
      <4>2. CASE op.cmd = "stop"
        BY <1>8, <2>1, <2>4, <3>1, <4>2 DEF Close, Ending, ClientInv, Cleaning, Meta, Session!Meta
      <4>3. CASE op.cmd = "recover"
        <5>1. op.was = meta /\ meta # None
          BY <2>1, <2>4, <4>3 DEF ClientInv, Cleaning, Readable, Session!Readable
        <5> QED BY <1>8, <2>1, <3>1, <4>3, <5>1 DEF Close, Ending, Meta, Session!Meta
      <4> QED BY <2>1, <4>1, <4>2, <4>3
    <3>3. Alive' <=> Alive
      <4>1. meta' \in Meta /\ meta'.unit = meta.unit
        BY <3>1, <3>2 DEF Meta, Session!Meta, Session!State
      <4> QED BY <2>1, <2>4, <4>1, MetaAssumption DEF Alive, Live, Readable, Session!Readable
    <3> QED BY <2>2, <2>3, <2>4, <3>2, <3>3, Views DEF Session!Next, Session!End, Readable, Missed, Alive
  <2>5. CASE ~Readable
    <3>1. op.cmd = "recover" /\ meta' = [state |-> "recovered", unit |-> None]
      BY <1>8, <2>1, <2>5 DEF Close, Ending, ClientInv, Cleaning, IInv, CommandInv
    <3>2. ~Alive /\ ~Alive'
      BY <2>5, <3>1, RealmAssumption DEF Alive, Live, Readable, Session!Readable
    <3> QED BY <2>2, <2>3, <2>5, <3>1, <3>2, Views DEF Session!Next, Session!End, Readable, Missed, Alive
  <2> QED BY <2>4, <2>5
<1>9. CASE CloseError
  <2>1. op'.late = {} /\ op.at = "closeError" /\ UNCHANGED scope
    BY <1>9 DEF CloseError, Return, Idle, At, history
  <2>2. CASE op.cmd = "start"
    <3>1. /\ Readable /\ meta.state \in {"starting", "running"} /\ meta \in Meta
          /\ meta' = [meta EXCEPT !.state = "cleanup_failed"]
      BY <1>9, <2>1, <2>2 DEF CloseError, ClientInv, Cleaning, IInv, TypeOK, Readable, Session!Readable
    <3>2. meta' \in Meta /\ meta'.unit = meta.unit
      BY <3>1 DEF Meta, Session!Meta, Session!State
    <3>3. ~Missed' /\ (Alive' <=> Alive)
      BY <2>1, <3>1, <3>2, MetaAssumption DEF Alive, Live, Missed, Readable, Session!Readable
    <3> QED BY <3>1, <3>3, Views DEF Session!Next, Session!EndFails, Readable, Missed, Alive
  <2>3. CASE op.cmd # "start"
    <3>1. UNCHANGED <<meta, scope>> /\ ~Missed'
      BY <1>9, <2>1, <2>3 DEF CloseError, Missed
    <3> QED BY <3>1, MetaStays DEF Alive, Live
  <2> QED BY <2>2, <2>3
<1>10. CASE StartSave
  <2>1. op'.late = {} /\ op.late = {} /\ UNCHANGED <<meta, scope>>
    BY <1>10 DEF StartSave, Return, Idle, At, ClientInv, IInv, SessionInv
  <2> QED BY <2>1, MetaStays DEF Missed, Alive, Live
<1> QED BY <1>2, <1>3, <1>4, <1>5, <1>6, <1>7, <1>8, <1>9, <1>10

\* Apps, and a pause or a resume: a freeze does not end a session.
LEMMA OthersImplement ==
    ASSUME IInv, ClientInv,
           \/ RunRecord \/ RunRecordFails \/ RunUndo \/ RunUndoFails \/ StopApp \/ StopAppFails \/ DropRecord
           \/ \E u \in Unit : TransitionUnit(u) \/ TransitionUnitFails(u) \/ RollBack(u) \/ RollBackFails(u)
           \/ TransitionSave \/ TransitionSaveFails \/ Restore \/ RestoreFails
           \/ RestoreError \/ RestoreErrorFails
    PROVE  [Session!Next]_(Session!session)
<1>1. op \in Op /\ scope \in [Unit -> {"absent", "spawning", "running", "frozen"}]
  BY DEF IInv, TypeOK
<1>2. CASE RunRecord \/ RunRecordFails \/ RunUndoFails \/ DropRecord \/ RestoreFails \/ RestoreErrorFails
  <2>1. op.late = {} /\ UNCHANGED <<meta, scope>>
    BY <1>2 DEF RunRecord, RunRecordFails, RunUndoFails, DropRecord, RestoreFails,
       RestoreErrorFails, At, ClientInv, disk
  <2>2. op' = Idle \/ op'.late = op.late
    BY <1>1, <1>2 DEF RunRecord, RunRecordFails, RunUndoFails, DropRecord, RestoreFails,
       RestoreErrorFails, Return, Goto, Op
  <2>3. op'.late = {}
    BY <2>1, <2>2 DEF Idle
  <2> QED BY <2>1, <2>3, MetaStays DEF Missed, Alive, Live
<1>3. CASE RunUndo \/ StopApp \/ StopAppFails
  <2>1. op.late = {} /\ UNCHANGED meta
    BY <1>3 DEF RunUndo, StopApp, StopAppFails, At, ClientInv, disk
  <2>2. op' = Idle \/ op'.late = op.late
    BY <1>1, <1>3 DEF RunUndo, StopApp, StopAppFails, Return, Goto, Op
  <2>3. op'.late = {}
    BY <2>1, <2>2 DEF Idle
  <2>4. Live' \subseteq Live
    BY <1>1, <1>3 DEF RunUndo, StopApp, StopAppFails, Become, Controlled, Live
  <2> QED BY <2>1, <2>3, <2>4, MetaStays DEF Missed, Alive
<1>4. ASSUME NEW u \in Unit, TransitionUnit(u) \/ TransitionUnitFails(u) \/ RollBack(u) \/ RollBackFails(u)
      PROVE  [Session!Next]_(Session!session)
  <2>1. op'.late = op.late /\ UNCHANGED meta
    BY <1>1, <1>4 DEF TransitionUnit, TransitionUnitFails, RollBack, RollBackFails, Op, disk
  <2>2. PICK state \in {"running", "frozen"} : scope' \in {scope, Controlled(u, state)}
    <3>1. Aim.scope \in {"running", "frozen"} /\ Origin \in {"running", "frozen"}
      BY DEF Aim, Origin
    <3> QED BY <1>4, <3>1 DEF TransitionUnit, TransitionUnitFails, RollBack, RollBackFails, Become
  <2>3. Live' = Live
    BY <1>1, <2>2 DEF Controlled, Live
  <2> QED BY <2>1, <2>3, MetaStays DEF Missed, Alive
<1>5. CASE TransitionSave \/ TransitionSaveFails \/ Restore \/ RestoreError
  <2>1. op.at \in Transiting /\ op.late = {} /\ UNCHANGED scope
    BY <1>5 DEF TransitionSave, TransitionSaveFails, Restore, RestoreError, At, ClientInv, Transiting, history
  <2>2. /\ meta \in Meta /\ Readable /\ meta.state \in Session!Freezer
        /\ op.was \in Meta /\ op.was.state \in Session!Freezer /\ meta.unit = op.was.unit
    BY <1>1, <2>1 DEF ClientInv, IInv, TypeOK, CommandInv, Up, Op, Session!Freezer, Readable, Session!Readable
  <2>3. op'.late = {}
    <3>1. op' = Idle \/ op'.late = op.late
      BY <1>1, <1>5 DEF TransitionSave, TransitionSaveFails, Restore, RestoreError, Return, Op
    <3> QED BY <2>1, <3>1 DEF Idle
  <2>4. meta' = meta \/ \E state \in Session!Freezer : meta' = [op.was EXCEPT !.state = state]
    <3>1. op.was = [op.was EXCEPT !.state = op.was.state]
      BY <2>2 DEF Meta, Session!Meta
    <3>2. Aim.state \in Session!Freezer /\ "transition-error" \in Session!Freezer
      BY DEF Aim, Session!Freezer
    <3> QED BY <1>5, <2>2, <3>1, <3>2 DEF TransitionSave, TransitionSaveFails, Restore,
               RestoreError, Transitioned
  <2>5. CASE meta' = meta
    BY <2>1, <2>3, <2>5, MetaStays DEF Missed, Alive, Live
  <2>6. ASSUME NEW state \in Session!Freezer, meta' = [op.was EXCEPT !.state = state]
        PROVE  [Session!Next]_(Session!session)
    <3>1. meta' = [meta EXCEPT !.state = state]
      BY <2>2, <2>6 DEF Meta, Session!Meta
    <3>2. meta' \in Meta /\ meta'.unit = meta.unit
      <4>1. state \in Session!State
        BY DEF Session!Freezer, Session!State
      <4> QED BY <2>2, <3>1, <4>1, StateOf
    <3>3. (Alive' <=> Alive) /\ ~Missed /\ ~Missed'
      BY <2>1, <2>2, <2>3, <3>2, MetaAssumption DEF Alive, Live, Missed
    <3> QED BY <2>2, <3>1, <3>3, Views DEF Session!Next, Session!Transit, Readable, Missed, Alive
  <2> QED BY <2>4, <2>5, <2>6
<1> QED BY <1>2, <1>3, <1>4, <1>5

\* A kill, the scopes themselves, and a file damaged from outside.
LEMMA WorldImplements ==
    ASSUME IInv, ClientInv,
           \/ Kill \/ Edit \/ UNCHANGED vars
           \/ \E u \in Unit : RunWaited(u) \/ WaiterKilled(u) \/ Register(u) \/ Exit(u)
    PROVE  [Session!Next]_(Session!session)
<1>1. op \in Op /\ scope \in [Unit -> {"absent", "spawning", "running", "frozen"}]
  BY DEF IInv, TypeOK
<1>2. CASE Kill
  <2>1. op'.late = {} /\ UNCHANGED <<meta, scope>>
    BY <1>2 DEF Kill, Return, Idle, disk
  <2> QED BY <2>1, MetaStays DEF Missed, Alive, Live
<1>3. CASE Edit
  <2>1. op' = op /\ op.late = {} /\ UNCHANGED scope
    BY <1>3 DEF Edit, At, ClientInv
  <2>2. CASE UNCHANGED meta
    BY <2>1, <2>2, MetaStays DEF Missed, Alive, Live
  <2>3. CASE Readable /\ meta' = Damaged
    <3>1. ~Alive' /\ ~Missed /\ ~Missed'
      BY <2>1, <2>3 DEF Alive, Missed
    <3> QED BY <2>3, <3>1, Views DEF Session!Next, Session!Lose, Readable, Missed, Alive
  <2> QED BY <1>3, <2>2, <2>3 DEF Edit
<1>4. ASSUME NEW u \in Unit, RunWaited(u) \/ WaiterKilled(u) PROVE [Session!Next]_(Session!session)
  BY <1>4, MetaStays DEF RunWaited, WaiterKilled, Missed, Alive, Live, disk
<1>5. ASSUME NEW u \in Unit, Register(u) PROVE [Session!Next]_(Session!session)
  <2>1. op' = op /\ UNCHANGED meta /\ Live' \subseteq Unit
    BY <1>5 DEF Register, disk, Live
  <2>2. Alive' => Readable /\ meta.unit # None
    BY <2>1, RealmAssumption DEF Alive, Readable, Session!Readable
  <2> QED BY <2>1, <2>2, MetaStays DEF Missed
<1>6. ASSUME NEW u \in Unit, Exit(u) PROVE [Session!Next]_(Session!session)
  <2>1. op' = op /\ UNCHANGED meta
    BY <1>6 DEF Exit, disk
  <2>2. Live' \subseteq Live
    BY <1>1, <1>6 DEF Exit, Become, Live
  <2> QED BY <2>1, <2>2, MetaStays DEF Missed, Alive
<1>7. CASE UNCHANGED vars
  BY <1>7, MetaStays DEF vars, disk, Missed, Alive, Live
<1> QED BY <1>2, <1>3, <1>4, <1>5, <1>6, <1>7

\* runtime.py, process.py: to a client without the lock, session.json and the
\* session's scope change in the order RealmSession states: no session replaces
\* one that is alive, and none is declared over while its compositor runs.
THEOREM ClientsSeeOrder == Spec => ImplementsRealmSession
<1>1. Init => ClientInv
  BY DEF Init, Idle, ClientInv, At, Cleaning, Transiting
<1>2. IInv /\ ClientInv /\ [Next]_vars => ClientInv'
  BY ClientStep
<1>3. Init => Session!Init
  <2>1. Init => ~Alive /\ ~Missed
    BY DEF Init, Alive, Missed
  <2> QED BY <2>1, Views DEF Init, Session!Init, Missed, Alive
<1>4. IInv /\ ClientInv /\ [Next]_vars => [Session!Next]_(Session!session)
  BY BeginImplements, SessionImplements, OthersImplement, WorldImplements DEF Next, Step
<1> QED BY <1>1, <1>2, <1>3, <1>4, InductiveInvariant, PTL DEF Spec, ImplementsRealmSession, Session!Spec

=============================================================================
