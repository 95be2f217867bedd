--------------------------- MODULE RealmSimulator ---------------------------
(***************************************************************************)
(* The simulation daemon of a realm (agent-realms, simulation/daemon.py):  *)
(* one main loop that serves D-Bus calls, control requests, timers and the *)
(* idle callback that publishes what they changed.  Modelled are the Wi-Fi *)
(* device of the fake NetworkManager (network.py), whose activations take  *)
(* effect when a timer fires, and the private PipeWire (audio.py) that     *)
(* starts, dies and restarts, without its nodes.                           *)
(*                                                                         *)
(* A part whose sync raises is tried again by the next sync, and nothing   *)
(* brings one about.  Of the two, PipeWire can fail to start; the sync of  *)
(* NetworkManager needs the private bus only, without which the daemon     *)
(* ends.                                                                   *)
(*                                                                         *)
(* Timers of one delay fire in the order they were set; those of different *)
(* delays in any order.                                                    *)
(***************************************************************************)
EXTENDS Naturals, Sequences

CONSTANTS
    None,
    Ssid,                     \* names of networks
    Scenario,                 \* states that scenario files describe
    MaxCalls, MaxControls,    \* bounds on D-Bus calls and on control requests
    MaxFaults                 \* bound on failed starts and deaths of PipeWire

\* state["network"], and state["audio"] without its nodes.
World ==
    [available : BOOLEAN, present : BOOLEAN, wireless : BOOLEAN, fails : BOOLEAN,
     connected : Ssid \cup {None}, accessPoints : SUBSET Ssid, nearby : SUBSET Ssid,
     audio : BOOLEAN, restarting : BOOLEAN]

\* _check_consistency()
Valid(w) == w.connected \in w.accessPoints \cup {None}

ASSUME SimulatorAssumption ==
    /\ None \notin Ssid
    /\ Scenario \subseteq World
    /\ \A w \in Scenario : Valid(w)
    /\ {MaxCalls, MaxControls, MaxFaults} \subseteq Nat

VARIABLES
    world,        \* state
    override,     \* device_state[WIFI]
    saved,        \* extra_saved
    activations,  \* timers of activations, oldest first
    recoveries,   \* timers that end a failed activation
    pending,      \* whether changed() believes a sync is due
    queued,       \* idle callbacks in the loop
    published,    \* the objects on the bus
    restartTimer, \* restart_source
    pipewire,     \* whether the private PipeWire runs
    failed,       \* history: its last start failed, or it has died since
    faults,
    asked,        \* history: the network whose activation nothing has crossed
    calls, controls

device == <<world, override, saved, activations, recoveries>>
loop == <<pending, queued>>
audio == <<restartTimer, pipewire, failed, faults>>
inputs == <<calls, controls>>
vars == <<device, loop, published, audio, asked, inputs>>

\* NMDeviceState: what is published of the Wi-Fi device.
State == {"unavailable", "disconnected", "prepare", "activated", "failed"}

Activation == [ssid : Ssid, fails : BOOLEAN, live : BOOLEAN]

\* The service is not on the bus.
Off == [on |-> FALSE, state |-> None, ssid |-> None, accessPoints |-> {}, saved |-> {}]

TypeOK ==
    /\ world \in World
    /\ override \in {None, "prepare", "failed"}
    /\ saved \subseteq Ssid
    /\ activations \in Seq(Activation)
    /\ recoveries \in Nat
    /\ pending \in BOOLEAN
    /\ queued \in Nat
    /\ published \in [on : BOOLEAN, state : State \cup {None}, ssid : Ssid \cup {None},
                      accessPoints : SUBSET Ssid, saved : SUBSET Ssid]
    /\ restartTimer \in BOOLEAN
    /\ pipewire \in BOOLEAN
    /\ failed \in BOOLEAN
    /\ faults \in 0 .. MaxFaults
    /\ asked \in Ssid \cup {None}
    /\ calls \in 0 .. MaxCalls
    /\ controls \in 0 .. MaxControls

-----------------------------------------------------------------------------
VisibleAps(w) == IF w.present /\ w.wireless THEN w.accessPoints ELSE {}

\* saved_ssids(), which records the connected network.
SavedSsids(w) == saved \cup ({w.connected} \ {None})

WifiState(w, o) ==
    CASE ~w.present           -> None
      [] o # None             -> o
      [] ~w.wireless          -> "unavailable"
      [] w.connected # None   -> "activated"
      [] OTHER                -> "disconnected"

\* build(): what the bus shows of a world.
View(w, o, known) ==
    IF ~w.available THEN Off
    ELSE [on |-> TRUE,
          state |-> WifiState(w, o),
          ssid |-> IF WifiState(w, o) = "activated" THEN w.connected ELSE None,
          accessPoints |-> VisibleAps(w),
          saved |-> known]

\* changed()
Changed ==
    /\ pending' = TRUE
    /\ queued' = IF pending THEN queued ELSE queued + 1

\* Audio.sync(): PipeWire stops for a restart, which ends with the timer.
\* start_daemon() raises if the process ends.  One that is only late counts as
\* running from then on, although this sync fails as well.
WantsPipewire(w) == w.audio /\ ~w.restarting

SyncPipewire(w) ==
    \/ /\ pipewire' = WantsPipewire(w)
       /\ failed' = FALSE
       /\ UNCHANGED faults
    \/ /\ WantsPipewire(w) /\ ~pipewire
       /\ faults < MaxFaults
       /\ faults' = faults + 1
       /\ failed' = TRUE
       /\ UNCHANGED pipewire

\* Mutant of Sync: the timer is armed by what stops PipeWire.
SyncArmsOnStop(w) ==
    /\ published' = View(w, override, SavedSsids(w))
    /\ saved' = IF w.available THEN SavedSsids(w) ELSE saved
    /\ restartTimer' = (restartTimer \/ (w.restarting /\ pipewire))
    /\ SyncPipewire(w)
    /\ pending' = FALSE

\* Mutant of Sync: a service that leaves the bus forgets.
SyncForgets(w) ==
    /\ published' = View(w, override, SavedSsids(w))
    /\ saved' = IF w.available THEN SavedSsids(w) ELSE {}
    /\ restartTimer' = (restartTimer \/ w.restarting)
    /\ SyncPipewire(w)
    /\ pending' = FALSE

\* sync(): what a part raises is kept for the status, and stops no other part.
Sync(w) ==
    /\ published' = View(w, override, SavedSsids(w))
    /\ saved' = IF w.available THEN SavedSsids(w) ELSE saved
    /\ restartTimer' = (restartTimer \/ w.restarting)
    /\ SyncPipewire(w)
    /\ pending' = FALSE

\* Scenarios are published before the loop starts.
Init ==
    /\ world \in Scenario
    /\ override = None
    /\ saved = IF world.available THEN {world.connected} \ {None} ELSE {}
    /\ activations = <<>>
    /\ recoveries = 0
    /\ pending = FALSE
    /\ queued = 0
    /\ published = View(world, None, saved)
    /\ restartTimer = world.restarting
    /\ faults \in {f \in 0 .. MaxFaults : f = 0 \/ (f = 1 /\ WantsPipewire(world))}
    /\ failed = (faults = 1)
    /\ pipewire = (WantsPipewire(world) /\ ~failed)
    /\ asked = None
    /\ calls = 0
    /\ controls = 0

-----------------------------------------------------------------------------
(***************************************************************************)
(* Calls of clients on the bus, which reach what is published.             *)
(***************************************************************************)
Call ==
    /\ published.on
    /\ calls < MaxCalls
    /\ calls' = calls + 1
    /\ UNCHANGED <<published, audio, controls>>

AtRest == activations = <<>> /\ recoveries = 0 /\ override = None

\* _activate(): the outcome comes with a timer, and an error is decided now.
Activate(ssid) ==
    /\ override' = "prepare"
    /\ activations' = Append(activations, [ssid |-> ssid, fails |-> world.fails, live |-> TRUE])
    /\ asked' = IF ~world.fails /\ (AtRest \/ asked # None) THEN ssid ELSE None
    /\ Changed
    /\ UNCHANGED <<world, recoveries>>

\* An access point that is visible, else a connection that is saved.
ActivateConnection(ssid) ==
    /\ Call
    /\ \/ /\ ssid \in VisibleAps(world)
          /\ saved' = saved
       \/ /\ ssid \in SavedSsids(world)
          /\ saved' = SavedSsids(world)
    /\ Activate(ssid)

AddAndActivateConnection(ssid) ==
    /\ Call
    /\ saved' = saved \cup {ssid}
    /\ Activate(ssid)

\* Disconnect, DeactivateConnection: no timer is cancelled.
Disconnect ==
    /\ Call
    /\ world' = [world EXCEPT !.connected = None]
    /\ asked' = None
    /\ Changed
    /\ UNCHANGED <<override, saved, activations, recoveries>>

\* Connection.Delete
Delete(ssid) ==
    /\ Call
    /\ ssid \in published.saved
    /\ world' = IF world.connected = ssid THEN [world EXCEPT !.connected = None] ELSE world
    /\ saved' = saved \ {ssid}
    /\ asked' = None
    /\ Changed
    /\ UNCHANGED <<override, activations, recoveries>>

SetWireless(value) ==
    /\ Call
    /\ world' = [world EXCEPT !.wireless = value]
    /\ Changed
    /\ UNCHANGED <<override, saved, activations, recoveries, asked>>

Scanned == [world EXCEPT !.accessPoints = @ \cup world.nearby]

RequestScan ==
    /\ Call
    /\ published.state # None
    /\ world' = Scanned
    /\ Changed
    /\ UNCHANGED <<override, saved, activations, recoveries, asked>>

\* Properties are computed when they are read, and that records the network.
ReadProperties ==
    /\ Call
    /\ published.state # None
    /\ saved' = SavedSsids(world)
    /\ UNCHANGED <<world, override, activations, recoveries, loop, asked>>

ClientCalls ==
    \/ \E s \in Ssid : ActivateConnection(s) \/ AddAndActivateConnection(s) \/ Delete(s)
    \/ Disconnect \/ RequestScan \/ ReadProperties
    \/ \E value \in BOOLEAN : SetWireless(value)

-----------------------------------------------------------------------------
(***************************************************************************)
(* Timers and the idle callback.                                           *)
(***************************************************************************)
\* The callback of an activation holds the dictionary it started with: a state
\* loaded since does not see its result.
Finished(activation) ==
    IF activation.live THEN [world EXCEPT !.connected = activation.ssid] ELSE world

\* Mutant of Finish: what a newer or an older activation ended is left alone.
FinishUnlessEnded ==
    /\ activations # <<>>
    /\ ~Head(activations).fails
    /\ world' = IF override = None THEN world ELSE Finished(Head(activations))
    /\ override' = None
    /\ activations' = Tail(activations)
    /\ Changed
    /\ UNCHANGED <<saved, recoveries, published, audio, asked, inputs>>

Finish ==
    /\ activations # <<>>
    /\ ~Head(activations).fails
    /\ world' = Finished(Head(activations))
    /\ override' = None
    /\ activations' = Tail(activations)
    /\ Changed
    /\ UNCHANGED <<saved, recoveries, published, audio, asked, inputs>>

\* Mutant of FailActivation: the failure is not announced.
FailSilently ==
    /\ activations # <<>>
    /\ Head(activations).fails
    /\ override' = "failed"
    /\ activations' = Tail(activations)
    /\ recoveries' = recoveries + 1
    /\ UNCHANGED <<world, saved, loop, published, audio, asked, inputs>>

\* Mutant of FailActivation: nothing ends the failure.
FailForGood ==
    /\ activations # <<>>
    /\ Head(activations).fails
    /\ override' = "failed"
    /\ activations' = Tail(activations)
    /\ Changed
    /\ UNCHANGED <<world, saved, recoveries, published, audio, asked, inputs>>

FailActivation ==
    /\ activations # <<>>
    /\ Head(activations).fails
    /\ override' = "failed"
    /\ activations' = Tail(activations)
    /\ recoveries' = recoveries + 1
    /\ Changed
    /\ UNCHANGED <<world, saved, published, audio, asked, inputs>>

\* recover(), whatever happened since the failure.
Recover ==
    /\ recoveries > 0
    /\ recoveries' = recoveries - 1
    /\ override' = None
    /\ world' = [world EXCEPT !.connected = None]
    /\ Changed
    /\ UNCHANGED <<saved, activations, published, audio, asked, inputs>>

\* _finish_restart(): of whatever state is loaded.
FinishRestart ==
    /\ restartTimer
    /\ restartTimer' = FALSE
    /\ world' = [world EXCEPT !.restarting = FALSE]
    /\ Changed
    /\ UNCHANGED <<override, saved, activations, recoveries, published, pipewire, failed, faults,
                   asked, inputs>>

\* Nobody watches the process.
PipewireDies ==
    /\ pipewire
    /\ faults < MaxFaults
    /\ faults' = faults + 1
    /\ pipewire' = FALSE
    /\ failed' = TRUE
    /\ UNCHANGED <<device, loop, published, restartTimer, asked, inputs>>

Idle ==
    /\ queued > 0
    /\ queued' = queued - 1
    /\ Sync(world)
    /\ UNCHANGED <<world, override, activations, recoveries, asked, inputs>>

-----------------------------------------------------------------------------
(***************************************************************************)
(* _control(): the state is changed and published before the reply.  An    *)
(* idle callback that was due stays in the loop.                           *)
(***************************************************************************)
Control(w) ==
    /\ controls < MaxControls
    /\ controls' = controls + 1
    /\ world' = w
    /\ Sync(w)
    /\ UNCHANGED <<override, recoveries, calls>>

\* Apply, Reset and Set put new dictionaries in the state.
Replace(w) ==
    /\ Control(w)
    /\ activations' = [i \in DOMAIN activations |-> [activations[i] EXCEPT !.live = FALSE]]
    /\ asked' = None
    /\ UNCHANGED queued

Apply == \E w \in Scenario : Replace(w)

\* apply_assignment(): one value, and the whole state is validated.
Assigned ==
    {[world EXCEPT !.available = b] : b \in BOOLEAN}
    \cup {[world EXCEPT !.present = b] : b \in BOOLEAN}
    \cup {[world EXCEPT !.wireless = b] : b \in BOOLEAN}
    \cup {[world EXCEPT !.fails = b] : b \in BOOLEAN}
    \cup {[world EXCEPT !.audio = b] : b \in BOOLEAN}
    \cup {[world EXCEPT !.restarting = b] : b \in BOOLEAN}
    \cup {[world EXCEPT !.connected = s] : s \in Ssid \cup {None}}
    \cup {[world EXCEPT !.accessPoints = a] : a \in SUBSET Ssid}

Set == \E w \in Assigned : Valid(w) /\ Replace(w)

\* Event wifi-scan: request_scan() also calls changed().
ScanEvent ==
    /\ world.available /\ world.present
    /\ Control(Scanned)
    /\ queued' = IF pending THEN queued ELSE queued + 1
    /\ UNCHANGED <<activations, asked>>

RestartEvent ==
    /\ Control([world EXCEPT !.restarting = TRUE])
    /\ UNCHANGED <<activations, asked, queued>>

Controls == Apply \/ Set \/ ScanEvent \/ RestartEvent

-----------------------------------------------------------------------------
Dispatch == Finish \/ FailActivation \/ Recover \/ FinishRestart \/ Idle

Next == ClientCalls \/ Controls \/ Dispatch \/ PipewireDies

Spec == Init /\ [][Next]_vars

\* The loop dispatches every source that is ready.
FairSpec ==
    /\ Spec
    /\ WF_vars(Finish \/ FailActivation)
    /\ WF_vars(Recover)
    /\ WF_vars(FinishRestart)
    /\ WF_vars(Idle)

-----------------------------------------------------------------------------
\* What the bus shows is out of date only while a callback that publishes is
\* due, whatever calls, timers and explicit syncs came in between.
NothingUnpublished == published # View(world, override, SavedSsids(world)) => queued > 0

\* Of activations that overlap and that nothing else crossed, the last one
\* asked for is the network connected in the end.
LatestActivationWins ==
    asked # None /\ activations = <<>> => world.connected = asked /\ override = None

\* A network that clients saw connected, or that was saved, stays saved until
\* a client deletes it: no restart of the service and no new state forgets it.
SeenStaysSaved ==
    [][\A s \in Ssid : s \in saved \/ (s = published.ssid /\ queued = 0)
                       => s \in saved' \/ Delete(s)]_vars

\* Once clients and controls are quiet the device is at rest, with no failure
\* or preparation left behind, and the bus shows its state.
Settles == <>[](override = None /\ published = View(world, None, saved))

\* Every restart of PipeWire ends, whichever scenario is loaded meanwhile, and it
\* runs again where a scenario wants it, unless its last start failed or it died.
AudioComesBack == []<>(~world.restarting /\ (pipewire = world.audio \/ failed))
=============================================================================
