------------------------ MODULE RealmSimulatorProofs ------------------------
(***************************************************************************)
(* What the simulation daemon guarantees for any set of networks, any      *)
(* scenarios and any number of calls and control requests.                 *)
(***************************************************************************)
EXTENDS RealmSimulator, TLAPS

\* changed() and sync() agree on whether a callback is due.
PendingIsQueued == pending => queued > 0

\* While nothing has crossed the latest activation, everything that is still
\* due reaches the state in use and ends with the network asked for.
OnlyTheLatestIsDue ==
    asked # None =>
        /\ recoveries = 0
        /\ \A i \in 1 .. Len(activations) : activations[i].live /\ ~activations[i].fails
        /\ activations = <<>> => world.connected = asked /\ override = None
        /\ activations # <<>> => activations[Len(activations)].ssid = asked

-----------------------------------------------------------------------------
\* changed() leaves a callback that is due.
LEMMA ChangedQueues ==
    ASSUME TypeOK, PendingIsQueued, Changed
    PROVE  queued' > 0 /\ queued' \in Nat /\ pending' \in BOOLEAN /\ PendingIsQueued'
  BY DEF TypeOK, PendingIsQueued, Changed

\* The view of a world that is valid data is valid data.
LEMMA ViewType ==
    ASSUME NEW w \in World, NEW o \in {None, "prepare", "failed"}, NEW known \in SUBSET Ssid
    PROVE  View(w, o, known) \in [on : BOOLEAN, state : State \cup {None}, ssid : Ssid \cup {None},
                                  accessPoints : SUBSET Ssid, saved : SUBSET Ssid]
  BY DEF View, Off, WifiState, VisibleAps, World, State

LEMMA SavedType ==
    ASSUME TypeOK, NEW w \in World
    PROVE  SavedSsids(w) \in SUBSET Ssid
  BY DEF TypeOK, SavedSsids, World

LEMMA SyncType ==
    ASSUME TypeOK, NEW w \in World, Sync(w)
    PROVE  /\ published' \in [on : BOOLEAN, state : State \cup {None}, ssid : Ssid \cup {None},
                              accessPoints : SUBSET Ssid, saved : SUBSET Ssid]
           /\ saved' \subseteq Ssid
           /\ restartTimer' \in BOOLEAN /\ pipewire' \in BOOLEAN /\ pending' \in BOOLEAN
           /\ failed' \in BOOLEAN /\ faults' \in 0 .. MaxFaults
  <1>1. override \in {None, "prepare", "failed"}
    BY DEF TypeOK
  <1>2. View(w, override, SavedSsids(w)) \in
            [on : BOOLEAN, state : State \cup {None}, ssid : Ssid \cup {None},
             accessPoints : SUBSET Ssid, saved : SUBSET Ssid]
    BY <1>1, SavedType, ViewType
  <1>3. SavedSsids(w) \in SUBSET Ssid
    BY SavedType
  <1>4. w.audio \in BOOLEAN /\ w.restarting \in BOOLEAN
    BY DEF World
  <1>5. pipewire' \in BOOLEAN /\ failed' \in BOOLEAN
    BY <1>4 DEF Sync, SyncPipewire, WantsPipewire, TypeOK
  <1>6. faults' \in 0 .. MaxFaults
    BY SimulatorAssumption DEF Sync, SyncPipewire, TypeOK
  <1> QED
    BY <1>2, <1>3, <1>4, <1>5, <1>6 DEF Sync, TypeOK

-----------------------------------------------------------------------------
LEMMA InitTypeOK == Init => TypeOK
  <1> SUFFICES ASSUME Init PROVE TypeOK
    OBVIOUS
  <1>1. world \in World /\ override \in {None, "prepare", "failed"}
    BY SimulatorAssumption DEF Init
  <1>2. saved \in SUBSET Ssid
    BY <1>1 DEF Init, World
  <1>3. View(world, None, saved) \in
            [on : BOOLEAN, state : State \cup {None}, ssid : Ssid \cup {None},
             accessPoints : SUBSET Ssid, saved : SUBSET Ssid]
    BY <1>1, <1>2, ViewType
  <1>4. /\ restartTimer \in BOOLEAN /\ pipewire \in BOOLEAN /\ failed \in BOOLEAN
        /\ faults \in 0 .. MaxFaults
    BY <1>1 DEF Init, World, WantsPipewire
  <1>5. calls \in 0 .. MaxCalls /\ controls \in 0 .. MaxControls
    BY SimulatorAssumption DEF Init
  <1>6. published \in [on : BOOLEAN, state : State \cup {None}, ssid : Ssid \cup {None},
                       accessPoints : SUBSET Ssid, saved : SUBSET Ssid]
    BY <1>3 DEF Init
  <1>7. activations \in Seq(Activation) /\ recoveries \in Nat /\ queued \in Nat
    BY DEF Init
  <1>8. pending \in BOOLEAN /\ asked \in Ssid \cup {None}
    BY DEF Init
  <1> QED
    BY <1>1, <1>2, <1>4, <1>5, <1>6, <1>7, <1>8 DEF TypeOK

\* An activation of any kind of call.
LEMMA ActivateType ==
    ASSUME TypeOK, NEW ssid \in Ssid, Call, Activate(ssid), saved' \subseteq Ssid
    PROVE  TypeOK'
  <1>1. [ssid |-> ssid, fails |-> world.fails, live |-> TRUE] \in Activation
    BY DEF TypeOK, World, Activation
  <1>2. activations' \in Seq(Activation)
    BY <1>1 DEF TypeOK, Activate
  <1>3. asked' \in Ssid \cup {None} /\ override' \in {None, "prepare", "failed"}
    BY DEF Activate
  <1>4. pending' \in BOOLEAN /\ queued' \in Nat
    BY DEF TypeOK, Activate, Changed
  <1>5. calls' \in 0 .. MaxCalls
    BY SimulatorAssumption DEF TypeOK, Call
  <1> QED
    BY <1>2, <1>3, <1>4, <1>5 DEF TypeOK, Activate, Call, audio

LEMMA ClientCallsType ==
    ASSUME TypeOK, ClientCalls
    PROVE  TypeOK'
  <1>1. ASSUME NEW s \in Ssid, ActivateConnection(s) PROVE TypeOK'
    <2>1. saved' \subseteq Ssid
      BY <1>1, SavedType DEF ActivateConnection, TypeOK
    <2> QED
      BY <1>1, <2>1, ActivateType DEF ActivateConnection
  <1>2. ASSUME NEW s \in Ssid, AddAndActivateConnection(s) PROVE TypeOK'
    <2>1. saved' \subseteq Ssid
      BY <1>2 DEF AddAndActivateConnection, TypeOK
    <2> QED
      BY <1>2, <2>1, ActivateType DEF AddAndActivateConnection
  <1>3. ASSUME NEW s \in Ssid, Delete(s) PROVE TypeOK'
    <2>1. world' \in World
      BY <1>3 DEF Delete, TypeOK, World
    <2> QED
      BY <1>3, <2>1, SimulatorAssumption DEF Delete, Call, Changed, TypeOK, audio
  <1>4. CASE Disconnect
    <2>1. world' \in World
      BY <1>4 DEF Disconnect, TypeOK, World
    <2> QED
      BY <1>4, <2>1, SimulatorAssumption DEF Disconnect, Call, Changed, TypeOK, audio
  <1>5. CASE RequestScan
    <2>1. world' \in World
      BY <1>5 DEF RequestScan, Scanned, TypeOK, World
    <2> QED
      BY <1>5, <2>1, SimulatorAssumption DEF RequestScan, Call, Changed, TypeOK, audio
  <1>6. CASE ReadProperties
    <2>1. saved' \subseteq Ssid
      BY <1>6, SavedType DEF ReadProperties, TypeOK
    <2> QED
      BY <1>6, <2>1, SimulatorAssumption DEF ReadProperties, Call, TypeOK, loop, audio
  <1>7. ASSUME NEW value \in BOOLEAN, SetWireless(value) PROVE TypeOK'
    <2>1. world' \in World
      BY <1>7 DEF SetWireless, TypeOK, World
    <2> QED
      BY <1>7, <2>1, SimulatorAssumption DEF SetWireless, Call, Changed, TypeOK, audio
  <1> QED
    BY <1>1, <1>2, <1>3, <1>4, <1>5, <1>6, <1>7 DEF ClientCalls

LEMMA DispatchType ==
    ASSUME TypeOK, Dispatch
    PROVE  TypeOK'
  <1>1. CASE Finish
    <2>1. Head(activations) \in Activation /\ Tail(activations) \in Seq(Activation)
      BY <1>1 DEF Finish, TypeOK
    <2>2. world' \in World
      BY <1>1, <2>1 DEF Finish, Finished, TypeOK, World, Activation
    <2> QED
      BY <1>1, <2>1, <2>2 DEF Finish, Changed, TypeOK, audio, inputs
  <1>2. CASE FailActivation
    BY <1>2 DEF FailActivation, Changed, TypeOK, audio, inputs
  <1>3. CASE Recover
    <2>1. world' \in World
      BY <1>3 DEF Recover, TypeOK, World
    <2> QED
      BY <1>3, <2>1 DEF Recover, Changed, TypeOK, audio, inputs
  <1>4. CASE FinishRestart
    <2>1. world' \in World
      BY <1>4 DEF FinishRestart, TypeOK, World
    <2>2. pending' \in BOOLEAN /\ queued' \in Nat
      BY <1>4 DEF FinishRestart, Changed, TypeOK
    <2>3. restartTimer' \in BOOLEAN
      BY <1>4 DEF FinishRestart
    <2> QED
      BY <1>4, <2>1, <2>2, <2>3 DEF FinishRestart, TypeOK, inputs
  <1>5. CASE Idle
    <2>1. Sync(world) /\ world \in World
      BY <1>5 DEF Idle, TypeOK
    <2> QED
      BY <1>5, <2>1, SyncType DEF Idle, TypeOK, inputs
  <1> QED
    BY <1>1, <1>2, <1>3, <1>4, <1>5 DEF Dispatch

\* A control request that publishes a state of the right type.
LEMMA ControlType ==
    ASSUME TypeOK, NEW w \in World, Control(w),
           activations' \in Seq(Activation), asked' \in Ssid \cup {None}, queued' \in Nat
    PROVE  TypeOK'
  <1>1. controls' \in 0 .. MaxControls
    BY SimulatorAssumption DEF TypeOK, Control
  <1>2. Sync(w) /\ world' = w
    BY DEF Control
  <1> QED
    BY <1>1, <1>2, SyncType DEF TypeOK, Control

LEMMA ReplaceType ==
    ASSUME TypeOK, NEW w \in World, Replace(w)
    PROVE  TypeOK'
  <1>1. activations' \in Seq(Activation)
    <2>1. activations \in Seq(Activation)
      BY DEF TypeOK
    <2>2. activations' = [i \in 1 .. Len(activations) |-> [activations[i] EXCEPT !.live = FALSE]]
      BY <2>1 DEF Replace
    <2>3. ASSUME NEW i \in 1 .. Len(activations) PROVE [activations[i] EXCEPT !.live = FALSE] \in Activation
      <3>1. activations[i] \in Activation
        BY <2>1
      <3> QED
        BY <3>1 DEF Activation
    <2> QED
      BY <2>1, <2>2, <2>3
  <1> QED
    BY <1>1, ControlType DEF TypeOK, Replace

LEMMA ControlsType ==
    ASSUME TypeOK, Controls
    PROVE  TypeOK'
  <1>1. CASE Apply
    BY <1>1, ReplaceType, SimulatorAssumption DEF Apply
  <1>2. CASE Set
    <2>1. ASSUME NEW w \in Assigned PROVE w \in World
      <3>1. world \in World
        BY DEF TypeOK
      <3>2. ASSUME NEW b \in BOOLEAN
            PROVE  /\ [world EXCEPT !.available = b] \in World
                   /\ [world EXCEPT !.present = b] \in World
                   /\ [world EXCEPT !.wireless = b] \in World
                   /\ [world EXCEPT !.fails = b] \in World
                   /\ [world EXCEPT !.audio = b] \in World
                   /\ [world EXCEPT !.restarting = b] \in World
        BY <3>1 DEF World
      <3>3. ASSUME NEW s \in Ssid \cup {None} PROVE [world EXCEPT !.connected = s] \in World
        BY <3>1 DEF World
      <3>4. ASSUME NEW a \in SUBSET Ssid PROVE [world EXCEPT !.accessPoints = a] \in World
        BY <3>1 DEF World
      <3> QED
        BY <3>2, <3>3, <3>4, Zenon DEF Assigned
    <2> QED
      BY <1>2, <2>1, ReplaceType DEF Set
  <1>3. CASE ScanEvent
    <2>1. Scanned \in World
      BY DEF Scanned, TypeOK, World
    <2> QED
      BY <1>3, <2>1, ControlType DEF ScanEvent, TypeOK
  <1>4. CASE RestartEvent
    <2>1. [world EXCEPT !.restarting = TRUE] \in World
      BY DEF TypeOK, World
    <2> QED
      BY <1>4, <2>1, ControlType DEF RestartEvent, TypeOK
  <1> QED
    BY <1>1, <1>2, <1>3, <1>4 DEF Controls

LEMMA DiesType ==
    ASSUME TypeOK, PipewireDies
    PROVE  TypeOK'
  <1>1. faults' \in 0 .. MaxFaults
    BY SimulatorAssumption DEF PipewireDies, TypeOK
  <1> QED
    BY <1>1 DEF PipewireDies, TypeOK, device, loop, inputs

LEMMA StepTypeOK == TypeOK /\ [Next]_vars => TypeOK'
  <1> SUFFICES ASSUME TypeOK, [Next]_vars PROVE TypeOK'
    OBVIOUS
  <1>1. CASE UNCHANGED vars
    BY <1>1 DEF TypeOK, vars, device, loop, audio, inputs
  <1> QED
    BY <1>1, ClientCallsType, DispatchType, ControlsType, DiesType DEF Next

\* Every value keeps its type, whatever is called, set or due.
THEOREM TypeCorrect == Spec => []TypeOK
  <1> QED
    BY InitTypeOK, StepTypeOK, PTL DEF Spec

-----------------------------------------------------------------------------
\* After a sync the bus shows the state: what it records of the connected
\* network is recorded already.
LEMMA SyncShows ==
    ASSUME NEW w, Sync(w), world' = w, override' = override
    PROVE  (published = View(world, override, SavedSsids(world)))'
  <1>1. CASE w.available
    <2>1. SavedSsids(world)' = SavedSsids(w)
      BY <1>1 DEF Sync, SavedSsids
    <2>2. View(world, override, SavedSsids(world))' = View(w, override, SavedSsids(w))
      BY <2>1 DEF View, WifiState, VisibleAps
    <2> QED
      BY <2>2 DEF Sync
  <1>2. CASE ~w.available
    BY <1>2 DEF Sync, View
  <1> QED
    BY <1>1, <1>2

\* Whatever a client calls changes nothing that is shown, or says so.
LEMMA ClientCallsDue ==
    ASSUME TypeOK, PendingIsQueued, NothingUnpublished, ClientCalls
    PROVE  PendingIsQueued' /\ NothingUnpublished'
  <1>1. CASE ReadProperties
    <2>1. SavedSsids(world)' = SavedSsids(world)
      BY <1>1 DEF ReadProperties, SavedSsids
    <2>2. View(world, override, SavedSsids(world))' = View(world, override, SavedSsids(world))
      BY <1>1, <2>1 DEF ReadProperties, View, WifiState, VisibleAps
    <2> QED
      BY <1>1, <2>2 DEF ReadProperties, Call, loop, PendingIsQueued, NothingUnpublished
  <1>2. CASE ~ReadProperties
    <2>1. Changed
      BY <1>2 DEF ClientCalls, ActivateConnection, AddAndActivateConnection, Activate, Delete, Disconnect,
                  RequestScan, SetWireless
    <2> QED
      BY <2>1, ChangedQueues DEF NothingUnpublished
  <1> QED
    BY <1>1, <1>2

LEMMA DispatchDue ==
    ASSUME TypeOK, PendingIsQueued, NothingUnpublished, Dispatch
    PROVE  PendingIsQueued' /\ NothingUnpublished'
  <1>1. CASE Idle
    BY <1>1, SyncShows DEF Idle, Sync, PendingIsQueued, NothingUnpublished
  <1>2. CASE ~Idle
    <2>1. Changed
      BY <1>2 DEF Dispatch, Finish, FailActivation, Recover, FinishRestart
    <2> QED
      BY <2>1, ChangedQueues DEF NothingUnpublished
  <1> QED
    BY <1>1, <1>2

LEMMA ControlsDue ==
    ASSUME TypeOK, Controls
    PROVE  PendingIsQueued' /\ NothingUnpublished'
  <1>1. PICK w : Control(w)
    BY DEF Controls, Apply, Set, Replace, ScanEvent, RestartEvent
  <1> QED
    BY <1>1, SyncShows DEF Control, Sync, PendingIsQueued, NothingUnpublished

LEMMA DiesDue ==
    ASSUME PendingIsQueued, NothingUnpublished, PipewireDies
    PROVE  PendingIsQueued' /\ NothingUnpublished'
  BY DEF PipewireDies, PendingIsQueued, NothingUnpublished, View, WifiState, VisibleAps, SavedSsids, device, loop

LEMMA InitDue == Init => PendingIsQueued /\ NothingUnpublished
  <1> SUFFICES ASSUME Init PROVE PendingIsQueued /\ NothingUnpublished
    OBVIOUS
  <1>1. View(world, None, saved) = View(world, override, SavedSsids(world))
    <2>1. CASE world.available
      BY <2>1 DEF Init, View, SavedSsids
    <2>2. CASE ~world.available
      BY <2>2 DEF View
    <2> QED
      BY <2>1, <2>2
  <1> QED
    BY <1>1 DEF Init, PendingIsQueued, NothingUnpublished

\* However calls, timers, idle callbacks and control requests follow each
\* other, what the bus shows is out of date only while a sync is due.
THEOREM PublishedOrDue == Spec => []NothingUnpublished
  <1> DEFINE Inv == TypeOK /\ PendingIsQueued /\ NothingUnpublished
  <1>1. Init => Inv
    BY InitTypeOK, InitDue
  <1>2. Inv /\ [Next]_vars => Inv'
    <2> SUFFICES ASSUME Inv, [Next]_vars PROVE Inv'
      OBVIOUS
    <2>1. TypeOK'
      BY StepTypeOK
    <2>2. CASE UNCHANGED vars
      BY <2>1, <2>2 DEF vars, device, loop, PendingIsQueued, NothingUnpublished, View, WifiState, VisibleAps,
                        SavedSsids
    <2> QED
      BY <2>1, <2>2, ClientCallsDue, DispatchDue, ControlsDue, DiesDue DEF Next
  <1> QED
    BY <1>1, <1>2, PTL DEF Spec

-----------------------------------------------------------------------------
\* A request that nothing has crossed is the last of those that are due.
LEMMA ActivateLatest ==
    ASSUME TypeOK, OnlyTheLatestIsDue, NEW ssid \in Ssid, Activate(ssid)
    PROVE  OnlyTheLatestIsDue'
  <1> SUFFICES ASSUME asked' # None
               PROVE  /\ recoveries' = 0
                      /\ \A i \in 1 .. Len(activations') : activations'[i].live /\ ~activations'[i].fails
                      /\ activations' # <<>>
                      /\ activations'[Len(activations')].ssid = asked'
    BY DEF OnlyTheLatestIsDue
  <1> DEFINE new == [ssid |-> ssid, fails |-> world.fails, live |-> TRUE]
  <1>1. ~world.fails /\ (AtRest \/ asked # None) /\ asked' = ssid
    BY DEF Activate
  <1>2. activations \in Seq(Activation) /\ new \in Activation
    BY DEF TypeOK, World, Activation
  <1>3. activations' = Append(activations, new) /\ recoveries' = recoveries
    BY DEF Activate
  <1>4. recoveries = 0 /\ \A i \in 1 .. Len(activations) : activations[i].live /\ ~activations[i].fails
    BY <1>1 DEF AtRest, OnlyTheLatestIsDue
  <1>5. Len(activations') = Len(activations) + 1 /\ activations'[Len(activations) + 1] = new
    BY <1>2, <1>3
  <1>6. ASSUME NEW i \in 1 .. Len(activations') PROVE activations'[i].live /\ ~activations'[i].fails
    <2>1. CASE i = Len(activations) + 1
      BY <1>1, <1>5, <2>1
    <2>2. CASE i \in 1 .. Len(activations)
      BY <1>2, <1>3, <1>4, <2>2
    <2> QED
      BY <1>2, <1>5, <2>1, <2>2
  <1>7. activations' # <<>>
    BY <1>2, <1>3
  <1> QED
    BY <1>1, <1>3, <1>4, <1>5, <1>6, <1>7

LEMMA ClientCallsLatest ==
    ASSUME TypeOK, OnlyTheLatestIsDue, ClientCalls
    PROVE  OnlyTheLatestIsDue'
  <1>1. ASSUME NEW s \in Ssid, Activate(s) PROVE OnlyTheLatestIsDue'
    BY <1>1, ActivateLatest
  <1>2. CASE asked' = None
    BY <1>2 DEF OnlyTheLatestIsDue
  <1>3. CASE /\ UNCHANGED <<override, activations, recoveries, asked>>
             /\ world'.connected = world.connected
    BY <1>3 DEF OnlyTheLatestIsDue
  <1>4. ASSUME NEW s \in Ssid, Delete(s) PROVE asked' = None
    BY <1>4 DEF Delete
  <1>5. Disconnect => asked' = None
    BY DEF Disconnect
  <1>6. ASSUME RequestScan \/ ReadProperties \/ (\E value \in BOOLEAN : SetWireless(value))
        PROVE  /\ UNCHANGED <<override, activations, recoveries, asked>>
               /\ world'.connected = world.connected
    BY <1>6 DEF RequestScan, Scanned, ReadProperties, SetWireless, TypeOK, World
  <1> QED
    BY <1>1, <1>2, <1>3, <1>4, <1>5, <1>6 DEF ClientCalls, ActivateConnection, AddAndActivateConnection

LEMMA DispatchLatest ==
    ASSUME TypeOK, OnlyTheLatestIsDue, Dispatch
    PROVE  OnlyTheLatestIsDue'
  <1>1. CASE asked = None
    BY <1>1 DEF Dispatch, Finish, FailActivation, Recover, FinishRestart, Idle, OnlyTheLatestIsDue
  <1>2. CASE asked # None
    <2>1. /\ recoveries = 0
          /\ \A i \in 1 .. Len(activations) : activations[i].live /\ ~activations[i].fails
      BY <1>2 DEF OnlyTheLatestIsDue
    <2>2. activations \in Seq(Activation)
      BY DEF TypeOK
    <2>3. CASE Finish
      <3>1. activations # <<>> /\ Head(activations) = activations[1] /\ 1 \in 1 .. Len(activations)
        BY <2>2, <2>3 DEF Finish
      <3>2. world' = [world EXCEPT !.connected = activations[1].ssid]
        BY <2>1, <2>3, <3>1 DEF Finish, Finished
      <3>3. world'.connected = activations[1].ssid
        BY <3>2 DEF TypeOK, World
      <3>4. activations' = Tail(activations) /\ override' = None /\ recoveries' = 0 /\ asked' = asked
        BY <2>1, <2>3 DEF Finish
      <3>5. activations[Len(activations)].ssid = asked
        BY <1>2, <3>1 DEF OnlyTheLatestIsDue
      <3>6. /\ Len(activations') = Len(activations) - 1
            /\ \A i \in 1 .. Len(activations') : activations'[i] = activations[i + 1]
        BY <2>2, <3>1, <3>4
      <3>7. \A i \in 1 .. Len(activations') : activations'[i].live /\ ~activations'[i].fails
        BY <2>1, <2>2, <3>6
      <3>8. CASE activations' = <<>>
        <4>1. Len(activations) = 1
          BY <2>2, <3>1, <3>6, <3>8
        <4> QED
          BY <3>3, <3>4, <3>5, <3>7, <3>8, <4>1 DEF OnlyTheLatestIsDue
      <3>9. CASE activations' # <<>>
        <4>1. activations' \in Seq(Activation)
          BY <2>2, <3>1, <3>4
        <4>2. Len(activations') \in 1 .. Len(activations')
          BY <3>9, <4>1
        <4>3. activations'[Len(activations')] = activations[Len(activations)]
          BY <2>2, <3>6, <4>2
        <4> QED
          BY <3>4, <3>5, <3>7, <3>9, <4>3 DEF OnlyTheLatestIsDue
      <3> QED
        BY <3>8, <3>9
    <2>4. ~FailActivation
      <3>1. activations # <<>> => Head(activations) = activations[1] /\ 1 \in 1 .. Len(activations)
        BY <2>2
      <3> QED
        BY <2>1, <3>1 DEF FailActivation
    <2>5. ~Recover
      BY <2>1 DEF Recover
    <2>6. CASE FinishRestart
      <3>1. world'.connected = world.connected
        BY <2>6 DEF FinishRestart, TypeOK, World
      <3> QED
        BY <2>6, <3>1 DEF FinishRestart, OnlyTheLatestIsDue
    <2>7. CASE Idle
      BY <2>7 DEF Idle, OnlyTheLatestIsDue
    <2> QED
      BY <2>3, <2>4, <2>5, <2>6, <2>7 DEF Dispatch
  <1> QED
    BY <1>1, <1>2

LEMMA ControlsLatest ==
    ASSUME TypeOK, OnlyTheLatestIsDue, Controls
    PROVE  OnlyTheLatestIsDue'
  <1>1. CASE asked' = None
    BY <1>1 DEF OnlyTheLatestIsDue
  <1>2. CASE ScanEvent \/ RestartEvent
    <2>1. world'.connected = world.connected
      BY <1>2 DEF ScanEvent, RestartEvent, Control, Scanned, TypeOK, World
    <2> QED
      BY <1>2, <2>1 DEF ScanEvent, RestartEvent, Control, OnlyTheLatestIsDue
  <1> QED
    BY <1>1, <1>2 DEF Controls, Apply, Set, Replace

\* However many activations overlap, the last one that was asked for wins
\* unless something else crossed it.
THEOREM LastAskedIsConnected == Spec => []LatestActivationWins
  <1> DEFINE Inv == TypeOK /\ OnlyTheLatestIsDue
  <1>1. Init => Inv
    BY InitTypeOK DEF Init, OnlyTheLatestIsDue
  <1>2. Inv /\ [Next]_vars => Inv'
    <2> SUFFICES ASSUME Inv, [Next]_vars PROVE Inv'
      OBVIOUS
    <2>1. TypeOK'
      BY StepTypeOK
    <2>2. CASE UNCHANGED vars
      BY <2>1, <2>2 DEF vars, device, OnlyTheLatestIsDue
    <2>3. CASE PipewireDies
      BY <2>1, <2>3 DEF PipewireDies, device, OnlyTheLatestIsDue
    <2> QED
      BY <2>1, <2>2, <2>3, ClientCallsLatest, DispatchLatest, ControlsLatest DEF Next
  <1>3. Inv => LatestActivationWins
    BY DEF OnlyTheLatestIsDue, LatestActivationWins
  <1> QED
    BY <1>1, <1>2, <1>3, PTL DEF Spec

-----------------------------------------------------------------------------
\* A sync has recorded the network that is connected.
Recorded == queued = 0 /\ world.available => world.connected \in saved \cup {None}

LEMMA StepRecorded ==
    ASSUME TypeOK, PendingIsQueued, Recorded, Next
    PROVE  Recorded'
  <1>1. CASE ReadProperties
    BY <1>1 DEF ReadProperties, loop, Recorded, SavedSsids
  <1>2. CASE Idle
    BY <1>2 DEF Idle, Sync, Recorded, SavedSsids
  <1>3. CASE Controls
    <2>1. PICK w : Control(w)
      BY <1>3 DEF Controls, Apply, Set, Replace, ScanEvent, RestartEvent
    <2> QED
      BY <2>1 DEF Control, Sync, Recorded, SavedSsids
  <1>4. CASE PipewireDies
    BY <1>4 DEF PipewireDies, device, loop, Recorded
  <1>5. CASE ~ReadProperties /\ ~Idle /\ ~Controls /\ ~PipewireDies
    <2>1. Changed
      BY <1>5 DEF Next, ClientCalls, ActivateConnection, AddAndActivateConnection, Activate, Delete,
                  Disconnect, RequestScan, SetWireless, Dispatch, Finish, FailActivation, Recover, FinishRestart
    <2> QED
      BY <2>1, ChangedQueues DEF Recorded
  <1> QED
    BY <1>1, <1>2, <1>3, <1>4, <1>5

\* A saved network is forgotten only by a client that deletes it.
LEMMA SavedStays ==
    ASSUME Next, NEW s \in saved
    PROVE  s \in saved' \/ Delete(s)
  <1>1. CASE ClientCalls
    <2>1. ASSUME NEW d \in Ssid, Delete(d) PROVE s \in saved' \/ Delete(s)
      <3>1. CASE d = s
        BY <2>1, <3>1
      <3>2. CASE d # s
        BY <2>1, <3>2 DEF Delete
      <3> QED
        BY <3>1, <3>2
    <2> QED
      BY <1>1, <2>1 DEF ClientCalls, ActivateConnection, AddAndActivateConnection, SavedSsids, Disconnect,
                        RequestScan, ReadProperties, SetWireless
  <1>2. CASE Dispatch
    BY <1>2 DEF Dispatch, Finish, FailActivation, Recover, FinishRestart, Idle, Sync, SavedSsids
  <1>3. CASE Controls
    <2>1. PICK w : Sync(w)
      BY <1>3 DEF Controls, Apply, Set, Replace, ScanEvent, RestartEvent, Control
    <2> QED
      BY <2>1 DEF Sync, SavedSsids
  <1>4. CASE PipewireDies
    BY <1>4 DEF PipewireDies, device
  <1> QED
    BY <1>1, <1>2, <1>3, <1>4 DEF Next

\* A network that the bus shows as connected, while no sync is due, is saved.
LEMMA SeenIsSaved ==
    ASSUME NothingUnpublished, Recorded, TypeOK, queued = 0, NEW s \in Ssid, published.ssid = s
    PROVE  s \in saved
  <1>1. s # None
    BY SimulatorAssumption
  <1>2. published = View(world, override, SavedSsids(world))
    BY DEF NothingUnpublished, TypeOK
  <1>3. world.available
    BY <1>1, <1>2 DEF View, Off
  <1>4. published.ssid \in {world.connected, None}
    BY <1>2, <1>3 DEF View
  <1> QED
    BY <1>1, <1>3, <1>4 DEF Recorded

\* No restart of the service, no scenario and no timer makes the simulated
\* NetworkManager forget a network that clients saw connected.
THEOREM SeenIsNotForgotten == Spec => SeenStaysSaved
  <1> DEFINE Inv == TypeOK /\ PendingIsQueued /\ NothingUnpublished /\ Recorded
  <1>1. Init => Inv
    BY InitTypeOK, InitDue DEF Init, Recorded
  <1>2. Inv /\ [Next]_vars => Inv'
    <2> SUFFICES ASSUME Inv, [Next]_vars PROVE Inv'
      OBVIOUS
    <2>1. TypeOK'
      BY StepTypeOK
    <2>2. CASE UNCHANGED vars
      BY <2>1, <2>2 DEF vars, device, loop, PendingIsQueued, NothingUnpublished, View, WifiState, VisibleAps,
                        SavedSsids, Recorded
    <2> QED
      BY <2>1, <2>2, ClientCallsDue, DispatchDue, ControlsDue, DiesDue, StepRecorded DEF Next
  <1>3. Inv /\ [Next]_vars =>
          [\A s \in Ssid : s \in saved \/ (s = published.ssid /\ queued = 0)
                          => s \in saved' \/ Delete(s)]_vars
    BY SavedStays, SeenIsSaved
  <1> QED
    BY <1>1, <1>2, <1>3, PTL DEF Spec, SeenStaysSaved
=============================================================================
