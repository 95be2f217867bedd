---------------------------- MODULE Coordinator -----------------------------
(***************************************************************************)
(* The coordinator of one session (protocol/daemon/daemon.go): the         *)
(* goroutines that observe the compositor and the consent, the queue they  *)
(* send to, the loop that hands each event to the runner, and the timer    *)
(* that looks again while a rule is stabilising.                           *)
(*                                                                         *)
(* Lines of the event socket say only that something changed: every event  *)
(* carries a fresh read of the compositor.  Several unread lines are one   *)
(* here.                                                                   *)
(***************************************************************************)
EXTENDS PolicyRunner, Sequences

CONSTANTS
    Me,                      \* the session
    QueueSize,               \* capacity of the channel of events
    MaxFlips,                \* bound on changes of the window
    MaxDrops,                \* bound on lost sockets and answers, and on the crashes before them
    LastInput,               \* no input from outside after this time
    Prompt                   \* whether all work takes less than a tick

ASSUME CoordinatorAssumption ==
    /\ Me \in Session
    /\ {QueueSize, MaxFlips, MaxDrops, LastInput} \subseteq Nat
    /\ QueueSize > 0
    /\ Prompt \in BOOLEAN

VARIABLES
    world,      \* whether the focused window is fullscreen
    socket,     \* the observer's connection and the lines it has not handed on
    stream,     \* hyprStreamAvailable
    change,     \* the signal of the watch on activation.json
    sender,     \* what each goroutine is about to read, or to send
    queue,      \* the channel of events
    current,    \* producer and epoch of the event at the runner
    source,     \* sourceEpochs: the last epoch of each producer
    renewed,    \* producers whose new epoch the runner has not seen yet
    timer,      \* timers[domain]
    flips, drops

observer == <<socket, stream, change>>
loop == <<current, source, renewed, timer>>
inputs == <<world, flips, drops>>
allVars == <<vars, observer, sender, queue, loop, inputs>>

Producer == {"hyprland", "consent"}
Goroutine == Producer \cup {"timer"}
Epoch == 0 .. MaxDrops + 1

\* What the observer of the socket reports.
Line == {"resync", "event", "unavailable"}

\* seen is None until the goroutine has read.
Event ==
    [producer : Producer, epoch : Epoch, resync : BOOLEAN, seen : Rule \cup {None, "unavailable"}, at : Time]

CoordinatorTypeOK ==
    /\ TypeOK
    /\ world \in Rule
    /\ socket \in [up : BOOLEAN, told : BOOLEAN, epoch : Epoch, lines : Seq(Line)]
    /\ Len(socket.lines) <= 3
    /\ stream \in BOOLEAN
    /\ change \in BOOLEAN
    /\ sender \in [Goroutine -> Event \cup {None}]
    /\ queue \in Seq(Event)
    /\ Len(queue) <= QueueSize
    /\ current \in [producer : Producer, epoch : Epoch] \cup {None}
    /\ source \in [Producer -> Epoch \cup {None}]
    /\ renewed \subseteq Producer
    /\ timer \in [due : Nat, producer : Producer, epoch : Epoch] \cup {None}
    /\ flips \in 0 .. MaxFlips
    /\ drops \in 0 .. MaxDrops

\* A new process; the watch signals once when it is armed.
CoordinatorInit ==
    /\ Init
    /\ world = "off"
    /\ socket = [up |-> FALSE, told |-> FALSE, epoch |-> 0, lines |-> <<>>]
    /\ stream = FALSE
    /\ change = TRUE
    /\ sender = [g \in Goroutine |-> None]
    /\ queue = <<>>
    /\ current = None
    /\ source = [p \in Producer |-> None]
    /\ renewed = {}
    /\ timer = None
    /\ flips = 0
    /\ drops = 0

-----------------------------------------------------------------------------
\* Goroutines that read and send at once are done.
Settled == socket.lines = <<>> /\ ~change /\ \A g \in Goroutine : sender[g] = None

\* The observer dials until it is connected, and reports a failure once.  After
\* one it waits a quarter of a second or more.
Connect ==
    /\ ~socket.up
    /\ socket.lines = <<>>
    /\ socket.told => Settled
    /\ clock <= LastInput
    /\ socket' = [up |-> TRUE, told |-> FALSE, epoch |-> socket.epoch + 1, lines |-> <<"resync">>]
    /\ UNCHANGED <<vars, stream, change, sender, queue, loop, inputs>>

DialFails ==
    /\ ~socket.up
    /\ ~socket.told
    /\ socket.lines = <<>>
    /\ socket' = [socket EXCEPT !.told = TRUE, !.lines = <<"unavailable">>]
    /\ UNCHANGED <<vars, stream, change, sender, queue, loop, inputs>>

\* The compositor closes the socket.
Drop ==
    /\ socket.up
    /\ drops + faults < MaxDrops
    /\ clock <= LastInput
    /\ drops' = drops + 1
    /\ socket' = [socket EXCEPT !.up = FALSE, !.told = TRUE, !.lines = Append(@, "unavailable")]
    /\ UNCHANGED <<vars, stream, change, sender, queue, loop, world, flips>>

\* A window enters or leaves fullscreen; who is not connected misses it.
Flip ==
    /\ flips < MaxFlips
    /\ clock <= LastInput
    /\ flips' = flips + 1
    /\ world' \in Rule \ {world}
    /\ socket' = IF socket.up /\ socket.lines \in {<<>>, <<"resync">>}
                 THEN [socket EXCEPT !.lines = Append(@, "event")] ELSE socket
    /\ UNCHANGED <<vars, stream, change, sender, queue, loop, drops>>

\* The session gives or withdraws its consent; the watch sees the new file.
Consent ==
    /\ clock <= LastInput
    /\ Grant(Me) \/ Withdraw(Me)
    /\ change' = TRUE
    /\ UNCHANGED <<socket, stream, sender, queue, loop, inputs>>

-----------------------------------------------------------------------------
Start(g, event) ==
    /\ sender[g] = None
    /\ sender' = [sender EXCEPT ![g] = event]

Unread(producer, epoch, resync) ==
    [producer |-> producer, epoch |-> epoch, resync |-> resync, seen |-> None, at |-> clock]

\* The goroutine of the event socket takes a line.
TakeLine ==
    /\ socket.lines # <<>>
    /\ LET line == Head(socket.lines) IN
       /\ stream' = (line = "resync" \/ (stream /\ line # "unavailable"))
       /\ Start("hyprland", Unread("hyprland", socket.epoch, line = "resync"))
    /\ socket' = [socket EXCEPT !.lines = Tail(@)]
    /\ UNCHANGED <<vars, change, queue, loop, inputs>>

\* The goroutine of the consent takes the signal.
TakeChange ==
    /\ change
    /\ change' = FALSE
    /\ Start("consent", Unread("consent", 0, FALSE))
    /\ UNCHANGED <<vars, socket, stream, queue, loop, inputs>>

\* time.AfterFunc: the goroutine of the timer, one at a time.
Fire ==
    /\ timer # None
    /\ clock >= timer.due
    /\ Start("timer", Unread(timer.producer, timer.epoch, FALSE))
    /\ timer' = None
    /\ UNCHANGED <<vars, observer, queue, current, source, renewed, inputs>>

\* readHypr(), and the time of the event.  Without an answer the consent has
\* nothing to send, the others send that the compositor is unavailable.
Answer(g, seen) ==
    /\ sender[g] # None
    /\ sender[g].seen = None
    /\ sender' = [sender EXCEPT ![g] =
                     IF g = "consent" /\ seen = "unavailable" THEN None
                     ELSE [@ EXCEPT !.seen = seen, !.at = clock]]

Read(g) ==
    /\ Answer(g, IF stream THEN world ELSE "unavailable")
    /\ UNCHANGED <<vars, observer, queue, loop, inputs>>

ReadFails(g) ==
    /\ drops + faults < MaxDrops
    /\ drops' = drops + 1
    /\ Answer(g, "unavailable")
    /\ UNCHANGED <<vars, observer, queue, loop, world, flips>>

\* send(): blocks while the channel is full.
Send(g) ==
    /\ sender[g] # None
    /\ sender[g].seen # None
    /\ Len(queue) < QueueSize
    /\ queue' = Append(queue, sender[g])
    /\ sender' = [sender EXCEPT ![g] = None]
    /\ UNCHANGED <<vars, observer, loop, inputs>>

-----------------------------------------------------------------------------
\* The loop takes an event while Handle() is not running: it renews the epoch
\* of the producer, stops the timer and calls Handle().  An event queued before
\* the stream was lost counts as unavailable.
Renews(event) == source[event.producer] # event.epoch \/ event.resync

Observed(event) == [seen |-> IF stream THEN event.seen ELSE "unavailable", at |-> event.at]

Take(stop) ==
    /\ queue # <<>>
    /\ runner[Me] = None
    /\ LET event == Head(queue)  producer == event.producer
           pending == IF Renews(event) THEN renewed \cup {producer} ELSE renewed
       IN /\ source' = [source EXCEPT ![producer] = event.epoch]
          /\ current' = [producer |-> producer, epoch |-> event.epoch]
          /\ \/ /\ Stale(event)
                /\ renewed' = pending
                /\ UNCHANGED vars
             \/ /\ Handle(Me, Observed(event), producer \in pending)
                /\ renewed' = pending \ {producer}
    /\ queue' = Tail(queue)
    /\ timer' = IF stop THEN None ELSE timer
    /\ UNCHANGED <<observer, sender, inputs>>

\* Mutant of Receive: the timer runs on.
ReceiveKeepsTimer == Take(FALSE)

Receive == Take(TRUE)

\* Mutant of Judge: nothing looks again.
JudgeWithoutTimer ==
    /\ Evaluate(Me)
    /\ UNCHANGED <<observer, sender, queue, loop, inputs>>

\* The loop arms the timer for a decision that was STABILIZING.
Judge ==
    /\ Evaluate(Me)
    /\ timer' = IF Reason(Me) = "STABILIZING"
                THEN [due |-> clock + Hysteresis, producer |-> current.producer, epoch |-> current.epoch]
                ELSE timer
    /\ UNCHANGED <<observer, sender, queue, current, source, renewed, inputs>>

Consult ==
    /\ ReadConfig(Me) \/ ReadConfigFails(Me) \/ ReadOwner(Me) \/ ReadOwnerFails(Me)
    /\ UNCHANGED <<observer, sender, queue, loop, inputs>>

Carry ==
    /\ Mutate(Me) \/ Owner
    /\ UNCHANGED <<observer, sender, queue, loop, inputs>>

Restart ==
    /\ clock <= LastInput
    /\ Crash(Me)
    /\ socket' = [up |-> FALSE, told |-> FALSE, epoch |-> 0, lines |-> <<>>]
    /\ stream' = FALSE
    /\ change' = TRUE
    /\ sender' = [g \in Goroutine |-> None]
    /\ queue' = <<>>
    /\ current' = None
    /\ source' = [p \in Producer |-> None]
    /\ renewed' = {}
    /\ timer' = None
    /\ UNCHANGED inputs

\* Nothing is left to do; after the last input that takes a connection.
Idle ==
    /\ Settled
    /\ runner[Me] = None
    /\ queue = <<>>
    /\ \A c \in child : c.reply # None
    /\ timer # None => clock < timer.due
    /\ socket.up \/ clock < LastInput

Pass == (Prompt => Idle) /\ Tick /\ UNCHANGED <<observer, sender, queue, loop, inputs>>

Work ==
    \/ Connect \/ TakeLine \/ TakeChange \/ Fire
    \/ \E g \in Goroutine : Read(g) \/ ReadFails(g) \/ Send(g)
    \/ Receive \/ Consult \/ Judge \/ Carry \/ Pass

CoordinatorNext == Work \/ DialFails \/ Drop \/ Flip \/ Consent \/ Restart

CoordinatorSpec == CoordinatorInit /\ [][CoordinatorNext]_allVars /\ WF_allVars(Work)

-----------------------------------------------------------------------------
\* A timer runs only while a rule is stabilising: whatever ends the stability,
\* of either producer and from an earlier connection too, ends the timer.
TimerMeansStabilizing == timer # None => \E r \in Rule : engine[Me].stable[r] # 0

\* No channel takes more than it holds, and a timer runs for a stability only.
CoordinatorInv == CoordinatorTypeOK /\ TimerMeansStabilizing

\* The process the crash of a coordinator left behind included: once windows
\* and consent no longer change, an authorised coordinator that lost neither
\* its connection nor an answer of the compositor leaves do-not-disturb as the
\* focused window asks for.
DndFollowsFullscreen == <>[](Authorised(Me) /\ stream /\ drops = 0 => dnd.on = world)
=============================================================================
