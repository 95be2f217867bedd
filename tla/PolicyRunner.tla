---------------------------- MODULE PolicyRunner ----------------------------
(***************************************************************************)
(* The policy runner of the coordinators (protocol/coordinator/runner.go   *)
(* and policy/engine.go), for the two rules of the catalog that make       *)
(* do-not-disturb follow the focused fullscreen window.                    *)
(*                                                                         *)
(* There is one runner per graphical session.  They share the activation   *)
(* file, the audit ledger and the owner of the state, which serves each    *)
(* request in a process of its own and answers by revision; the user       *)
(* changes all of it from outside.  What the owner does inside one request *)
(* is DndOwner; here it takes effect in one step.                          *)
(***************************************************************************)
EXTENDS Naturals

CONSTANTS
    None,
    Session,
    Hysteresis, Cooldown, TTL,   \* of the rules, in ticks
    Override,                    \* how long a manual choice pauses automation
    Pauses,                      \* lengths of an explicit pause
    Ages,                        \* how old an observation may arrive
    Faults,                      \* what may fail
    MaxFaults, MaxClock,         \* bounds on failures and on time
    MaxEvents,                   \* bound on the events a runner accepts
    MaxAsks                      \* bound on what the user does

ASSUME PolicyAssumption ==
    /\ None \notin Session \cup {"applied", "rejected", "APPLIED", "BLOCKED", "UNKNOWN"}
    /\ {Hysteresis, Cooldown, TTL, Override, MaxFaults, MaxClock, MaxEvents, MaxAsks} \subseteq Nat
    /\ Pauses \cup Ages \subseteq Nat
    /\ Faults \subseteq {"config", "owner", "audit", "reply", "crash"}
    /\ MaxClock > 0

VARIABLES
    config,    \* activation.json: the session with the consent, the pause
    dnd,       \* the state the owner stores
    audit,     \* policy-decisions-v1.jsonl
    child,     \* the processes that execute a mutation
    runner,    \* the event a runner is handling
    engine,    \* stableSince and lastSelection
    handled,   \* events accepted so far: they number the keys
    clock, faults, asks,
    acted,     \* keys whose change the owner made
    late,      \* changes of a session since it lost its authority
    disturbed  \* when a session last observed something else than a rule asks

shared == <<config, dnd, audit, child>>
bounds == <<clock, faults, asks>>
history == <<acted, late, disturbed>>
vars == <<shared, runner, engine, handled, bounds, history>>

\* fullscreen-dnd-on and fullscreen-dnd-off, by what they match and set.
Rule == {"on", "off"}

\* Zero stands for "never", as in the maps of the engine.
Time == 0 .. MaxClock

\* What a producer read from the compositor, and when.
Observation == [seen : Rule \cup {"unavailable"}, at : Time]

\* sha256 over session, epoch, sequence, rule and arguments.
Key == Session \X (1 .. MaxEvents)

Dnd == [on : Rule, revision : Nat, until : Nat]

Mutating == {"recheck", "intent", "execute", "wait", "readback", "record"}
Location == {"config", "owner", "evaluate"} \cup Mutating

\* The locals of Handle().
Task ==
    [at : Location, event : Observation, now : Time, pause : Nat, before : Dnd \cup {None},
     outcome : {None, "APPLIED", "BLOCKED", "UNKNOWN"}]

ASSUME TaskAssumption == None \notin Task

\* A request and the reply its process has ready.
Child == [key : Key, want : Rule, expected : Nat, reply : {None, "applied", "rejected"}]

Entry == [key : Key, outcome : {"INTENT", "APPLIED", "BLOCKED", "UNKNOWN"}]

TypeOK ==
    /\ config \in [owner : Session \cup {None}, pause : Nat]
    /\ dnd \in Dnd
    /\ audit \subseteq Entry
    /\ child \subseteq Child
    /\ runner \in [Session -> Task \cup {None}]
    /\ \A s \in Session : runner[s] # None =>
          /\ runner[s].at \in Mutating => runner[s].before # None
          /\ runner[s].at = "record" <=> runner[s].outcome # None
    /\ engine \in [Session -> [stable : [Rule -> Time], last : [Rule -> Time]]]
    /\ handled \in [Session -> 0 .. MaxEvents]
    /\ clock \in Time /\ faults \in 0 .. MaxFaults /\ asks \in 0 .. MaxAsks
    /\ acted \subseteq Key
    /\ late \in [Session -> Nat]
    /\ disturbed \in [Session -> [Rule -> Time]]

NewEngine == [stable |-> [r \in Rule |-> 0], last |-> [r \in Rule |-> 0]]

Init ==
    /\ config = [owner |-> None, pause |-> 0]
    /\ dnd = [on |-> "off", revision |-> 0, until |-> 0]
    /\ audit = {}
    /\ child = {}
    /\ runner = [s \in Session |-> None]
    /\ engine = [s \in Session |-> NewEngine]
    /\ handled = [s \in Session |-> 0]
    /\ clock = 1
    /\ faults = 0
    /\ asks = 0
    /\ acted = {}
    /\ late = [s \in Session |-> 0]
    /\ disturbed = [s \in Session |-> [r \in Rule |-> 1]]

-----------------------------------------------------------------------------
At(s, location) == runner[s] # None /\ runner[s].at = location

Goto(s, location) == runner' = [runner EXCEPT ![s].at = location]

\* Handle() returns.
Return(s) == runner' = [runner EXCEPT ![s] = None]

Fail(kind) == kind \in Faults /\ faults < MaxFaults /\ faults' = faults + 1

TaskKey(s) == <<s, handled[s]>>

\* What config.Read() has to answer for a mutation to go ahead.
Authorised(s) == config.owner = s /\ config.pause <= clock

\* The rules' TTL is the age at which Handle() refuses an event, too.
Stale(event) == event.at + TTL < clock

-----------------------------------------------------------------------------
\* Handle(): STATE_STALE, the cursor, InvalidateStability and an observer that
\* has nothing to say.  renewed is a change of the stream's epoch.
Handle(s, event, renewed) ==
    /\ runner[s] = None
    /\ ~Stale(event)
    /\ handled[s] < MaxEvents
    /\ handled' = [handled EXCEPT ![s] = @ + 1]
    /\ engine' = IF renewed \/ event.seen = "unavailable"
                 THEN [engine EXCEPT ![s].stable = NewEngine.stable] ELSE engine
    /\ disturbed' = [disturbed EXCEPT ![s] =
                        [r \in Rule |-> IF renewed \/ event.seen # r THEN clock ELSE @[r]]]
    /\ IF event.seen = "unavailable" THEN UNCHANGED runner
       ELSE runner' = [runner EXCEPT ![s] =
               [at |-> "config", event |-> event, now |-> clock, pause |-> 0, before |-> None,
                outcome |-> None]]
    /\ UNCHANGED <<shared, bounds, acted, late>>

\* config.Read(): the owner of another session's domain is not even asked.
ReadConfig(s) ==
    /\ At(s, "config")
    /\ runner' = [runner EXCEPT ![s].at = IF config.owner = s THEN "owner" ELSE "evaluate",
                                ![s].pause = config.pause]
    /\ UNCHANGED <<shared, engine, handled, bounds, history>>

ReadConfigFails(s) ==
    /\ At(s, "config")
    /\ Fail("config")
    /\ Return(s)
    /\ UNCHANGED <<shared, engine, handled, clock, asks, history>>

\* read(): the owner's status.
ReadOwner(s) ==
    /\ At(s, "owner")
    /\ runner' = [runner EXCEPT ![s].at = "evaluate", ![s].before = dnd]
    /\ UNCHANGED <<shared, engine, handled, bounds, history>>

\* The owner does not answer: the domain counts as one without an owner.
ReadOwnerFails(s) ==
    /\ At(s, "owner")
    /\ Fail("owner")
    /\ Goto(s, "evaluate")
    /\ UNCHANGED <<shared, engine, handled, clock, asks, history>>

\* A lock counts only for a resource whose owner answered.
Locked(task) == task.before # None /\ (task.before.until > task.now \/ task.pause > task.now)

Unstable(since, now) == Hysteresis > 0 /\ (since = 0 \/ now - since < Hysteresis)

Cooling(last, now) == last # 0 /\ now - last < Cooldown

\* evaluate(): the reason of the rule that matches the event.
Reason(s) ==
    LET task == runner[s]  rule == task.event.seen IN
    IF Locked(task) THEN "MANUAL_OVERRIDE"
    ELSE IF Unstable(engine[s].stable[rule], task.now) THEN "STABILIZING"
    ELSE IF Cooling(engine[s].last[rule], task.now) THEN "COOLDOWN"
    ELSE IF task.before = None THEN "NO_VERIFIED_RUST_OWNER"
    ELSE "OWNER_AND_CONSENT_VERIFIED"

\* Mutant of Judged: the rule that does not match keeps its stability.
JudgedKeepsOther(s, reason) ==
    LET task == runner[s]  rule == task.event.seen IN
    [stable |-> [engine[s].stable EXCEPT ![rule] =
                    IF reason = "STABILIZING" /\ @ = 0 THEN task.now ELSE @],
     last |-> IF reason = "OWNER_AND_CONSENT_VERIFIED"
              THEN [engine[s].last EXCEPT ![rule] = task.now] ELSE engine[s].last]

\* evaluate(): the other rule loses its stability, the matching one is judged.
Judged(s, reason) ==
    LET task == runner[s]  rule == task.event.seen IN
    [stable |-> [r \in Rule |->
                    IF r # rule THEN 0
                    ELSE IF reason = "STABILIZING" /\ engine[s].stable[r] = 0 THEN task.now
                    ELSE engine[s].stable[r]],
     last |-> IF reason = "OWNER_AND_CONSENT_VERIFIED"
              THEN [engine[s].last EXCEPT ![rule] = task.now] ELSE engine[s].last]

\* SELECTED goes on unless the state is ALREADY_SATISFIED.
Evaluate(s) ==
    /\ At(s, "evaluate")
    /\ engine' = [engine EXCEPT ![s] = Judged(s, Reason(s))]
    /\ IF Reason(s) = "OWNER_AND_CONSENT_VERIFIED" /\ runner[s].before.on # runner[s].event.seen
       THEN Goto(s, "recheck") ELSE Return(s)
    /\ UNCHANGED <<shared, handled, bounds, history>>

\* The second config.Read(), the pause by the time of now, and the TTL.
Recheck(s) ==
    /\ At(s, "recheck")
    /\ IF Authorised(s) /\ ~Stale(runner[s].event) THEN Goto(s, "intent") ELSE Return(s)
    /\ UNCHANGED <<shared, engine, handled, bounds, history>>

RecheckFails(s) ==
    /\ At(s, "recheck")
    /\ Fail("config")
    /\ Return(s)
    /\ UNCHANGED <<shared, engine, handled, clock, asks, history>>

Intent(s) ==
    /\ At(s, "intent")
    /\ audit' = audit \cup {[key |-> TaskKey(s), outcome |-> "INTENT"]}
    /\ Goto(s, "execute")
    /\ UNCHANGED <<config, dnd, child, engine, handled, bounds, history>>

\* AUDIT_UNAVAILABLE
IntentFails(s) ==
    /\ At(s, "intent")
    /\ Fail("audit")
    /\ Return(s)
    /\ UNCHANGED <<shared, engine, handled, clock, asks, history>>

\* owner.Execute() starts a process with the revision that was read.
Execute(s) ==
    /\ At(s, "execute")
    /\ child' = child \cup {[key |-> TaskKey(s), want |-> runner[s].event.seen,
                             expected |-> runner[s].before.revision, reply |-> None]}
    /\ Goto(s, "wait")
    /\ UNCHANGED <<config, dnd, audit, engine, handled, bounds, history>>

\* Mutant of Accepts: the owner looks at the pause alone.
AcceptsAnyRevision(c) == c.expected \in Nat /\ dnd.until <= clock

\* apply_locked(): the compare-and-swap of the owner.
Accepts(c) == dnd.revision = c.expected /\ dnd.until <= clock

Act(c) ==
    /\ c.reply = None
    /\ Accepts(c)
    /\ dnd' = [dnd EXCEPT !.on = c.want, !.revision = @ + 1]
    /\ child' = (child \ {c}) \cup {[c EXCEPT !.reply = "applied"]}
    /\ acted' = acted \cup {c.key}
    /\ late' = IF Authorised(c.key[1]) THEN late ELSE [late EXCEPT ![c.key[1]] = @ + 1]
    /\ UNCHANGED <<config, audit, runner, engine, handled, bounds, disturbed>>

Reject(c) ==
    /\ c.reply = None
    /\ ~Accepts(c)
    /\ child' = (child \ {c}) \cup {[c EXCEPT !.reply = "rejected"]}
    /\ UNCHANGED <<config, dnd, audit, runner, engine, handled, bounds, history>>

\* Mutant of Reply: the read-back alone decides.
ReplyReadBack(s, c) ==
    /\ At(s, "wait")
    /\ c.key = TaskKey(s)
    /\ c.reply # None
    /\ child' = child \ {c}
    /\ Goto(s, "readback")
    /\ UNCHANGED <<config, dnd, audit, engine, handled, bounds, history>>

\* An error the owner reports is BLOCKED, an applied one is read back.
Reply(s, c) ==
    /\ At(s, "wait")
    /\ c.key = TaskKey(s)
    /\ c.reply # None
    /\ child' = child \ {c}
    /\ runner' = IF c.reply = "applied" THEN [runner EXCEPT ![s].at = "readback"]
                 ELSE [runner EXCEPT ![s].at = "record", ![s].outcome = "BLOCKED"]
    /\ UNCHANGED <<config, dnd, audit, engine, handled, bounds, history>>

\* The deadline kills the process, before or after it acted.
ReplyLost(s, c) ==
    /\ At(s, "wait")
    /\ c.key = TaskKey(s)
    /\ Fail("reply")
    /\ child' = child \ {c}
    /\ runner' = [runner EXCEPT ![s].at = "record", ![s].outcome = "UNKNOWN"]
    /\ UNCHANGED <<config, dnd, audit, engine, handled, clock, asks, history>>

Readback(s) ==
    /\ At(s, "readback")
    /\ LET proved == dnd.revision > runner[s].before.revision /\ dnd.on = runner[s].event.seen
       IN runner' = [runner EXCEPT ![s].at = "record", ![s].outcome = IF proved THEN "APPLIED" ELSE "UNKNOWN"]
    /\ UNCHANGED <<shared, engine, handled, bounds, history>>

ReadbackFails(s) ==
    /\ At(s, "readback")
    /\ Fail("owner")
    /\ runner' = [runner EXCEPT ![s].at = "record", ![s].outcome = "UNKNOWN"]
    /\ UNCHANGED <<shared, engine, handled, clock, asks, history>>

Record(s) ==
    /\ At(s, "record")
    /\ audit' = audit \cup {[key |-> TaskKey(s), outcome |-> runner[s].outcome]}
    /\ Return(s)
    /\ UNCHANGED <<config, dnd, child, engine, handled, bounds, history>>

RecordFails(s) ==
    /\ At(s, "record")
    /\ Fail("audit")
    /\ Return(s)
    /\ UNCHANGED <<shared, engine, handled, clock, asks, history>>

\* The coordinator dies and starts again.  What it had started runs on, in a
\* process group of its own.
Crash(s) ==
    /\ Fail("crash")
    /\ Return(s)
    /\ engine' = [engine EXCEPT ![s] = NewEngine]
    /\ disturbed' = [disturbed EXCEPT ![s] = [r \in Rule |-> clock]]
    /\ UNCHANGED <<shared, handled, clock, asks, acted, late>>

\* A process nobody waits for has answered.
OrphanExits(c) ==
    /\ c.reply # None
    /\ ~\E s \in Session : At(s, "wait") /\ c.key = TaskKey(s)
    /\ child' = child \ {c}
    /\ UNCHANGED <<config, dnd, audit, runner, engine, handled, bounds, history>>

-----------------------------------------------------------------------------
\* A session that has its authority again starts a new count.
Recount == late' = [s \in Session |-> IF Authorised(s)' THEN 0 ELSE late[s]]

Ask ==
    /\ asks < MaxAsks
    /\ asks' = asks + 1
    /\ UNCHANGED <<audit, child, runner, engine, handled, clock, faults, acted, disturbed>>

\* Set(domain, session, true)
Grant(s) ==
    /\ Ask
    /\ config.owner \in {None, s}
    /\ config' = [config EXCEPT !.owner = s]
    /\ Recount
    /\ UNCHANGED dnd

\* Set(domain, session, false) and Revoke(domain, session)
Withdraw(s) ==
    /\ Ask
    /\ config.owner = s
    /\ config' = [config EXCEPT !.owner = None]
    /\ Recount
    /\ UNCHANGED dnd

\* Override(domain, until): a length of zero ends the pause.
Pause(length) ==
    /\ Ask
    /\ config' = [config EXCEPT !.pause = IF length = 0 THEN 0 ELSE clock + length]
    /\ Recount
    /\ UNCHANGED dnd

\* A manual change, or an edit the owner notices.
Choose(rule) ==
    /\ Ask
    /\ dnd' = [on |-> rule, revision |-> dnd.revision + 1, until |-> clock + Override]
    /\ UNCHANGED <<config, late>>

Tick ==
    /\ clock < MaxClock
    /\ clock' = clock + 1
    /\ UNCHANGED <<shared, runner, engine, handled, faults, asks, acted, disturbed>>
    /\ Recount

-----------------------------------------------------------------------------
\* What a runner does by itself once it has an event.
Decide(s) == ReadConfig(s) \/ ReadConfigFails(s) \/ ReadOwner(s) \/ ReadOwnerFails(s) \/ Evaluate(s)

Mutate(s) ==
    \/ Recheck(s) \/ RecheckFails(s) \/ Intent(s) \/ IntentFails(s) \/ Execute(s)
    \/ \E c \in child : Reply(s, c) \/ ReplyLost(s, c)
    \/ Readback(s) \/ ReadbackFails(s) \/ Record(s) \/ RecordFails(s)

Owner == \E c \in child : Act(c) \/ Reject(c) \/ OrphanExits(c)

User ==
    \/ \E s \in Session : Grant(s) \/ Withdraw(s)
    \/ \E length \in Pauses : Pause(length)
    \/ \E rule \in Rule : Choose(rule)

\* Any observation may arrive, late or from a new connection.
Observe(s) == \E event \in Observation, renewed \in BOOLEAN :
    clock - event.at \in Ages /\ event.at > 0 /\ Handle(s, event, renewed)

Next ==
    \/ \E s \in Session : Observe(s) \/ Decide(s) \/ Mutate(s) \/ Crash(s)
    \/ Owner \/ User \/ Tick

Spec == Init /\ [][Next]_vars

-----------------------------------------------------------------------------
\* Every change automation made has its durable INTENT, whatever failed or
\* died since: the record is written before the owner is asked.
IntentFirst == \A key \in acted : [key |-> key, outcome |-> "INTENT"] \in audit

\* APPLIED is in the ledger only for a change that this request made, not for
\* one of the user's that happens to leave the same state.
AppliedIsReal == \A key \in Key : [key |-> key, outcome |-> "APPLIED"] \in audit => key \in acted

\* The ledger tells what happened: no change without its INTENT, no APPLIED
\* without its change, and a decision that reaches its record has an outcome.
LedgerHolds == TypeOK /\ IntentFirst /\ AppliedIsReal

\* After consent is withdrawn or automation paused, a session makes at most the
\* one change it had in flight, also when its coordinator died in between and
\* left a process behind, or the consent went to another session.
OneInFlight == \A s \in Session : late[s] <= 1

\* A rule is acted on only after nothing else was observed for its hysteresis:
\* not the opposite, not a lost or a new connection.
Undisturbed ==
    \A s \in Session : At(s, "recheck") =>
        runner[s].now - disturbed[s][runner[s].event.seen] >= Hysteresis
=============================================================================
