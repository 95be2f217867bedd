----------------------------- MODULE PolicyProofs -----------------------------
(***************************************************************************)
(* What the policy runners guarantee for any number of sessions, events,   *)
(* failures and acts of the user, and for any times of the rules; and that *)
(* the coordinator, the daemon that feeds one of them, is such a runner.   *)
(***************************************************************************)
EXTENDS Coordinator, TLAPS

Recorded(key, outcome) == [key |-> key, outcome |-> outcome] \in audit

\* Of the event a runner handles: what it observed, what it has written, what its request has
\* changed, and how old the revision is that it read.
TaskInv(t, key) ==
    /\ t.event.seen \in Rule
    /\ t.at = "execute" => Recorded(key, "INTENT")
    /\ t.at = "readback" \/ t.outcome = "APPLIED" => key \in acted
    /\ t.before # None => t.before.revision <= dnd.revision
    /\ late[key[1]] # 0 /\ t.at \in {"intent", "execute"} => t.before.revision < dnd.revision

\* An event that is handled has a number.
RunnerInv(s) == runner[s] # None => handled[s] > 0 /\ TaskInv(runner[s], TaskKey(s))

\* Of a process of the owner, with or without a runner that waits for it: once
\* its session has made a change without authority, its revision is out of date.
ChildInv(c) ==
    /\ Recorded(c.key, "INTENT")
    /\ c.reply = "applied" => c.key \in acted
    /\ c.expected <= dnd.revision
    /\ late[c.key[1]] # 0 => c.expected < dnd.revision

\* A session with authority has none of its changes counted, one without it
\* one at most.
LateInv(s) == late[s] <= 1 /\ (Authorised(s) => late[s] = 0)

IInv ==
    /\ TypeOK
    /\ \A s \in Session : RunnerInv(s) /\ LateInv(s)
    /\ \A c \in child : ChildInv(c)
    /\ IntentFirst
    /\ AppliedIsReal

-----------------------------------------------------------------------------
LEMMA InitIInv == Init => IInv
<1> SUFFICES ASSUME Init PROVE IInv
  OBVIOUS
<1> USE PolicyAssumption
<1>1. TypeOK
  <2>1. config \in [owner : Session \cup {None}, pause : Nat] /\ dnd \in Dnd
    BY DEF Init, Dnd, Rule
  <2>2. engine \in [Session -> [stable : [Rule -> Time], last : [Rule -> Time]]]
    BY DEF Init, NewEngine, Time
  <2>3. handled \in [Session -> 0 .. MaxEvents] /\ late \in [Session -> Nat]
    BY DEF Init
  <2>4. clock \in Time /\ faults \in 0 .. MaxFaults /\ asks \in 0 .. MaxAsks
    BY DEF Init, Time
  <2>5. disturbed \in [Session -> [Rule -> Time]]
    BY DEF Init, Time
  <2> QED
    BY <2>1, <2>2, <2>3, <2>4, <2>5 DEF Init, TypeOK
<1>2. \A s \in Session : RunnerInv(s) /\ LateInv(s)
  BY DEF Init, RunnerInv, LateInv
<1> QED
  BY <1>1, <1>2 DEF Init, IInv, IntentFirst, AppliedIsReal

-----------------------------------------------------------------------------
\* What a step of one runner leaves alone.
LEMMA OthersKeep ==
    ASSUME IInv, NEW s \in Session, NEW t, runner' = [runner EXCEPT ![s] = t],
           audit \subseteq audit', \A q \in Session \ {s} : handled'[q] = handled[q],
           UNCHANGED <<config, dnd, clock, acted, late>>
    PROVE  /\ \A q \in Session \ {s} : RunnerInv(q)'
           /\ \A q \in Session : LateInv(q)'
           /\ \A c \in child : ChildInv(c)'
           /\ IntentFirst'
  <1>1. ASSUME NEW q \in Session \ {s} PROVE RunnerInv(q)'
    <2>1. runner'[q] = runner[q] /\ TaskKey(q)' = TaskKey(q) /\ handled'[q] = handled[q]
      BY DEF IInv, TypeOK, TaskKey
    <2> QED
      BY <2>1 DEF IInv, RunnerInv, TaskInv, Recorded
  <1>2. \A q \in Session : LateInv(q)'
    BY DEF IInv, LateInv, Authorised
  <1>3. \A c \in child : ChildInv(c)'
    BY DEF IInv, ChildInv, Recorded
  <1>4. IntentFirst'
    BY DEF IInv, IntentFirst
  <1> QED
    BY <1>1, <1>2, <1>3, <1>4

\* A runner moves on, or returns, and touches nothing else.
LEMMA LocalStep ==
    ASSUME IInv, NEW s \in Session, NEW t \in Task \cup {None}, NEW n, handled'[s] = n,
           runner' = [runner EXCEPT ![s] = t],
           t # None => /\ n > 0 /\ TaskInv(t, <<s, n>>)
                       /\ t.at \in Mutating => t.before # None
                       /\ t.at = "record" <=> t.outcome # None,
           \A q \in Session \ {s} : handled'[q] = handled[q],
           handled' \in [Session -> 0 .. MaxEvents],
           engine' \in [Session -> [stable : [Rule -> Time], last : [Rule -> Time]]],
           disturbed' \in [Session -> [Rule -> Time]],
           faults' \in 0 .. MaxFaults,
           UNCHANGED <<shared, clock, asks, acted, late>>
    PROVE  IInv'
  <1> USE DEF shared
  <1>1. /\ \A q \in Session \ {s} : RunnerInv(q)'
        /\ \A q \in Session : LateInv(q)'
        /\ \A c \in child : ChildInv(c)'
        /\ IntentFirst'
    BY OthersKeep
  <1>2. runner'[s] = t
    BY DEF IInv, TypeOK
  <1>3. RunnerInv(s)'
    <2> SUFFICES ASSUME t # None PROVE n > 0 /\ TaskInv(t, <<s, n>>)'
      BY <1>2 DEF RunnerInv, TaskKey
    <2> QED
      BY DEF TaskInv, Recorded
  <1>4. TypeOK'
    <2>1. runner' \in [Session -> Task \cup {None}]
      BY DEF IInv, TypeOK
    <2>2. ASSUME NEW q \in Session, runner'[q] # None
          PROVE  /\ runner'[q].at \in Mutating => runner'[q].before # None
                 /\ runner'[q].at = "record" <=> runner'[q].outcome # None
      <3>1. CASE q = s
        BY <1>2, <2>2, <3>1
      <3>2. CASE q # s
        BY <2>2, <3>2 DEF IInv, TypeOK
      <3> QED
        BY <3>1, <3>2
    <2> QED
      BY <2>1, <2>2 DEF IInv, TypeOK
  <1>5. AppliedIsReal'
    BY DEF IInv, AppliedIsReal
  <1> QED
    BY <1>1, <1>3, <1>4, <1>5 DEF IInv, shared

\* Whoever handles an event is one task of the right type, with its number.
LEMMA TaskOf ==
    ASSUME IInv, NEW s \in Session, runner[s] # None
    PROVE  /\ runner[s] \in Task
           /\ handled[s] \in Nat /\ handled[s] > 0 /\ TaskKey(s) \in Key
           /\ TaskInv(runner[s], TaskKey(s))
           /\ runner[s].at \in Mutating => runner[s].before # None
           /\ runner[s].at = "record" <=> runner[s].outcome # None
  BY PolicyAssumption DEF IInv, TypeOK, RunnerInv, TaskKey, Key

\* Handle() returns, whatever it had done.
LEMMA ReturnStep ==
    ASSUME IInv, NEW s \in Session, Return(s), faults' \in 0 .. MaxFaults, handled' = handled,
           engine' \in [Session -> [stable : [Rule -> Time], last : [Rule -> Time]]],
           disturbed' \in [Session -> [Rule -> Time]],
           UNCHANGED <<shared, clock, asks, acted, late>>
    PROVE  IInv'
  <1>1. runner' = [runner EXCEPT ![s] = None] /\ handled' \in [Session -> 0 .. MaxEvents]
    BY DEF Return, IInv, TypeOK
  <1> QED
    BY <1>1, LocalStep

-----------------------------------------------------------------------------
LEMMA HandleStep ==
    ASSUME IInv, NEW s \in Session, NEW event \in Observation, NEW new \in BOOLEAN,
           Handle(s, event, new)
    PROVE  IInv'
  <1> DEFINE fresh == [at |-> "config", event |-> event, now |-> clock, pause |-> 0,
                       before |-> None, outcome |-> None]
             n == handled[s] + 1
  <1>1. /\ handled' \in [Session -> 0 .. MaxEvents]
        /\ handled'[s] = n /\ n > 0
        /\ \A q \in Session \ {s} : handled'[q] = handled[q]
    BY PolicyAssumption DEF Handle, IInv, TypeOK
  <1>2. engine' \in [Session -> [stable : [Rule -> Time], last : [Rule -> Time]]]
    <2>1. NewEngine.stable \in [Rule -> Time]
      BY PolicyAssumption DEF NewEngine, Time
    <2> QED
      BY <2>1 DEF Handle, IInv, TypeOK
  <1>3. disturbed' \in [Session -> [Rule -> Time]]
    <2>1. [r \in Rule |-> IF new \/ event.seen # r THEN clock ELSE disturbed[s][r]] \in [Rule -> Time]
      BY DEF IInv, TypeOK
    <2> QED
      BY <2>1 DEF Handle, IInv, TypeOK
  <1>4. CASE event.seen = "unavailable"
    <2>1. runner' = [runner EXCEPT ![s] = None]
      BY <1>4 DEF Handle, IInv, TypeOK
    <2> QED
      BY <1>1, <1>2, <1>3, <2>1, LocalStep DEF Handle, bounds, IInv, TypeOK
  <1>5. CASE event.seen # "unavailable"
    <2>1. fresh \in Task /\ fresh.at \notin Mutating /\ fresh.at # "record" /\ fresh.outcome = None
      BY PolicyAssumption DEF IInv, TypeOK, Task, Location, Mutating, Observation
    <2>2. TaskInv(fresh, <<s, n>>)
      BY <1>5, PolicyAssumption DEF TaskInv, Observation
    <2>3. runner' = [runner EXCEPT ![s] = fresh]
      BY <1>5 DEF Handle
    <2> HIDE DEF fresh, n
    <2> QED
      BY <1>1, <1>2, <1>3, <2>1, <2>2, <2>3, LocalStep DEF Handle, bounds, IInv, TypeOK
  <1> QED
    BY <1>4, <1>5

LEMMA DecideStep == ASSUME IInv, NEW s \in Session, Decide(s) PROVE IInv'
  <1> USE DEF bounds, history
  <1>0. /\ handled' = handled /\ handled' \in [Session -> 0 .. MaxEvents] /\ runner[s] # None
        /\ UNCHANGED <<shared, clock, asks, acted, late>>
        /\ disturbed' \in [Session -> [Rule -> Time]] /\ faults' \in 0 .. MaxFaults
    <2>1. /\ UNCHANGED <<handled, shared, clock, asks, acted, late, disturbed>> /\ runner[s] # None
          /\ faults' = faults \/ (faults < MaxFaults /\ faults' = faults + 1)
      BY DEF Decide, ReadConfig, ReadConfigFails, ReadOwner, ReadOwnerFails, Evaluate, Fail, At
    <2>2. faults' \in 0 .. MaxFaults
      BY <2>1, PolicyAssumption DEF IInv, TypeOK
    <2> QED
      BY <2>1, <2>2 DEF IInv, TypeOK
  <1>1. CASE ReadConfig(s)
    <2> DEFINE t == [runner[s] EXCEPT !.at = IF config.owner = s THEN "owner" ELSE "evaluate",
                                      !.pause = config.pause]
    <2>1. t \in Task /\ t.at \notin Mutating /\ t.at # "record" /\ t.outcome = None
      BY <1>0, <1>1, TaskOf DEF ReadConfig, At, IInv, TypeOK, Task, Location, Mutating
    <2>2. TaskInv(t, TaskKey(s))
      BY <1>0, <1>1, <2>1, TaskOf, PolicyAssumption DEF TaskInv, ReadConfig, Mutating, Task
    <2>3. runner' = [runner EXCEPT ![s] = t] /\ engine' = engine
      BY <1>1 DEF ReadConfig
    <2> HIDE DEF t
    <2> QED
      BY <1>0, <2>1, <2>2, <2>3, TaskOf, LocalStep DEF IInv, TypeOK, TaskKey
  <1>2. CASE ReadConfigFails(s)
    BY <1>0, <1>2, ReturnStep DEF ReadConfigFails, IInv, TypeOK
  <1>3. CASE ReadOwner(s)
    <2> DEFINE t == [runner[s] EXCEPT !.at = "evaluate", !.before = dnd]
    <2>1. t \in Task /\ t.at \notin Mutating /\ t.at # "record" /\ t.outcome = None
      BY <1>0, <1>3, TaskOf DEF ReadOwner, At, IInv, TypeOK, Task, Location, Mutating
    <2>2. TaskInv(t, TaskKey(s))
      BY <1>0, <1>3, <2>1, TaskOf, PolicyAssumption DEF TaskInv, ReadOwner, IInv, TypeOK, Task, Dnd
    <2>3. runner' = [runner EXCEPT ![s] = t] /\ engine' = engine
      BY <1>3 DEF ReadOwner
    <2> HIDE DEF t
    <2> QED
      BY <1>0, <2>1, <2>2, <2>3, TaskOf, LocalStep DEF IInv, TypeOK, TaskKey
  <1>4. CASE ReadOwnerFails(s)
    <2> DEFINE t == [runner[s] EXCEPT !.at = "evaluate"]
    <2>1. t \in Task /\ t.at \notin Mutating /\ t.at # "record" /\ t.outcome = None
      BY <1>0, <1>4, TaskOf DEF ReadOwnerFails, At, IInv, TypeOK, Task, Location, Mutating
    <2>2. TaskInv(t, TaskKey(s))
      BY <1>0, <1>4, <2>1, TaskOf, PolicyAssumption DEF TaskInv, Task
    <2>3. runner' = [runner EXCEPT ![s] = t] /\ engine' = engine
      BY <1>4 DEF ReadOwnerFails, Goto
    <2> HIDE DEF t
    <2> QED
      BY <1>0, <2>1, <2>2, <2>3, TaskOf, LocalStep DEF IInv, TypeOK, TaskKey
  <1>5. CASE Evaluate(s)
    <2> DEFINE t == [runner[s] EXCEPT !.at = "recheck"]
    <2>1. engine' \in [Session -> [stable : [Rule -> Time], last : [Rule -> Time]]]
      <3>1. runner[s].now \in Time /\ engine[s] \in [stable : [Rule -> Time], last : [Rule -> Time]]
        BY <1>0, TaskOf DEF Task, IInv, TypeOK
      <3>2. Judged(s, Reason(s)) \in [stable : [Rule -> Time], last : [Rule -> Time]]
        <4>1. [r \in Rule |-> IF r # runner[s].event.seen THEN 0
                              ELSE IF Reason(s) = "STABILIZING" /\ engine[s].stable[r] = 0 THEN runner[s].now
                              ELSE engine[s].stable[r]] \in [Rule -> Time]
          BY <3>1, PolicyAssumption DEF Time
        <4>2. [engine[s].last EXCEPT ![runner[s].event.seen] = runner[s].now] \in [Rule -> Time]
          BY <3>1
        <4> QED
          BY <3>1, <4>1, <4>2 DEF Judged
      <3> QED
        BY <1>5, <3>2 DEF Evaluate, IInv, TypeOK
    <2>2. CASE Return(s)
      BY <1>0, <2>1, <2>2, ReturnStep
    <2>3. CASE Reason(s) = "OWNER_AND_CONSENT_VERIFIED" /\ Goto(s, "recheck")
      <3>1. /\ t \in Task /\ t.at = "recheck" /\ t.before # None /\ t.outcome = None
        BY <1>0, <1>5, <2>3, TaskOf DEF Evaluate, Reason, At, Task, Location, Mutating
      <3>2. TaskInv(t, TaskKey(s))
        BY <1>0, <3>1, TaskOf, PolicyAssumption DEF TaskInv, Task
      <3>3. runner' = [runner EXCEPT ![s] = t]
        BY <2>3 DEF Goto
      <3> HIDE DEF t
      <3> QED
        BY <1>0, <2>1, <3>1, <3>2, <3>3, TaskOf, LocalStep DEF IInv, TypeOK, TaskKey
    <2> QED
      BY <1>5, <2>2, <2>3 DEF Evaluate
  <1> QED
    BY <1>1, <1>2, <1>3, <1>4, <1>5 DEF Decide

-----------------------------------------------------------------------------
\* A runner that writes a record, starts a process or takes its reply.
LEMMA WriteStep ==
    ASSUME IInv, NEW s \in Session, NEW t \in Task \cup {None},
           runner' = [runner EXCEPT ![s] = t],
           t # None => /\ handled[s] > 0 /\ TaskInv(t, TaskKey(s))'
                       /\ t.at \in Mutating => t.before # None
                       /\ t.at = "record" <=> t.outcome # None,
           audit \subseteq audit', audit' \subseteq Entry, AppliedIsReal',
           child' \subseteq Child, \A c \in child' \ child : ChildInv(c)',
           faults' \in 0 .. MaxFaults,
           UNCHANGED <<config, dnd, engine, handled, clock, asks, history>>
    PROVE  IInv'
  <1> USE DEF history
  <1>1. /\ \A q \in Session \ {s} : RunnerInv(q)'
        /\ \A q \in Session : LateInv(q)'
        /\ \A c \in child : ChildInv(c)'
        /\ IntentFirst'
    BY OthersKeep
  <1>2. runner'[s] = t
    BY DEF IInv, TypeOK
  <1>3. RunnerInv(s)'
    BY <1>2 DEF RunnerInv
  <1>4. TypeOK'
    <2>1. runner' \in [Session -> Task \cup {None}]
      BY DEF IInv, TypeOK
    <2>2. ASSUME NEW q \in Session, runner'[q] # None
          PROVE  /\ runner'[q].at \in Mutating => runner'[q].before # None
                 /\ runner'[q].at = "record" <=> runner'[q].outcome # None
      <3>1. CASE q = s
        BY <1>2, <2>2, <3>1
      <3>2. CASE q # s
        BY <2>2, <3>2 DEF IInv, TypeOK
      <3> QED
        BY <3>1, <3>2
    <2> QED
      BY <2>1, <2>2 DEF IInv, TypeOK
  <1>5. \A c \in child' : ChildInv(c)'
    BY <1>1
  <1> QED
    BY <1>1, <1>3, <1>4, <1>5 DEF IInv

LEMMA FaultType == ASSUME IInv, NEW kind, Fail(kind) PROVE faults' \in 0 .. MaxFaults
  BY PolicyAssumption DEF IInv, TypeOK, Fail

\* Nothing that counts as a request's own change is written, or it was one.
LEMMA AuditKept ==
    ASSUME IInv, acted' = acted, NEW e \in Entry, audit' \subseteq audit \cup {e},
           e.outcome = "APPLIED" => e.key \in acted
    PROVE  AppliedIsReal' /\ audit' \subseteq Entry
  BY DEF IInv, TypeOK, AppliedIsReal

LEMMA RecheckStep == ASSUME IInv, NEW s \in Session, Recheck(s) PROVE IInv'
  <1> DEFINE t == [runner[s] EXCEPT !.at = "intent"]
  <1>1. CASE Return(s)
    BY <1>1, ReturnStep DEF Recheck, bounds, history, IInv, TypeOK
  <1>2. CASE Authorised(s) /\ Goto(s, "intent")
    <2>1. runner[s] # None /\ runner[s].at = "recheck"
      BY DEF Recheck, At
    <2>2. t \in Task /\ t.at = "intent" /\ t.before # None /\ t.outcome = None
      BY <2>1, TaskOf DEF Task, Location, Mutating
    <2>3. TaskInv(t, TaskKey(s))
      <3>1. late[TaskKey(s)[1]] = 0
        BY <1>2 DEF IInv, LateInv, TaskKey
      <3> QED
        BY <2>1, <2>2, <3>1, TaskOf, PolicyAssumption DEF TaskInv, Task
    <2>4. runner' = [runner EXCEPT ![s] = t]
      BY <1>2 DEF Goto
    <2> HIDE DEF t
    <2> QED
      BY <2>1, <2>2, <2>3, <2>4, TaskOf, LocalStep DEF Recheck, bounds, history, IInv, TypeOK, TaskKey
  <1> QED
    BY <1>1, <1>2 DEF Recheck

LEMMA IntentStep == ASSUME IInv, NEW s \in Session, Intent(s) PROVE IInv'
  <1>0. PICK t, e : /\ t = [runner[s] EXCEPT !.at = "execute"]
                    /\ e = [key |-> TaskKey(s), outcome |-> "INTENT"]
    OBVIOUS
  <1>1. runner[s] # None /\ runner[s].at = "intent"
    BY DEF Intent, At
  <1>2. t \in Task /\ t.at = "execute" /\ t.before # None /\ t.outcome = None
    BY <1>0, <1>1, TaskOf DEF Task, Location, Mutating
  <1>3. e \in Entry /\ e.outcome # "APPLIED" /\ audit' = audit \cup {e}
    BY <1>0, <1>1, TaskOf DEF Entry, Intent
  <1>4. TaskInv(t, TaskKey(s))'
    BY <1>0, <1>1, <1>2, <1>3, TaskOf, PolicyAssumption DEF TaskInv, Task, Intent, Recorded, history, TaskKey
  <1>5. runner' = [runner EXCEPT ![s] = t]
    BY <1>0 DEF Intent, Goto
  <1>6. AppliedIsReal' /\ audit' \subseteq Entry
    BY <1>3, AuditKept DEF Intent, history
  <1> QED
    BY <1>1, <1>2, <1>3, <1>4, <1>5, <1>6, TaskOf, WriteStep DEF Intent, bounds, IInv, TypeOK

LEMMA ExecuteStep == ASSUME IInv, NEW s \in Session, Execute(s) PROVE IInv'
  <1>0. PICK t, c : /\ t = [runner[s] EXCEPT !.at = "wait"]
                    /\ c = [key |-> TaskKey(s), want |-> runner[s].event.seen,
                            expected |-> runner[s].before.revision, reply |-> None]
    OBVIOUS
  <1>1. runner[s] # None /\ runner[s].at = "execute"
    BY DEF Execute, At
  <1>2. t \in Task /\ t.at = "wait" /\ t.before # None /\ t.outcome = None
    BY <1>0, <1>1, TaskOf DEF Task, Location, Mutating
  <1>3. TaskInv(t, TaskKey(s))'
    BY <1>0, <1>1, <1>2, TaskOf, PolicyAssumption DEF TaskInv, Task, Execute, Recorded, history, TaskKey
  <1>4. runner' = [runner EXCEPT ![s] = t] /\ child' = child \cup {c}
    BY <1>0 DEF Execute, Goto
  <1>5. c \in Child
    <2>1. runner[s].before \in Dnd
      BY <1>1, TaskOf DEF Task, Mutating
    <2>2. runner[s].event.seen \in Rule
      BY <1>1, TaskOf DEF TaskInv
    <2> QED
      BY <1>0, <1>1, <2>1, <2>2, TaskOf DEF Child, Dnd
  <1>6. ChildInv(c)'
    BY <1>0, <1>1, <1>2, TaskOf, PolicyAssumption DEF ChildInv, TaskInv, Recorded, Execute, history, TaskKey
  <1>7. AppliedIsReal' /\ audit' = audit
    BY DEF Execute, history, IInv, AppliedIsReal
  <1> QED
    BY <1>1, <1>2, <1>3, <1>4, <1>5, <1>6, <1>7, TaskOf, WriteStep DEF Execute, bounds, IInv, TypeOK

LEMMA ReplyStep ==
    ASSUME IInv, NEW s \in Session, NEW c \in child, Reply(s, c) \/ ReplyLost(s, c) PROVE IInv'
  <1>0. PICK t : t = [runner[s] EXCEPT
                        !.at = IF ReplyLost(s, c) \/ c.reply # "applied" THEN "record" ELSE "readback",
                        !.outcome = IF ReplyLost(s, c) THEN "UNKNOWN"
                                    ELSE IF c.reply # "applied" THEN "BLOCKED" ELSE @]
    OBVIOUS
  <1>1. /\ runner[s] # None /\ runner[s].at = "wait" /\ c.key = TaskKey(s)
        /\ child' = child \ {c}
        /\ UNCHANGED <<config, dnd, audit, engine, handled, clock, asks, history>>
        /\ faults' = faults \/ Fail("reply")
    BY DEF Reply, ReplyLost, At, bounds
  <1>2. /\ t \in Task /\ t.before # None /\ (t.at = "record" <=> t.outcome # None)
        /\ t.before = runner[s].before /\ t.event = runner[s].event
        /\ t.at \in {"record", "readback"} /\ t.outcome # "APPLIED"
        /\ t.at = "readback" => c.reply = "applied"
    BY <1>0, <1>1, TaskOf, PolicyAssumption DEF Task, Location, Mutating
  <1>3. TaskInv(t, TaskKey(s))'
    <2>1. t.at = "readback" => TaskKey(s) \in acted
      BY <1>1, <1>2 DEF IInv, ChildInv
    <2>2. TaskKey(s)' = TaskKey(s)
      BY <1>1 DEF TaskKey
    <2> QED
      BY <1>1, <1>2, <2>1, <2>2, TaskOf DEF TaskInv, history
  <1>4. runner' = [runner EXCEPT ![s] = t]
    <2>1. CASE ReplyLost(s, c)
      BY <1>0, <2>1 DEF ReplyLost
    <2>2. CASE ~ReplyLost(s, c) /\ c.reply = "applied"
      BY <1>0, <2>2, <1>1, TaskOf DEF Reply, Task
    <2>3. CASE ~ReplyLost(s, c) /\ c.reply # "applied"
      BY <1>0, <2>3 DEF Reply
    <2> QED
      BY <2>1, <2>2, <2>3
  <1>5. AppliedIsReal'
    BY <1>1 DEF history, IInv, AppliedIsReal
  <1>6. faults' \in 0 .. MaxFaults
    BY <1>1, FaultType DEF IInv, TypeOK
  <1> QED
    BY <1>1, <1>2, <1>3, <1>4, <1>5, <1>6, TaskOf, WriteStep DEF IInv, TypeOK

LEMMA ReadbackStep ==
    ASSUME IInv, NEW s \in Session, Readback(s) \/ ReadbackFails(s) PROVE IInv'
  <1>1. /\ runner[s] # None /\ runner[s].at = "readback"
        /\ UNCHANGED <<shared, engine, handled, clock, asks, history>>
        /\ faults' = faults \/ Fail("owner")
    BY DEF Readback, ReadbackFails, At, bounds
  <1>2. PICK t : /\ runner' = [runner EXCEPT ![s] = t]
                 /\ \E o \in {"APPLIED", "UNKNOWN"} :
                      t = [runner[s] EXCEPT !.at = "record", !.outcome = o]
    <2>1. CASE Readback(s)
      <3>1. PICK o : o = IF dnd.revision > runner[s].before.revision /\ dnd.on = runner[s].event.seen
                         THEN "APPLIED" ELSE "UNKNOWN"
        OBVIOUS
      <3>2. runner' = [runner EXCEPT ![s] = [runner[s] EXCEPT !.at = "record", !.outcome = o]]
        BY <2>1, <3>1 DEF Readback
      <3> QED
        BY <3>1, <3>2
    <2>2. CASE ReadbackFails(s)
      BY <2>2 DEF ReadbackFails
    <2> QED
      BY <2>1, <2>2
  <1>3. /\ t \in Task /\ t.at = "record" /\ t.before = runner[s].before /\ t.before # None
        /\ t.outcome # None /\ t.event = runner[s].event
    BY <1>1, <1>2, TaskOf, PolicyAssumption DEF Task, Location, Mutating
  <1>4. TaskInv(t, TaskKey(s))
    BY <1>1, <1>3, TaskOf DEF TaskInv
  <1>5. faults' \in 0 .. MaxFaults
    BY <1>1, FaultType DEF IInv, TypeOK
  <1> QED
    BY <1>1, <1>2, <1>3, <1>4, <1>5, TaskOf, LocalStep DEF TaskKey, history, IInv, TypeOK

LEMMA RecordStep == ASSUME IInv, NEW s \in Session, Record(s) PROVE IInv'
  <1>0. PICK e : e = [key |-> TaskKey(s), outcome |-> runner[s].outcome]
    OBVIOUS
  <1>1. runner[s] # None /\ runner[s].at = "record"
    BY DEF Record, At
  <1>2. e \in Entry /\ (e.outcome = "APPLIED" => e.key \in acted)
    BY <1>0, <1>1, TaskOf DEF Entry, Task, TaskInv
  <1>3. audit' = audit \cup {e} /\ runner' = [runner EXCEPT ![s] = None]
    BY <1>0 DEF Record, Return
  <1>4. AppliedIsReal' /\ audit' \subseteq Entry
    BY <1>2, <1>3, AuditKept DEF Record, history
  <1> QED
    BY <1>2, <1>3, <1>4, WriteStep DEF Record, bounds, IInv, TypeOK

LEMMA MutateStep == ASSUME IInv, NEW s \in Session, Mutate(s) PROVE IInv'
  <1>1. CASE RecheckFails(s) \/ IntentFails(s) \/ RecordFails(s)
    <2>1. /\ Return(s) /\ UNCHANGED <<shared, engine, handled, clock, asks, history>>
          /\ faults' \in 0 .. MaxFaults
      BY <1>1, FaultType DEF RecheckFails, IntentFails, RecordFails
    <2> QED
      BY <2>1, ReturnStep DEF history, IInv, TypeOK
  <1> QED
    BY <1>1, RecheckStep, IntentStep, ExecuteStep, ReplyStep, ReadbackStep, RecordStep DEF Mutate

LEMMA CrashStep == ASSUME IInv, NEW s \in Session, Crash(s) PROVE IInv'
  <1>1. engine' \in [Session -> [stable : [Rule -> Time], last : [Rule -> Time]]]
    <2>1. NewEngine \in [stable : [Rule -> Time], last : [Rule -> Time]]
      BY PolicyAssumption DEF NewEngine, Time
    <2> QED
      BY <2>1 DEF Crash, IInv, TypeOK
  <1>2. disturbed' \in [Session -> [Rule -> Time]] /\ faults' \in 0 .. MaxFaults
    BY FaultType DEF Crash, IInv, TypeOK
  <1> QED
    BY <1>1, <1>2, ReturnStep DEF Crash

-----------------------------------------------------------------------------
\* The owner makes a change: every revision read before is out of date, so a
\* session without authority has made its only one.
LEMMA ActStep == ASSUME IInv, NEW c \in child, Act(c) PROVE IInv'
  <1>0. PICK d : d = [c EXCEPT !.reply = "applied"]
    OBVIOUS
  <1>1. /\ c \in Child /\ c.key \in Key /\ c.key[1] \in Session /\ ChildInv(c)
        /\ c.expected = dnd.revision
        /\ dnd' = [dnd EXCEPT !.on = c.want, !.revision = @ + 1]
        /\ child' = (child \ {c}) \cup {d}
        /\ acted' = acted \cup {c.key}
        /\ UNCHANGED <<config, audit, runner, engine, handled, clock, faults, asks, disturbed>>
    BY <1>0 DEF Act, Accepts, IInv, TypeOK, Child, Key, bounds
  <1>2. /\ dnd' \in Dnd /\ dnd'.revision = dnd.revision + 1 /\ dnd.revision \in Nat
        /\ d \in Child /\ d.key = c.key /\ d.expected = c.expected
    <2>1. dnd \in Dnd /\ c.want \in Rule /\ dnd.revision \in Nat
      BY <1>1 DEF Child, Dnd, IInv, TypeOK
    <2>2. dnd' = [dnd EXCEPT !.on = c.want, !.revision = dnd.revision + 1]
      BY <1>1
    <2>3. dnd' \in Dnd /\ dnd'.revision = dnd.revision + 1
      <3>1. dnd' = [on |-> c.want, revision |-> dnd.revision + 1, until |-> dnd.until]
        BY <2>1, <2>2 DEF Dnd
      <3>2. dnd.revision + 1 \in Nat /\ dnd.until \in Nat
        BY <2>1 DEF Dnd
      <3> QED
        BY <2>1, <3>1, <3>2 DEF Dnd
    <2>4. d \in Child /\ d.key = c.key /\ d.expected = c.expected
      BY <1>0, <1>1 DEF Child
    <2> QED
      BY <2>1, <2>3, <2>4
  <1>3. late' = IF Authorised(c.key[1]) THEN late ELSE [late EXCEPT ![c.key[1]] = 1]
    <2>1. late[c.key[1]] = 0
      BY <1>1, <1>2 DEF ChildInv, IInv, TypeOK
    <2> QED
      BY <1>1, <2>1 DEF Act, IInv, TypeOK
  <1>4. TypeOK'
    <2>1. late' \in [Session -> Nat]
      BY <1>1, <1>3 DEF IInv, TypeOK
    <2>2. child' \subseteq Child /\ acted' \subseteq Key
      BY <1>1, <1>2 DEF IInv, TypeOK
    <2> QED
      BY <1>1, <1>2, <2>1, <2>2 DEF IInv, TypeOK
  <1>5. ASSUME NEW s \in Session PROVE RunnerInv(s)' /\ LateInv(s)'
    <2>1. LateInv(s)'
      BY <1>1, <1>3 DEF IInv, TypeOK, LateInv, Authorised
    <2>2. ASSUME runner[s] # None PROVE TaskInv(runner[s], TaskKey(s))'
      <3>1. runner[s].before # None => runner[s].before.revision < dnd'.revision
        <4>1. runner[s].before # None => runner[s].before.revision \in Nat
          BY <2>2, TaskOf DEF Task, Dnd
        <4> QED
          BY <1>2, <2>2, <4>1, TaskOf DEF TaskInv
      <3>2. /\ runner' = runner /\ TaskKey(s)' = TaskKey(s) /\ TaskInv(runner[s], TaskKey(s))
            /\ runner[s].before # None => runner[s].before.revision \in Nat
            /\ runner[s].at \in {"intent", "execute"} => runner[s].before # None
        BY <1>1, <2>2, TaskOf DEF Mutating, TaskKey, Task, Dnd
      <3> QED
        BY <1>1, <1>2, <3>1, <3>2 DEF TaskInv, Recorded
    <2> QED
      BY <1>1, <2>1, <2>2 DEF IInv, RunnerInv
  <1>6. ASSUME NEW x \in child' PROVE ChildInv(x)'
    <2>1. PICK y \in child : x.key = y.key /\ x.expected = y.expected /\ (x = d \/ x = y)
      BY <1>1, <1>2
    <2>2. ChildInv(y) /\ y.expected \in Nat
      BY DEF IInv, TypeOK, Child
    <2>3. x.reply = "applied" => x.key \in acted'
      BY <1>1, <1>2, <2>1, <2>2 DEF ChildInv
    <2> QED
      BY <1>1, <1>2, <2>1, <2>2, <2>3 DEF ChildInv, Recorded
  <1>7. IntentFirst' /\ AppliedIsReal'
    BY <1>1 DEF IInv, IntentFirst, AppliedIsReal, ChildInv, Recorded
  <1> QED
    BY <1>4, <1>5, <1>6, <1>7 DEF IInv

\* A refusal or the end of a process changes nothing of the state.
LEMMA OwnerStep == ASSUME IInv, Owner PROVE IInv'
  <1>1. PICK c \in child : Act(c) \/ Reject(c) \/ OrphanExits(c)
    BY DEF Owner
  <1>2. CASE Reject(c) \/ OrphanExits(c)
    <2>0. PICK d : d = [c EXCEPT !.reply = "rejected"]
      OBVIOUS
    <2>1. /\ child' \subseteq child \cup {d}
          /\ UNCHANGED <<config, dnd, audit, runner, engine, handled, clock, faults, asks, acted, late,
                           disturbed>>
      BY <1>2, <2>0 DEF Reject, OrphanExits, bounds, history
    <2>2. d \in Child /\ ChildInv(c) /\ d.key = c.key /\ d.expected = c.expected /\ d.reply = "rejected"
      BY <2>0 DEF IInv, TypeOK, Child
    <2>3. \A x \in child' : ChildInv(x)'
      BY <2>1, <2>2 DEF IInv, ChildInv, Recorded
    <2>4. TypeOK'
      BY <2>1, <2>2 DEF IInv, TypeOK
    <2>5. \A s \in Session : RunnerInv(s)' /\ LateInv(s)'
      BY <2>1 DEF IInv, RunnerInv, LateInv, TaskInv, TaskKey, Recorded, Authorised
    <2> QED
      BY <2>1, <2>3, <2>4, <2>5 DEF IInv, IntentFirst, AppliedIsReal
  <1> QED
    BY <1>1, <1>2, ActStep

\* Consent, a pause or the time changes: authority starts a new count.
LEMMA RecountStep ==
    ASSUME IInv, Recount,
           config' \in [owner : Session \cup {None}, pause : Nat], clock' \in Time, asks' \in 0 .. MaxAsks,
           UNCHANGED <<dnd, audit, child, runner, engine, handled, faults, acted, disturbed>>
    PROVE  IInv'
  <1>1. \A s \in Session : late'[s] = (IF Authorised(s)' THEN 0 ELSE late[s])
    BY DEF Recount
  <1>2. late' \in [Session -> Nat]
    BY DEF Recount, IInv, TypeOK
  <1>3. \A s \in Session : LateInv(s)'
    BY <1>1 DEF IInv, LateInv
  <1>4. \A s \in Session : late'[s] # 0 => late[s] # 0
    BY <1>1
  <1>5. ASSUME NEW s \in Session PROVE RunnerInv(s)'
    <2> SUFFICES ASSUME runner[s] # None PROVE TaskInv(runner[s], TaskKey(s))'
      BY DEF IInv, RunnerInv
    <2>1. runner' = runner /\ TaskKey(s)' = TaskKey(s) /\ TaskKey(s)[1] = s /\ TaskInv(runner[s], TaskKey(s))
      BY TaskOf DEF TaskKey
    <2> QED
      BY <1>4, <2>1 DEF TaskInv, Recorded
  <1>6. ASSUME NEW c \in child PROVE ChildInv(c)'
    <2>1. c.key[1] \in Session /\ ChildInv(c)
      BY DEF IInv, TypeOK, Child, Key
    <2> QED
      BY <1>4, <2>1 DEF ChildInv, Recorded
  <1>7. TypeOK'
    BY <1>2 DEF IInv, TypeOK
  <1> QED
    BY <1>3, <1>5, <1>6, <1>7 DEF IInv, IntentFirst, AppliedIsReal

LEMMA UserStep == ASSUME IInv, User \/ Tick PROVE IInv'
  <1> USE PolicyAssumption
  <1>1. Ask => asks' \in 0 .. MaxAsks
    BY DEF Ask, IInv, TypeOK
  <1>2. CASE \E s \in Session : Grant(s) \/ Withdraw(s)
    <2>1. config' \in [owner : Session \cup {None}, pause : Nat]
      BY <1>2 DEF Grant, Withdraw, IInv, TypeOK
    <2> QED
      BY <1>1, <1>2, <2>1, RecountStep DEF Grant, Withdraw, Ask, IInv, TypeOK
  <1>3. CASE \E length \in Pauses : Pause(length)
    <2>1. PICK length \in Pauses : Pause(length)
      BY <1>3
    <2>2. length \in Nat /\ clock \in Nat
      BY DEF IInv, TypeOK, Time
    <2>3. config' \in [owner : Session \cup {None}, pause : Nat]
      BY <2>1, <2>2 DEF Pause, IInv, TypeOK
    <2> QED
      BY <1>1, <2>1, <2>3, RecountStep DEF Pause, Ask, IInv, TypeOK
  <1>4. CASE Tick
    <2>1. clock' \in Time
      BY <1>4 DEF Tick, IInv, TypeOK, Time
    <2> QED
      BY <1>4, <2>1, RecountStep DEF Tick, shared, IInv, TypeOK
  <1>5. CASE \E rule \in Rule : Choose(rule)
    <2>1. /\ UNCHANGED <<config, audit, child, runner, engine, handled, clock, faults, acted, late,
                         disturbed>>
          /\ asks' \in 0 .. MaxAsks
      BY <1>1, <1>5 DEF Choose, Ask
    <2>2. dnd' \in Dnd /\ dnd'.revision = dnd.revision + 1 /\ dnd.revision \in Nat
      BY <1>5 DEF Choose, IInv, TypeOK, Dnd, Time
    <2>3. ASSUME NEW s \in Session PROVE RunnerInv(s)' /\ LateInv(s)'
      <3>1. LateInv(s)'
        BY <2>1 DEF IInv, LateInv, Authorised
      <3>2. ASSUME runner[s] # None PROVE TaskInv(runner[s], TaskKey(s))'
        <4>1. /\ runner' = runner /\ TaskKey(s)' = TaskKey(s) /\ TaskInv(runner[s], TaskKey(s))
              /\ runner[s].before # None => runner[s].before.revision \in Nat
              /\ runner[s].at \in {"intent", "execute"} => runner[s].before # None
          BY <2>1, <3>2, TaskOf DEF Mutating, TaskKey, Task, Dnd
        <4> QED
          BY <2>1, <2>2, <4>1 DEF TaskInv, Recorded
      <3> QED
        BY <2>1, <3>1, <3>2 DEF IInv, RunnerInv
    <2>4. ASSUME NEW c \in child PROVE ChildInv(c)'
      <3>1. c.expected \in Nat /\ ChildInv(c)
        BY DEF IInv, TypeOK, Child
      <3> QED
        BY <2>1, <2>2, <3>1 DEF ChildInv, Recorded
    <2>5. TypeOK'
      BY <2>1, <2>2 DEF IInv, TypeOK
    <2> QED
      BY <2>1, <2>3, <2>4, <2>5 DEF IInv, IntentFirst, AppliedIsReal
  <1> QED
    BY <1>2, <1>3, <1>4, <1>5 DEF User

LEMMA StepKeepsIInv == IInv /\ [Next]_vars => IInv'
  <1> SUFFICES ASSUME IInv, [Next]_vars PROVE IInv'
    OBVIOUS
  <1>1. CASE UNCHANGED vars
    BY <1>1 DEF vars, shared, bounds, history, IInv, TypeOK, RunnerInv, LateInv, ChildInv, TaskInv,
                TaskKey, Recorded, Authorised, IntentFirst, AppliedIsReal
  <1>2. ASSUME NEW s \in Session, Observe(s) \/ Decide(s) \/ Mutate(s) \/ Crash(s) PROVE IInv'
    BY <1>2, HandleStep, DecideStep, MutateStep, CrashStep DEF Observe
  <1> QED
    BY <1>1, <1>2, OwnerStep, UserStep DEF Next

-----------------------------------------------------------------------------
\* Whatever fails, dies or is changed meanwhile: no change of automation is
\* made without its durable INTENT (runner.go), and APPLIED is recorded only
\* for a change that the request itself made.
THEOREM LedgerIsTrue == Spec => []LedgerHolds
  <1>1. IInv => LedgerHolds
    BY DEF IInv, LedgerHolds
  <1> QED
    BY <1>1, InitIInv, StepKeepsIInv, PTL DEF Spec

\* The revision a request carries makes every change but one impossible for a
\* session whose consent has ended, for any number of processes left behind.
THEOREM OneChangeInFlight == Spec => []OneInFlight
  <1>1. IInv => OneInFlight
    BY DEF IInv, LateInv, OneInFlight
  <1> QED
    BY <1>1, InitIInv, StepKeepsIInv, PTL DEF Spec

-----------------------------------------------------------------------------
\* Of the events a session observed: none is from the future, a stability began
\* after everything that contradicts its rule, or its rule is not the one that
\* is being judged, and the decision that acts had its hysteresis.
Quiet(s) ==
    /\ \A r \in Rule : disturbed[s][r] <= clock
    /\ \A r \in Rule : engine[s].stable[r] # 0 =>
          \/ disturbed[s][r] <= engine[s].stable[r]
          \/ runner[s] # None /\ runner[s].at \notin Mutating /\ runner[s].event.seen # r
    /\ runner[s] # None => \A r \in Rule : disturbed[s][r] <= runner[s].now
    /\ At(s, "recheck") => runner[s].now - disturbed[s][runner[s].event.seen] >= Hysteresis

QuietInv == IInv /\ \A s \in Session : Quiet(s)

\* The shape of what a session knows.
LEMMA EngineOf ==
    ASSUME IInv, NEW s \in Session
    PROVE  /\ clock \in Nat /\ Hysteresis \in Nat
           /\ \A r \in Rule : disturbed[s][r] \in Nat /\ engine[s].stable[r] \in Nat
           /\ runner[s] # None => runner[s].now \in Nat /\ runner[s].event.seen \in Rule
  <1>1. disturbed[s] \in [Rule -> Time] /\ engine[s].stable \in [Rule -> Time]
    BY DEF IInv, TypeOK
  <1>2. runner[s] # None => runner[s].now \in Time
    BY DEF IInv, TypeOK, Task
  <1> QED
    BY <1>1, <1>2, TaskOf, PolicyAssumption DEF IInv, TypeOK, Time, TaskInv

\* What others do, and the time that passes, do not disturb a session.
LEMMA QuietKept ==
    ASSUME IInv, NEW s \in Session, Quiet(s), runner'[s] = runner[s], engine'[s] = engine[s],
           disturbed'[s] = disturbed[s], clock' \in Nat, clock <= clock'
    PROVE  Quiet(s)'
  BY EngineOf DEF Quiet, At

\* What one session does leaves the others undisturbed.
LEMMA QuietElsewhere ==
    ASSUME QuietInv, NEW s \in Session, Quiet(s)', clock' = clock,
           \A q \in Session \ {s} : /\ runner'[q] = runner[q] /\ engine'[q] = engine[q]
                                    /\ disturbed'[q] = disturbed[q]
    PROVE  \A q \in Session : Quiet(q)'
  BY QuietKept, EngineOf DEF QuietInv

\* A runner returns, before the engine is asked only if nothing was disturbed.
LEMMA QuietReturns ==
    ASSUME QuietInv, NEW s \in Session, Return(s), runner[s] # None, runner[s].at \in Mutating,
           UNCHANGED <<engine, disturbed, clock>>
    PROVE  \A q \in Session : Quiet(q)'
  <1>1. runner'[s] = None /\ \A q \in Session \ {s} : runner'[q] = runner[q]
    BY DEF Return, QuietInv, IInv, TypeOK
  <1>2. Quiet(s)'
    BY <1>1 DEF Quiet, QuietInv, At
  <1> QED
    BY <1>1, <1>2, QuietElsewhere

\* A runner goes on with the same event, short of the decision or past it.
LEMMA QuietGoesOn ==
    ASSUME QuietInv, NEW s \in Session, runner[s] # None, NEW t \in Task,
           runner' = [runner EXCEPT ![s] = t], t.event = runner[s].event, t.now = runner[s].now,
           t.at # "recheck", t.at \in Mutating <=> runner[s].at \in Mutating,
           UNCHANGED <<engine, disturbed, clock>>
    PROVE  \A q \in Session : Quiet(q)'
  <1>1. runner'[s] = t /\ \A q \in Session \ {s} : runner'[q] = runner[q]
    BY DEF QuietInv, IInv, TypeOK
  <1>2. Quiet(s)
    BY DEF QuietInv
  <1>3. Quiet(s)'
    BY <1>1, <1>2, TaskAssumption DEF Quiet, At
  <1> QED
    BY <1>1, <1>3, QuietElsewhere

\* A new observation starts the other rule anew, and a new stream both.
LEMMA HandleQuiet ==
    ASSUME QuietInv, NEW s \in Session, NEW event \in Observation, NEW new \in BOOLEAN,
           Handle(s, event, new)
    PROVE  \A q \in Session : Quiet(q)'
  <1>1. /\ clock' = clock
        /\ \A q \in Session \ {s} : /\ runner'[q] = runner[q] /\ engine'[q] = engine[q]
                                    /\ disturbed'[q] = disturbed[q]
    BY DEF Handle, bounds, QuietInv, IInv, TypeOK
  <1>2. \A r \in Rule : disturbed'[s][r] = IF new \/ event.seen # r THEN clock ELSE disturbed[s][r]
    BY DEF Handle, QuietInv, IInv, TypeOK
  <1>3. \A r \in Rule : disturbed'[s][r] <= clock
    BY <1>2, EngineOf DEF QuietInv, Quiet
  <1>4. runner[s] = None /\ (runner'[s] = None \/ event.seen # "unavailable")
    BY DEF Handle
  <1>5. CASE new \/ event.seen = "unavailable"
    <2>1. \A r \in Rule : engine'[s].stable[r] = 0
      BY <1>5 DEF Handle, NewEngine, QuietInv, IInv, TypeOK
    <2>2. runner'[s] # None => runner'[s].now = clock /\ runner'[s].at = "config"
      BY <1>4 DEF Handle, QuietInv, IInv, TypeOK
    <2> QED
      BY <1>1, <1>3, <2>1, <2>2, QuietElsewhere DEF Quiet, At
  <1>6. CASE ~new /\ event.seen # "unavailable"
    <2>1. engine' = engine
      BY <1>6 DEF Handle
    <2>2. /\ runner'[s].now = clock /\ runner'[s].at = "config" /\ runner'[s].event = event
      BY <1>6 DEF Handle, QuietInv, IInv, TypeOK
    <2>3. \A r \in Rule : engine[s].stable[r] # 0 => disturbed[s][r] <= engine[s].stable[r]
      BY <1>4 DEF QuietInv, Quiet
    <2>4. runner'[s] # None
      <3>1. runner'[s] \in Task
        BY <1>6, PolicyAssumption DEF Handle, QuietInv, IInv, TypeOK, Task, Location, Observation
      <3> QED
        BY <3>1, TaskAssumption
    <2>5. Quiet(s)'
      BY <1>1, <1>2, <1>3, <1>6, <2>1, <2>2, <2>3, <2>4 DEF Quiet, At, Mutating
    <2> QED
      BY <1>1, <2>5, QuietElsewhere
  <1> QED
    BY <1>5, <1>6

\* The decision: a rule that acts was stable for its hysteresis, and nothing
\* else was observed since its stability began.
LEMMA EvaluateQuiet ==
    ASSUME QuietInv, NEW s \in Session, Evaluate(s)
    PROVE  \A q \in Session : Quiet(q)'
  <1> DEFINE rule == runner[s].event.seen
             now == runner[s].now
  <1>1. /\ runner[s] # None /\ runner[s] \in Task /\ runner[s].at = "evaluate" /\ rule \in Rule
        /\ clock' = clock /\ disturbed' = disturbed
    BY TaskOf, EngineOf DEF Evaluate, At, bounds, history, QuietInv
  <1>2. \A q \in Session \ {s} : runner'[q] = runner[q] /\ engine'[q] = engine[q]
    BY DEF Evaluate, Goto, Return, QuietInv, IInv, TypeOK
  <1>3. engine'[s] = Judged(s, Reason(s))
    BY DEF Evaluate, QuietInv, IInv, TypeOK
  <1>4. /\ \A r \in Rule \ {rule} : engine'[s].stable[r] = 0
        /\ engine'[s].stable[rule] \in {engine[s].stable[rule], now}
        /\ engine[s].stable[rule] # 0 => disturbed[s][rule] <= engine[s].stable[rule]
    <2>1. \A r \in Rule : engine'[s].stable[r] =
             (IF r # rule THEN 0
              ELSE IF Reason(s) = "STABILIZING" /\ engine[s].stable[r] = 0 THEN now
              ELSE engine[s].stable[r])
      BY <1>3 DEF Judged
    <2> QED
      BY <1>1, <2>1 DEF QuietInv, Quiet, Mutating
  <1>5. \A r \in Rule : disturbed[s][r] <= clock /\ disturbed[s][r] <= now
    BY <1>1 DEF QuietInv, Quiet
  <1>6. \A r \in Rule : engine'[s].stable[r] # 0 => disturbed[s][r] <= engine'[s].stable[r]
    BY <1>4, <1>5
  <1>7. CASE Return(s)
    <2>1. runner'[s] = None
      BY <1>7 DEF Return, QuietInv, IInv, TypeOK
    <2>2. Quiet(s)'
      BY <1>1, <1>5, <1>6, <2>1 DEF Quiet, At
    <2> QED
      BY <1>1, <1>2, <2>2, QuietElsewhere
  <1>8. CASE Reason(s) = "OWNER_AND_CONSENT_VERIFIED" /\ Goto(s, "recheck")
    <2>1. runner'[s] = [runner[s] EXCEPT !.at = "recheck"]
      BY <1>8 DEF Goto, QuietInv, IInv, TypeOK
    <2>2. runner'[s].event.seen = rule /\ runner'[s].now = now
      BY <1>1, <2>1 DEF Task
    <2>3. now - disturbed[s][rule] >= Hysteresis
      <3>1. ~Unstable(engine[s].stable[rule], now)
        BY <1>8 DEF Reason
      <3> QED
        BY <1>1, <1>4, <1>5, <3>1, EngineOf DEF Unstable, QuietInv
    <2> HIDE DEF rule, now
    <2>4. Quiet(s)'
      BY <1>1, <1>5, <1>6, <2>2, <2>3 DEF Quiet, At
    <2> QED
      BY <1>1, <1>2, <2>4, QuietElsewhere
  <1> QED
    BY <1>7, <1>8 DEF Evaluate

LEMMA DecideQuiet ==
    ASSUME "config" \notin Faults, QuietInv, NEW s \in Session, Decide(s)
    PROVE  \A q \in Session : Quiet(q)'
  <1> USE DEF bounds, history
  <1>1. CASE ReadConfig(s) \/ ReadOwner(s) \/ ReadOwnerFails(s)
    <2>1. /\ runner[s] # None /\ runner[s] \in Task /\ runner[s].at \notin Mutating
          /\ UNCHANGED <<engine, disturbed, clock>>
      BY <1>1, TaskOf DEF ReadConfig, ReadOwner, ReadOwnerFails, At, Mutating, QuietInv
    <2>2. PICK at \in {"owner", "evaluate"}, pause \in Nat, before \in Dnd \cup {None} :
             runner' = [runner EXCEPT ![s] = [runner[s] EXCEPT !.at = at, !.pause = pause, !.before = before]]
      <3>1. /\ config.pause \in Nat /\ dnd \in Dnd /\ runner[s].pause \in Nat
            /\ runner[s].before \in Dnd \cup {None}
        BY <2>1 DEF QuietInv, IInv, TypeOK, Task
      <3>2. CASE ReadConfig(s)
        <4>1. runner' = [runner EXCEPT ![s] = [runner[s] EXCEPT
                            !.at = IF config.owner = s THEN "owner" ELSE "evaluate",
                            !.pause = config.pause, !.before = runner[s].before]]
          BY <2>1, <3>2 DEF ReadConfig, Task
        <4> QED
          BY <3>1, <4>1
      <3>3. CASE ReadOwner(s)
        <4>1. runner' = [runner EXCEPT ![s] = [runner[s] EXCEPT
                            !.at = "evaluate", !.pause = runner[s].pause, !.before = dnd]]
          BY <2>1, <3>3 DEF ReadOwner, Task
        <4> QED
          BY <3>1, <4>1
      <3>4. CASE ReadOwnerFails(s)
        <4>1. runner' = [runner EXCEPT ![s] = [runner[s] EXCEPT
                            !.at = "evaluate", !.pause = runner[s].pause, !.before = runner[s].before]]
          BY <2>1, <3>4 DEF ReadOwnerFails, Goto, Task
        <4> QED
          BY <3>1, <4>1
      <3> QED
        BY <1>1, <3>2, <3>3, <3>4
    <2> DEFINE t == [runner[s] EXCEPT !.at = at, !.pause = pause, !.before = before]
    <2>3. t \in Task /\ t.event = runner[s].event /\ t.now = runner[s].now /\ t.at = at
      BY <2>1 DEF Task, Location
    <2> HIDE DEF t
    <2> QED
      BY <2>1, <2>2, <2>3, QuietGoesOn DEF Mutating, t
  <1> QED
    BY <1>1, EvaluateQuiet DEF Decide, ReadConfigFails, Fail

\* Past the decision nothing a runner does disturbs or stabilises.
LEMMA MutateQuiet ==
    ASSUME QuietInv, NEW s \in Session, Mutate(s)
    PROVE  \A q \in Session : Quiet(q)'
  <1> USE DEF bounds, history
  <1>1. /\ runner[s] # None /\ runner[s] \in Task /\ runner[s].at \in Mutating
        /\ UNCHANGED <<engine, disturbed, clock>>
    BY TaskOf DEF Mutate, Recheck, RecheckFails, Intent, IntentFails, Execute, Reply, ReplyLost, Readback,
                  ReadbackFails, Record, RecordFails, At, Mutating, QuietInv
  <1>2. CASE Return(s)
    BY <1>1, <1>2, QuietReturns
  <1>3. CASE ~Return(s)
    <2>1. PICK at \in Mutating \ {"recheck"}, outcome \in {None, "APPLIED", "BLOCKED", "UNKNOWN"} :
             runner' = [runner EXCEPT ![s] = [runner[s] EXCEPT !.at = at, !.outcome = outcome]]
      <3>1. CASE \E at \in Mutating \ {"recheck"} : Goto(s, at)
        <4>1. PICK at \in Mutating \ {"recheck"} : Goto(s, at)
          BY <3>1
        <4>2. /\ runner' = [runner EXCEPT ![s] = [runner[s] EXCEPT !.at = at, !.outcome = runner[s].outcome]]
              /\ runner[s].outcome \in {None, "APPLIED", "BLOCKED", "UNKNOWN"}
          BY <1>1, <4>1 DEF Goto, Task
        <4> QED
          BY <4>2
      <3>2. CASE \E outcome \in {"APPLIED", "BLOCKED", "UNKNOWN"} :
                   runner' = [runner EXCEPT ![s].at = "record", ![s].outcome = outcome]
        <4>1. PICK outcome \in {"APPLIED", "BLOCKED", "UNKNOWN"} :
                 runner' = [runner EXCEPT ![s].at = "record", ![s].outcome = outcome]
          BY <3>2
        <4>2. runner' = [runner EXCEPT ![s] = [runner[s] EXCEPT !.at = "record", !.outcome = outcome]]
          BY <4>1 DEF QuietInv, IInv, TypeOK
        <4> QED
          BY <4>2 DEF Mutating
      <3>3. ASSUME NEW c \in child, Reply(s, c)
            PROVE  \/ Goto(s, "readback")
                   \/ runner' = [runner EXCEPT ![s].at = "record", ![s].outcome = "BLOCKED"]
        BY <3>3 DEF Reply, Goto
      <3>4. Readback(s) => \E outcome \in {"APPLIED", "BLOCKED", "UNKNOWN"} :
                   runner' = [runner EXCEPT ![s].at = "record", ![s].outcome = outcome]
        BY DEF Readback
      <3> QED
        BY <1>3, <3>1, <3>2, <3>3, <3>4
        DEF Mutate, Recheck, RecheckFails, Intent, IntentFails, Execute, ReplyLost, ReadbackFails, Record,
            RecordFails, Mutating
    <2> DEFINE t == [runner[s] EXCEPT !.at = at, !.outcome = outcome]
    <2>2. t \in Task /\ t.event = runner[s].event /\ t.now = runner[s].now /\ t.at = at
      BY <1>1 DEF Task, Location
    <2> HIDE DEF t
    <2> QED
      BY <1>1, <2>1, <2>2, QuietGoesOn DEF t
  <1> QED
    BY <1>2, <1>3

LEMMA CrashQuiet ==
    ASSUME QuietInv, NEW s \in Session, Crash(s)
    PROVE  \A q \in Session : Quiet(q)'
  <1>1. /\ clock' = clock /\ runner'[s] = None
        /\ \A r \in Rule : engine'[s].stable[r] = 0 /\ disturbed'[s][r] = clock
        /\ \A q \in Session \ {s} : /\ runner'[q] = runner[q] /\ engine'[q] = engine[q]
                                    /\ disturbed'[q] = disturbed[q]
    BY DEF Crash, Return, NewEngine, QuietInv, IInv, TypeOK
  <1>2. Quiet(s)'
    BY <1>1, EngineOf DEF Quiet, At, QuietInv
  <1> QED
    BY <1>1, <1>2, QuietElsewhere

\* The owner, the user and the time leave what was observed alone.
LEMMA OutsideQuiet ==
    ASSUME QuietInv, Owner \/ User \/ Tick
    PROVE  \A q \in Session : Quiet(q)'
  <1>1. UNCHANGED <<runner, engine, disturbed>> /\ clock' \in {clock, clock + 1}
    BY DEF Owner, Act, Reject, OrphanExits, User, Grant, Withdraw, Pause, Choose, Ask, Tick, bounds, history
  <1> QED
    BY <1>1, QuietKept, EngineOf DEF QuietInv

LEMMA StepKeepsQuiet == ASSUME "config" \notin Faults PROVE QuietInv /\ [Next]_vars => QuietInv'
  <1> SUFFICES ASSUME QuietInv, [Next]_vars PROVE \A q \in Session : Quiet(q)'
    BY StepKeepsIInv DEF QuietInv
  <1>1. CASE UNCHANGED vars
    BY <1>1 DEF vars, bounds, history, QuietInv, Quiet, At
  <1>2. ASSUME NEW s \in Session, Observe(s) \/ Decide(s) \/ Mutate(s) \/ Crash(s)
        PROVE  \A q \in Session : Quiet(q)'
    BY <1>2, HandleQuiet, DecideQuiet, MutateQuiet, CrashQuiet DEF Observe
  <1> QED
    BY <1>1, <1>2, OutsideQuiet DEF Next

LEMMA InitQuiet == Init => QuietInv
  BY InitIInv, PolicyAssumption DEF Init, NewEngine, QuietInv, Quiet, At

\* While activation.json can be read, a session acts on a rule only when for the
\* rule's hysteresis it observed nothing else: no opposite window, no lost and
\* no new stream (evaluate() and InvalidateStability()).
THEOREM ActsUndisturbed == ASSUME "config" \notin Faults PROVE Spec => []Undisturbed
  <1>1. QuietInv => Undisturbed
    BY DEF QuietInv, Quiet, Undisturbed
  <1> QED
    BY <1>1, InitQuiet, StepKeepsQuiet, PTL DEF Spec

-----------------------------------------------------------------------------
Connection == [up : BOOLEAN, told : BOOLEAN, epoch : Nat, lines : Seq(Line)]

\* Of the observer: every connection but the first followed a lost one, and who
\* is connected has two lines at most that nobody took.
ObserverInv ==
    /\ socket \in Connection
    /\ Len(socket.lines) <= IF socket.up THEN 2 ELSE 3
    /\ socket.epoch <= IF socket.up THEN drops + 1 ELSE drops
    /\ stream \in BOOLEAN
    /\ change \in BOOLEAN

InputsInv == world \in Rule /\ flips \in 0 .. MaxFlips /\ drops \in 0 .. MaxDrops

\* Nobody sends from the future, and what is in the channel has been read.
Past(now) == {event \in Event : event.at \in 1 .. now}

Sent(now) == {event \in Past(now) : event.seen # None}

ChannelInv ==
    /\ sender \in [Goroutine -> Past(clock) \cup {None}]
    /\ queue \in Seq(Sent(clock))
    /\ Len(queue) <= QueueSize

Armed == [due : Nat, producer : Producer, epoch : Epoch]

\* Of the loop: while the runner has an event no timer runs, and the event has
\* a producer.  Zero is no time.
LoopInv ==
    /\ current \in [producer : Producer, epoch : Epoch] \cup {None}
    /\ source \in [Producer -> Epoch \cup {None}]
    /\ renewed \subseteq Producer
    /\ timer \in Armed \cup {None}
    /\ clock > 0
    /\ runner[Me] # None => /\ runner[Me].now > 0
                            /\ timer = None
                            /\ current \in [producer : Producer, epoch : Epoch]
    /\ TimerMeansStabilizing

DaemonInv == IInv /\ ObserverInv /\ InputsInv /\ ChannelInv /\ LoopInv

LEMMA InitDaemon == CoordinatorInit => DaemonInv
  <1> SUFFICES ASSUME CoordinatorInit PROVE DaemonInv
    OBVIOUS
  <1> USE CoordinatorAssumption DEF CoordinatorInit
  <1>1. ObserverInv
    <2>1. <<>> \in Seq(Line) /\ Len(<<>>) = 0
      OBVIOUS
    <2>2. socket \in Connection
      BY <2>1 DEF Connection
    <2>3. ~socket.up /\ socket.epoch = 0 /\ Len(socket.lines) = 0 /\ drops = 0
      BY <2>1
    <2>4. stream \in BOOLEAN /\ change \in BOOLEAN
      OBVIOUS
    <2> QED
      BY <2>2, <2>3, <2>4 DEF ObserverInv
  <1>2. InputsInv
    BY DEF InputsInv, Rule
  <1>3. ChannelInv
    BY DEF ChannelInv
  <1>4. LoopInv
    BY DEF LoopInv, Init, TimerMeansStabilizing
  <1> QED
    BY <1>1, <1>2, <1>3, <1>4, InitIInv DEF DaemonInv

LEMMA DaemonHolds == DaemonInv => CoordinatorInv
  <1> SUFFICES ASSUME DaemonInv PROVE CoordinatorInv
    OBVIOUS
  <1>1. socket \in [up : BOOLEAN, told : BOOLEAN, epoch : Epoch, lines : Seq(Line)] /\ Len(socket.lines) <= 3
    BY CoordinatorAssumption DEF DaemonInv, ObserverInv, InputsInv, Connection, Epoch
  <1>2. queue \in Seq(Event)
    BY DEF DaemonInv, ChannelInv, Sent, Past
  <1>3. sender \in [Goroutine -> Event \cup {None}]
    BY DEF DaemonInv, ChannelInv, Past
  <1> QED
    BY <1>1, <1>2, <1>3
    DEF DaemonInv, IInv, ObserverInv, InputsInv, ChannelInv, LoopInv, Armed, CoordinatorInv, CoordinatorTypeOK

-----------------------------------------------------------------------------
\* Of what leaves the loop and the runner alone.
LEMMA LoopKept ==
    ASSUME DaemonInv, UNCHANGED <<loop, runner, engine>>, clock' >= clock, clock' \in Nat
    PROVE  LoopInv'
  <1>1. clock \in Nat
    BY DEF DaemonInv, IInv, TypeOK, Time
  <1> QED
    BY <1>1 DEF DaemonInv, LoopInv, loop, TimerMeansStabilizing

\* The observer and the compositor.
LEMMA ObserverStep ==
    ASSUME DaemonInv, Connect \/ DialFails \/ Drop \/ Flip
    PROVE  DaemonInv'
  <1> USE CoordinatorAssumption
  <1>1. /\ UNCHANGED <<vars, stream, change, sender, queue, loop>> /\ IInv'
    BY StepKeepsIInv DEF Connect, DialFails, Drop, Flip, DaemonInv, inputs
  <1>2. LoopInv'
    BY <1>1, LoopKept DEF vars, bounds, DaemonInv, LoopInv, IInv, TypeOK, Time
  <1>3. InputsInv'
    BY DEF Connect, DialFails, Drop, Flip, inputs, DaemonInv, InputsInv, IInv, TypeOK
  <1>4. ObserverInv'
    <2>1. /\ socket = [up |-> socket.up, told |-> socket.told, epoch |-> socket.epoch, lines |-> socket.lines]
          /\ socket.up \in BOOLEAN /\ socket.told \in BOOLEAN /\ socket.epoch \in Nat
          /\ socket.lines \in Seq(Line) /\ drops \in Nat
          /\ stream' \in BOOLEAN /\ change' \in BOOLEAN
      BY <1>1 DEF DaemonInv, ObserverInv, InputsInv, Connection
    <2>2. \A line \in Line : /\ <<line>> \in Seq(Line) /\ Len(<<line>>) = 1
                             /\ Append(socket.lines, line) \in Seq(Line)
                             /\ Len(Append(socket.lines, line)) = Len(socket.lines) + 1
      BY <2>1
    <2>3. IF socket.up THEN Len(socket.lines) <= 2 /\ socket.epoch <= drops + 1
          ELSE Len(socket.lines) <= 3 /\ socket.epoch <= drops
      BY DEF DaemonInv, ObserverInv
    <2>4. CASE Connect
      <3>1. /\ socket' = [up |-> TRUE, told |-> FALSE, epoch |-> socket.epoch + 1, lines |-> <<"resync">>]
            /\ ~socket.up /\ drops' = drops
        BY <2>4 DEF Connect, inputs
      <3>2. /\ socket' \in Connection
            /\ socket'.up /\ socket'.epoch = socket.epoch + 1 /\ Len(socket'.lines) = 1
        BY <2>1, <2>2, <2>3, <3>1 DEF Connection, Line
      <3> QED
        BY <2>1, <2>3, <3>1, <3>2 DEF ObserverInv
    <2>5. CASE DialFails
      <3>1. /\ socket' = [up |-> socket.up, told |-> TRUE, epoch |-> socket.epoch,
                         lines |-> <<"unavailable">>]
            /\ ~socket.up /\ drops' = drops
        BY <2>1, <2>5 DEF DialFails, inputs
      <3>2. /\ socket' \in Connection
            /\ ~socket'.up /\ socket'.epoch = socket.epoch /\ Len(socket'.lines) = 1
        BY <2>1, <2>2, <2>3, <3>1 DEF Connection, Line
      <3> QED
        BY <2>1, <2>3, <3>1, <3>2 DEF ObserverInv
    <2>6. CASE Drop
      <3>1. /\ socket' = [up |-> FALSE, told |-> TRUE, epoch |-> socket.epoch,
                          lines |-> Append(socket.lines, "unavailable")]
            /\ socket.up /\ drops' = drops + 1
        BY <2>1, <2>6 DEF Drop
      <3>2. /\ socket' \in Connection
            /\ ~socket'.up /\ socket'.epoch = socket.epoch /\ Len(socket'.lines) <= 3
        BY <2>1, <2>2, <2>3, <3>1 DEF Connection, Line
      <3> QED
        BY <2>1, <2>3, <3>1, <3>2 DEF ObserverInv
    <2>7. CASE Flip
      <3>1. drops' = drops
        BY <2>7 DEF Flip
      <3>2. CASE socket' = socket
        BY <1>1, <3>1, <3>2 DEF DaemonInv, ObserverInv
      <3>3. CASE /\ socket.up /\ socket.lines \in {<<>>, <<"resync">>}
                 /\ socket' = [socket EXCEPT !.lines = Append(@, "event")]
        <4>1. Len(socket.lines) <= 1
          <5>1. Len(<<>>) = 0
            OBVIOUS
          <5>2. Len(<<"resync">>) = 1
            OBVIOUS
          <5>3. CASE socket.lines = <<>>
            BY <5>1, <5>3
          <5>4. CASE socket.lines = <<"resync">>
            BY <5>2, <5>4
          <5> QED
            BY <3>3, <5>3, <5>4
        <4>2. socket' = [up |-> TRUE, told |-> socket.told, epoch |-> socket.epoch,
                         lines |-> Append(socket.lines, "event")]
          BY <2>1, <3>3
        <4>3. /\ socket' \in Connection
              /\ socket'.up /\ socket'.epoch = socket.epoch /\ Len(socket'.lines) <= 2
          <5>1. Append(socket.lines, "event") \in Seq(Line) /\ Len(Append(socket.lines, "event")) <= 2
            BY <2>1, <2>2, <4>1 DEF Line
          <5> QED
            BY <2>1, <4>2, <5>1 DEF Connection
        <4> QED
          BY <2>1, <2>3, <3>1, <3>3, <4>3 DEF ObserverInv
      <3> QED
        BY <2>7, <3>2, <3>3 DEF Flip
    <2> QED
      BY <2>4, <2>5, <2>6, <2>7
  <1> QED
    BY <1>1, <1>2, <1>3, <1>4 DEF DaemonInv, ChannelInv, vars, bounds

-----------------------------------------------------------------------------
\* Of what leaves the observer alone.
LEMMA ObserverKept ==
    ASSUME DaemonInv, UNCHANGED socket, stream' \in BOOLEAN, change' \in BOOLEAN,
           drops' >= drops, drops' \in Nat
    PROVE  ObserverInv'
  <1>1. socket.epoch \in Nat /\ drops \in Nat
    BY DEF DaemonInv, ObserverInv, InputsInv, Connection
  <1>2. socket' \in Connection /\ Len(socket'.lines) <= IF socket'.up THEN 2 ELSE 3
    BY DEF DaemonInv, ObserverInv
  <1>3. socket.epoch <= IF socket.up THEN drops + 1 ELSE drops
    BY DEF DaemonInv, ObserverInv
  <1>4. socket'.epoch <= IF socket'.up THEN drops' + 1 ELSE drops'
    BY <1>1, <1>3
  <1> QED
    BY <1>2, <1>4 DEF ObserverInv

\* A goroutine that starts, reads or has sent.
LEMMA SenderIs ==
    ASSUME DaemonInv, NEW g \in Goroutine, NEW event \in Past(clock) \cup {None},
           sender' = [sender EXCEPT ![g] = event], UNCHANGED <<queue, clock>>
    PROVE  ChannelInv'
  BY DEF DaemonInv, ChannelInv

\* The time passes over what waits.
LEMMA ChannelKept ==
    ASSUME DaemonInv, UNCHANGED <<sender, queue>>, clock' \in {clock, clock + 1}
    PROVE  ChannelInv'
  <1>1. clock \in Nat
    BY DEF DaemonInv, IInv, TypeOK, Time
  <1>2. Past(clock) \subseteq Past(clock') /\ Sent(clock) \subseteq Sent(clock')
    BY <1>1 DEF Past, Sent
  <1>3. queue' \in Seq(Sent(clock'))
    BY <1>2 DEF DaemonInv, ChannelInv
  <1>4. sender' \in [Goroutine -> Past(clock') \cup {None}]
    BY <1>2 DEF DaemonInv, ChannelInv
  <1> QED
    BY <1>3, <1>4 DEF DaemonInv, ChannelInv

\* Goroutines that start.
LEMMA StartStep ==
    ASSUME DaemonInv, TakeLine \/ TakeChange \/ Fire
    PROVE  DaemonInv'
  <1>1. UNCHANGED <<vars, inputs, queue>> /\ IInv'
    BY StepKeepsIInv DEF TakeLine, TakeChange, Fire, DaemonInv
  <1>2. clock \in Time /\ clock \in 1 .. clock /\ clock' = clock /\ drops \in Nat /\ InputsInv'
    BY <1>1 DEF DaemonInv, InputsInv, LoopInv, inputs, vars, bounds, IInv, TypeOK, Time
  <1>3. socket.epoch \in Epoch
    BY DaemonHolds DEF CoordinatorInv, CoordinatorTypeOK
  <1>4. CASE TakeLine
    <2>1. socket.lines \in Seq(Line) /\ socket.lines # <<>>
      BY <1>4 DEF TakeLine, DaemonInv, ObserverInv, Connection
    <2>2. Unread("hyprland", socket.epoch, Head(socket.lines) = "resync") \in Past(clock)
      BY <1>2, <1>3 DEF Unread, Past, Event, Producer
    <2>3. ChannelInv'
      BY <1>1, <1>2, <1>4, <2>2, SenderIs DEF TakeLine, Start, Goroutine, Producer
    <2>4. LoopInv'
      BY <1>1, <1>2, <1>4, LoopKept DEF TakeLine, vars, bounds, Time
    <2>5. ObserverInv'
      <3>1. stream' \in BOOLEAN /\ change' \in BOOLEAN
        BY <1>4 DEF TakeLine, DaemonInv, ObserverInv
      <3>2. /\ socket' = [up |-> socket.up, told |-> socket.told, epoch |-> socket.epoch,
                         lines |-> Tail(socket.lines)]
            /\ socket.up \in BOOLEAN /\ socket.told \in BOOLEAN /\ socket.epoch \in Nat
        BY <1>4 DEF TakeLine, DaemonInv, ObserverInv, Connection
      <3>3. /\ Tail(socket.lines) \in Seq(Line) /\ Len(Tail(socket.lines)) = Len(socket.lines) - 1
            /\ Len(socket.lines) \in Nat
        BY <2>1
      <3>4. socket' \in Connection
        BY <3>2, <3>3 DEF Connection
      <3>5. /\ Len(socket.lines) <= IF socket.up THEN 2 ELSE 3
            /\ socket.epoch <= IF socket.up THEN drops + 1 ELSE drops
        BY DEF DaemonInv, ObserverInv
      <3>6. /\ Len(socket'.lines) <= IF socket'.up THEN 2 ELSE 3
            /\ socket'.epoch <= IF socket'.up THEN drops + 1 ELSE drops
        BY <3>2, <3>3, <3>5
      <3> QED
        BY <1>1, <3>1, <3>4, <3>6 DEF ObserverInv, inputs
    <2> QED
      BY <1>1, <1>2, <2>3, <2>4, <2>5 DEF DaemonInv
  <1>5. CASE TakeChange
    <2>1. Unread("consent", 0, FALSE) \in Past(clock)
      BY <1>2, CoordinatorAssumption DEF Unread, Past, Event, Producer, Epoch
    <2>2. ChannelInv'
      BY <1>1, <1>2, <1>5, <2>1, SenderIs DEF TakeChange, Start, Goroutine, Producer
    <2>3. LoopInv'
      BY <1>1, <1>2, <1>5, LoopKept DEF TakeChange, vars, bounds, Time
    <2>4. ObserverInv'
      <3>1. stream' \in BOOLEAN /\ change' \in BOOLEAN
        BY <1>5 DEF TakeChange, DaemonInv, ObserverInv
      <3> QED
        BY <1>1, <1>2, <1>5, <3>1, ObserverKept DEF TakeChange, inputs
    <2> QED
      BY <1>1, <1>2, <2>2, <2>3, <2>4 DEF DaemonInv
  <1>6. CASE Fire
    <2>1. timer \in Armed
      BY <1>6 DEF Fire, DaemonInv, LoopInv
    <2>2. Unread(timer.producer, timer.epoch, FALSE) \in Past(clock)
      BY <1>2, <2>1 DEF Unread, Past, Event, Armed
    <2>3. ChannelInv'
      BY <1>1, <1>2, <1>6, <2>2, SenderIs DEF Fire, Start, Goroutine
    <2>4. LoopInv'
      BY <1>1, <1>6 DEF Fire, DaemonInv, LoopInv, vars, bounds, TimerMeansStabilizing
    <2>5. ObserverInv'
      <3>1. stream' \in BOOLEAN /\ change' \in BOOLEAN
        BY <1>6 DEF Fire, observer, DaemonInv, ObserverInv
      <3> QED
        BY <1>1, <1>2, <1>6, <3>1, ObserverKept DEF Fire, inputs, observer
    <2> QED
      BY <1>1, <1>2, <2>3, <2>4, <2>5 DEF DaemonInv
  <1> QED
    BY <1>4, <1>5, <1>6

\* Goroutines that read and send.
LEMMA SendStep ==
    ASSUME DaemonInv, NEW g \in Goroutine, Read(g) \/ ReadFails(g) \/ Send(g)
    PROVE  DaemonInv'
  <1>1. UNCHANGED <<vars, observer, loop, world, flips>> /\ IInv'
    BY StepKeepsIInv DEF Read, ReadFails, Send, inputs, DaemonInv
  <1>2. /\ clock \in Time /\ clock \in 1 .. clock /\ clock' = clock
        /\ drops \in 0 .. MaxDrops /\ faults \in Nat /\ world \in Rule
    BY <1>1 DEF DaemonInv, InputsInv, LoopInv, vars, bounds, IInv, TypeOK, Time
  <1>3. drops' \in 0 .. MaxDrops /\ drops' >= drops
    BY <1>2, CoordinatorAssumption DEF Read, ReadFails, Send, inputs
  <1>4. InputsInv'
    BY <1>1, <1>3 DEF DaemonInv, InputsInv
  <1>5. LoopInv'
    BY <1>1, <1>2, LoopKept DEF vars, bounds, Time
  <1>6. ObserverInv'
    <2>1. stream' \in BOOLEAN /\ change' \in BOOLEAN
      BY <1>1 DEF observer, DaemonInv, ObserverInv
    <2> QED
      BY <1>1, <1>3, <2>1, ObserverKept DEF observer
  <1>7. ChannelInv'
    <2>1. sender[g] \in Past(clock) \cup {None}
      BY DEF DaemonInv, ChannelInv
    <2>2. CASE Send(g)
      <3>1. /\ sender[g] \in Sent(clock) /\ Len(queue) < QueueSize
            /\ queue' = Append(queue, sender[g]) /\ sender' = [sender EXCEPT ![g] = None]
        BY <2>1, <2>2 DEF Send, Sent
      <3>2. queue' \in Seq(Sent(clock)) /\ Len(queue') = Len(queue) + 1 /\ Len(queue) \in Nat
        BY <3>1 DEF DaemonInv, ChannelInv
      <3>3. sender' \in [Goroutine -> Past(clock) \cup {None}]
        BY <3>1 DEF DaemonInv, ChannelInv
      <3> QED
        BY <1>2, <3>1, <3>2, <3>3, CoordinatorAssumption DEF ChannelInv
    <2>3. ASSUME NEW seen \in Rule \cup {"unavailable"}, Answer(g, seen), queue' = queue
          PROVE  ChannelInv'
      <3>1. [sender[g] EXCEPT !.seen = seen, !.at = clock] \in Past(clock)
        BY <1>2, <2>1, <2>3 DEF Answer, Past, Event
      <3>2. PICK event \in Past(clock) \cup {None} : sender' = [sender EXCEPT ![g] = event]
        <4>1. CASE g = "consent" /\ seen = "unavailable"
          BY <2>3, <4>1 DEF Answer
        <4>2. CASE ~(g = "consent" /\ seen = "unavailable")
          <5>1. sender' = [sender EXCEPT ![g] = [sender[g] EXCEPT !.seen = seen, !.at = clock]]
            BY <2>3, <4>2 DEF Answer
          <5> QED
            BY <3>1, <5>1
        <4> QED
          BY <4>1, <4>2
      <3> QED
        BY <1>2, <2>3, <3>2, SenderIs
    <2>4. CASE Read(g)
      BY <1>2, <2>3, <2>4 DEF Read
    <2>5. CASE ReadFails(g)
      BY <2>3, <2>5 DEF ReadFails
    <2> QED
      BY <2>2, <2>4, <2>5
  <1> QED
    BY <1>1, <1>4, <1>5, <1>6, <1>7 DEF DaemonInv

\* What the loop hands to the runner is an observation.
LEMMA ReceiveStep == ASSUME DaemonInv, Receive PROVE DaemonInv'
  <1> DEFINE event == Head(queue)
             pending == IF Renews(event) THEN renewed \cup {event.producer} ELSE renewed
  <1>1. /\ queue # <<>> /\ runner[Me] = None /\ timer' = None /\ queue' = Tail(queue)
        /\ UNCHANGED <<observer, sender, inputs>>
        /\ source' = [source EXCEPT ![event.producer] = event.epoch]
        /\ current' = [producer |-> event.producer, epoch |-> event.epoch]
        /\ renewed' \in {pending, pending \ {event.producer}}
        /\ \/ UNCHANGED vars
           \/ Handle(Me, Observed(event), event.producer \in pending)
    BY DEF Receive, Take
  <1>2. queue \in Seq(Sent(clock)) /\ event \in Sent(clock)
    BY <1>1 DEF DaemonInv, ChannelInv
  <1>3. /\ event \in Event /\ event.seen \in Rule \cup {"unavailable"}
        /\ event.producer \in Producer /\ event.epoch \in Epoch
    BY <1>2 DEF Sent, Past, Event
  <1>4. Observed(event) \in Observation
    BY <1>3 DEF Observed, Observation, Event
  <1> HIDE DEF event, pending
  <1>5. IInv'
    <2>1. CASE UNCHANGED vars
      BY <2>1, StepKeepsIInv DEF DaemonInv
    <2>2. ASSUME NEW new \in BOOLEAN, Handle(Me, Observed(event), new)
          PROVE  IInv'
      BY <1>4, <2>2, HandleStep, CoordinatorAssumption DEF DaemonInv
    <2>3. (event.producer \in pending) \in BOOLEAN
      OBVIOUS
    <2> QED
      BY <1>1, <2>1, <2>2, <2>3
  <1>6. ChannelInv'
    <2>1. queue' \in Seq(Sent(clock)) /\ clock' = clock /\ Len(queue') = Len(queue) - 1 /\ Len(queue) \in Nat
      BY <1>1, <1>2 DEF Handle, vars, bounds
    <2> QED
      BY <1>1, <2>1, CoordinatorAssumption DEF DaemonInv, ChannelInv
  <1>7. ObserverInv'
    <2>1. stream' \in BOOLEAN /\ change' \in BOOLEAN /\ drops \in Nat
      BY <1>1 DEF observer, DaemonInv, ObserverInv, InputsInv
    <2> QED
      BY <1>1, <2>1, ObserverKept DEF observer, inputs
  <1>8. InputsInv'
    BY <1>1 DEF inputs, DaemonInv, InputsInv
  <1>9. LoopInv'
    <2>1. /\ current' \in [producer : Producer, epoch : Epoch] /\ source' \in [Producer -> Epoch \cup {None}]
          /\ renewed' \subseteq Producer
      BY <1>1, <1>3 DEF DaemonInv, LoopInv, pending
    <2>2. clock' = clock /\ clock > 0 /\ (runner'[Me] # None => runner'[Me].now = clock)
      BY <1>1, CoordinatorAssumption DEF vars, Handle, bounds, DaemonInv, LoopInv, IInv, TypeOK
    <2> QED
      BY <1>1, <2>1, <2>2 DEF LoopInv, TimerMeansStabilizing
  <1> QED
    BY <1>5, <1>6, <1>7, <1>8, <1>9 DEF DaemonInv

\* A decision arms the timer only for a stability that it began or found.
LEMMA JudgeStep == ASSUME DaemonInv, Judge PROVE DaemonInv'
  <1>1. UNCHANGED <<observer, sender, queue, current, source, renewed, inputs, clock>>
    BY DEF Judge, Evaluate, bounds
  <1>2. IInv' /\ Me \in Session /\ Evaluate(Me)
    BY DecideStep, CoordinatorAssumption DEF Judge, Decide, DaemonInv
  <1>3. ChannelInv' /\ InputsInv' /\ ObserverInv'
    BY <1>1 DEF DaemonInv, ChannelInv, InputsInv, inputs, ObserverInv, observer
  <1>4. /\ runner[Me] # None /\ runner[Me].now > 0 /\ runner[Me].event.seen \in Rule
        /\ current \in [producer : Producer, epoch : Epoch] /\ timer = None /\ clock \in Nat
    BY <1>2, EngineOf DEF Evaluate, At, DaemonInv, LoopInv
  <1>5. LoopInv'
    <2>1. CASE Reason(Me) = "STABILIZING"
      <3>1. runner'[Me] = None
        BY <1>2, <2>1 DEF Evaluate, Return, DaemonInv, IInv, TypeOK
      <3>2. timer' \in Armed
        <4>1. clock + Hysteresis \in Nat
          BY <1>4, PolicyAssumption
        <4> QED
          BY <1>4, <2>1, <4>1 DEF Judge, Armed
      <3>3. engine'[Me].stable[runner[Me].event.seen] # 0
        <4>1. engine'[Me] = Judged(Me, "STABILIZING")
          BY <1>2, <2>1 DEF Evaluate, DaemonInv, IInv, TypeOK
        <4> QED
          BY <1>4, <4>1 DEF Judged
      <3> QED
        BY <1>1, <1>4, <3>1, <3>2, <3>3 DEF DaemonInv, LoopInv, TimerMeansStabilizing
    <2>2. CASE Reason(Me) # "STABILIZING"
      <3>1. timer' = None
        BY <1>4, <2>2 DEF Judge
      <3>2. runner'[Me] # None => runner'[Me].now = runner[Me].now
        BY <1>2 DEF Evaluate, Goto, Return, DaemonInv, IInv, TypeOK, Task
      <3> QED
        BY <1>1, <1>4, <3>1, <3>2 DEF DaemonInv, LoopInv, TimerMeansStabilizing
    <2> QED
      BY <2>1, <2>2
  <1> QED
    BY <1>2, <1>3, <1>5 DEF DaemonInv

\* Everything else the runner, the owner and the session do, and time.
LEMMA RunnerStep ==
    ASSUME DaemonInv, Consult \/ Carry \/ Consent \/ Pass
    PROVE  DaemonInv'
  <1>1. UNCHANGED <<socket, stream, sender, queue, loop, inputs>> /\ change' \in BOOLEAN
    BY DEF Consult, Carry, Consent, Pass, observer, DaemonInv, ObserverInv
  <1>2. IInv' /\ Me \in Session
    BY DecideStep, MutateStep, OwnerStep, UserStep, CoordinatorAssumption
    DEF Consult, Carry, Consent, Pass, Decide, User, DaemonInv
  <1>3. InputsInv'
    BY <1>1 DEF DaemonInv, InputsInv, inputs
  <1>4. ObserverInv'
    <2>1. stream' \in BOOLEAN /\ drops \in Nat
      BY <1>1 DEF DaemonInv, ObserverInv, InputsInv
    <2> QED
      BY <1>1, <2>1, ObserverKept DEF inputs
  <1>5. clock' \in {clock, clock + 1} /\ engine' = engine
    <2>1. CASE Consult
      BY <2>1 DEF Consult, ReadConfig, ReadConfigFails, ReadOwner, ReadOwnerFails, bounds
    <2>2. CASE Carry /\ Mutate(Me)
      BY <2>2 DEF Mutate, Recheck, RecheckFails, Intent, IntentFails, Execute, Reply, ReplyLost, Readback,
                  ReadbackFails, Record, RecordFails, bounds
    <2>3. CASE Consent \/ Pass \/ (Carry /\ Owner)
      BY <2>3 DEF Consent, Grant, Withdraw, Ask, Pass, Tick, Owner, Act, Reject, OrphanExits, bounds
    <2> QED
      BY <2>1, <2>2, <2>3 DEF Carry
  <1>6. runner'[Me] # None => runner[Me] # None /\ runner'[Me].now = runner[Me].now
    <2>1. CASE Consult
      BY <1>2, <2>1 DEF Consult, ReadConfig, ReadConfigFails, ReadOwner, ReadOwnerFails, At, Goto, Return,
                        DaemonInv, IInv, TypeOK, Task
    <2>2. CASE Carry /\ Mutate(Me)
      BY <1>2, <2>2 DEF Mutate, Recheck, RecheckFails, Intent, IntentFails, Execute, Reply,
         ReplyLost, Readback, ReadbackFails, Record, RecordFails, At, Goto, Return, DaemonInv, IInv,
         TypeOK, Task
    <2>3. CASE Consent \/ Pass \/ (Carry /\ Owner)
      BY <2>3 DEF Consent, Grant, Withdraw, Ask, Pass, Tick, Carry, Owner, Act, Reject, OrphanExits
    <2> QED
      BY <2>1, <2>2, <2>3 DEF Carry
  <1>7. LoopInv'
    <2>1. clock \in Nat
      BY DEF DaemonInv, IInv, TypeOK, Time
    <2> QED
      BY <1>1, <1>5, <1>6, <2>1 DEF DaemonInv, LoopInv, loop, TimerMeansStabilizing
  <1> QED
    BY <1>1, <1>2, <1>3, <1>4, <1>5, <1>7, ChannelKept DEF DaemonInv

LEMMA RestartStep == ASSUME DaemonInv, Restart PROVE DaemonInv'
  <1> USE DEF Restart
  <1>1. IInv' /\ Me \in Session
    BY CrashStep, CoordinatorAssumption DEF DaemonInv
  <1>2. InputsInv'
    BY DEF DaemonInv, InputsInv, inputs
  <1>3. ObserverInv'
    <2>1. <<>> \in Seq(Line) /\ Len(<<>>) = 0 /\ drops' \in Nat
      BY <1>2 DEF InputsInv
    <2>2. socket' \in Connection /\ ~socket'.up /\ socket'.epoch = 0 /\ socket'.lines = <<>>
      BY <2>1 DEF Connection
    <2>3. stream' \in BOOLEAN /\ change' \in BOOLEAN
      OBVIOUS
    <2> QED
      BY <2>1, <2>2, <2>3 DEF ObserverInv
  <1>4. ChannelInv'
    BY CoordinatorAssumption DEF ChannelInv
  <1>5. LoopInv'
    BY <1>1 DEF Crash, Return, DaemonInv, LoopInv, IInv, TypeOK, TimerMeansStabilizing
  <1> QED
    BY <1>1, <1>2, <1>3, <1>4, <1>5 DEF DaemonInv

LEMMA StepKeepsDaemon == DaemonInv /\ [CoordinatorNext]_allVars => DaemonInv'
  <1> SUFFICES ASSUME DaemonInv, [CoordinatorNext]_allVars PROVE DaemonInv'
    OBVIOUS
  <1>1. CASE UNCHANGED allVars
    <2>1. IInv'
      BY <1>1, StepKeepsIInv DEF allVars, DaemonInv
    <2> QED
      BY <1>1, <2>1 DEF allVars, vars, observer, loop, inputs, DaemonInv, ObserverInv, InputsInv, ChannelInv,
                        LoopInv, bounds, TimerMeansStabilizing
  <1>2. CASE Work
    BY <1>2, ObserverStep, StartStep, SendStep, ReceiveStep, JudgeStep, RunnerStep DEF Work
  <1> QED
    BY <1>1, <1>2, ObserverStep, RunnerStep, RestartStep DEF CoordinatorNext

\* For any capacity of the channel, any number of lost connections, changes of
\* the window and failures: a timer runs only while a rule is stabilising, so
\* what ends the stability ends the timer (Serve(), deleteTimer), and nothing
\* takes more than it holds.
THEOREM TimersStabilize == CoordinatorSpec => []CoordinatorInv
  <1> QED
    BY InitDaemon, StepKeepsDaemon, DaemonHolds, PTL DEF CoordinatorSpec

-----------------------------------------------------------------------------
\* Every step of the coordinator is one of its runner, of the owner, of the user
\* or of the time, or none of theirs; the observations it hands over are not
\* from the future.
Acts ==
    \/ Decide(Me) \/ Mutate(Me) \/ Crash(Me) \/ Owner \/ User \/ Tick
    \/ \E event \in Observation, new \in BOOLEAN : event.at \in 1 .. clock /\ Handle(Me, event, new)

LEMMA CoordinatorActs == ASSUME DaemonInv, [CoordinatorNext]_allVars PROVE Acts \/ UNCHANGED vars
  <1>1. CASE Receive
    <2> DEFINE event == Head(queue)
               new == event.producer \in (IF Renews(event) THEN renewed \cup {event.producer} ELSE renewed)
    <2>1. UNCHANGED vars \/ Handle(Me, Observed(event), new)
      BY <1>1 DEF Receive, Take
    <2>2. event \in Sent(clock)
      BY <1>1 DEF Receive, Take, DaemonInv, ChannelInv
    <2> HIDE DEF event
    <2>3. Observed(event) \in Observation /\ Observed(event).at \in 1 .. clock
      BY <2>2 DEF Observed, Observation, Sent, Past, Event
    <2>4. new \in BOOLEAN
      OBVIOUS
    <2> HIDE DEF new
    <2> QED
      BY <2>1, <2>3, <2>4 DEF Acts
  <1>2. CASE Judge \/ Consult \/ Carry \/ Consent \/ Pass \/ Restart
    BY <1>2, CoordinatorAssumption DEF Judge, Consult, Carry, Consent, Pass, Restart, Decide, User, Acts
  <1>3. CASE \/ Connect \/ DialFails \/ Drop \/ Flip \/ TakeLine \/ TakeChange \/ Fire
             \/ \E g \in Goroutine : Read(g) \/ ReadFails(g) \/ Send(g)
    BY <1>3 DEF Connect, DialFails, Drop, Flip, TakeLine, TakeChange, Fire, Read, ReadFails, Send
  <1> QED
    BY <1>1, <1>2, <1>3 DEF CoordinatorNext, Work, allVars

\* What is proved of the policy runner holds in the daemon: its queue, timer and
\* goroutines hand the runner nothing but observations that Handle() may meet.
THEOREM CoordinatorIsARunner == ASSUME 0 .. MaxClock \subseteq Ages PROVE CoordinatorSpec => Spec
  <1>1. ASSUME DaemonInv, [CoordinatorNext]_allVars PROVE [Next]_vars
    <2>1. ASSUME NEW event \in Observation, NEW new \in BOOLEAN, event.at \in 1 .. clock,
                 Handle(Me, event, new)
          PROVE  Observe(Me)
      <3>1. clock - event.at \in Ages /\ event.at > 0
        BY <1>1, <2>1, PolicyAssumption DEF DaemonInv, IInv, TypeOK, Time, Observation
      <3> QED
        BY <2>1, <3>1 DEF Observe
    <2> QED
      BY <1>1, <2>1, CoordinatorActs, CoordinatorAssumption DEF Acts, Next
  <1>2. CoordinatorInit => Init
    BY DEF CoordinatorInit
  <1> QED
    BY <1>1, <1>2, InitDaemon, StepKeepsDaemon, PTL DEF CoordinatorSpec, Spec

\* In the daemon, too, and whatever of its own is lost, late or restarted: a
\* rule acts only after an undisturbed hysteresis.
THEOREM DaemonActsUndisturbed == ASSUME "config" \notin Faults PROVE CoordinatorSpec => []Undisturbed
  <1>1. ASSUME DaemonInv, QuietInv, [CoordinatorNext]_allVars PROVE QuietInv'
    <2>1. IInv'
      BY <1>1, StepKeepsDaemon DEF DaemonInv
    <2>2. CASE UNCHANGED vars
      BY <1>1, <2>2, StepKeepsQuiet
    <2>3. \A q \in Session : Quiet(q)' \/ UNCHANGED vars
      BY <1>1, CoordinatorActs, HandleQuiet, DecideQuiet, MutateQuiet, CrashQuiet, OutsideQuiet,
         CoordinatorAssumption DEF Acts
    <2> QED
      BY <2>1, <2>2, <2>3 DEF QuietInv
  <1>2. CoordinatorInit => QuietInv
    BY InitQuiet DEF CoordinatorInit
  <1>3. QuietInv => Undisturbed
    BY DEF QuietInv, Quiet, Undisturbed
  <1> QED
    BY <1>1, <1>2, <1>3, InitDaemon, StepKeepsDaemon, PTL DEF CoordinatorSpec

=============================================================================
