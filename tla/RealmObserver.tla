---------------------------- MODULE RealmObserver ----------------------------
(***************************************************************************)
(* The observer of one realm (agent-realms, observer.py and auth.py): a    *)
(* process that serves frames of one session to viewers.  A viewer gets a  *)
(* launch file with a one-use ticket from the control socket and redeems   *)
(* the ticket for a session token over HTTP.                               *)
(*                                                                         *)
(* Each request has a thread of its own.  The main thread looks every      *)
(* second at the launch files, at the identity of the realm and at the     *)
(* last activity, and shuts down.  Two plain locks, of the launch files    *)
(* and of the store of credentials, are shared by all of them; a request   *)
(* holds one for one step.  For the main thread being inside a lock is a   *)
(* location: a signal handler runs on that thread and takes both again.    *)
(***************************************************************************)
EXTENDS Naturals, FiniteSets

CONSTANTS
    None,
    Proc,          \* observer processes, each started once
    Launch,        \* launch files and what becomes of them
    ShortIdle,     \* --idle-timeout is shorter than the TTL of a ticket
    MaxSignals,    \* bound on SIGTERM and SIGINT
    MaxRuns        \* bound on the sessions of the realm

ASSUME ObserverAssumption ==
    /\ None \notin Nat \cup Proc
    /\ ShortIdle \in BOOLEAN
    /\ {MaxSignals, MaxRuns} \subseteq Nat

VARIABLES
    run,        \* the session of the realm: its scope and start time
    up,         \* that session is alive, and running or paused
    flock,      \* who holds observers/<realm>/.lock
    socket,     \* whose control socket is on disk, dead or not
    main,       \* the main threads
    worker,     \* a control request or a GET of each process that revokes
    idle,       \* the processes without activity for idle_timeout
    launch,
    signals

vars == <<run, up, flock, socket, main, worker, idle, launch, signals>>

Session == 1 .. MaxRuns

\* _realm_identity()
identity == IF up THEN run ELSE None

\* Inside _launch_lock and inside CredentialStore._lock.
InLaunch == {"expire", "pending", "files"}
InStore == {"activity", "active", "store"}

Location == InLaunch \cup InStore \cup
            {"none", "lock", "observe", "bind", "wait", "identity", "unlink", "release",
             "hung", "stuck", "ended", "killed"}

\* back: where shutdown() returns to; of a stuck thread, the step of
\* shutdown() it waits in.  quiet: the activity watch_once() has read.  known: the viewers
\* and the launch files handed out that were there then.
Main == [at : Location, back : Location, of : Session \cup {None}, bound : BOOLEAN,
         stopping : BOOLEAN, quiet : BOOLEAN, known : SUBSET Launch]

Fresh == [at |-> "none", back |-> "none", of |-> None, bound |-> FALSE, stopping |-> FALSE,
          quiet |-> FALSE, known |-> {}]

\* at: how far the requests of this launch are.  due: its file's deadline has passed.
Viewer ==
    [at : {"none", "issued", "written", "ready", "redeemed", "viewing", "authorized"},
     by : Proc \cup {None}, ticket : BOOLEAN, session : BOOLEAN, file : BOOLEAN,
     noted : BOOLEAN, due : BOOLEAN]

TypeOK ==
    /\ run \in 0 .. MaxRuns
    /\ up \in BOOLEAN
    /\ flock \in Proc \cup {None}
    /\ socket \in Proc \cup {None}
    /\ main \in [Proc -> Main]
    /\ \A p \in Proc : main[p].bound => main[p].of # None
    /\ worker \in [Proc -> {"idle", "revoke", "shutdown"}]
    /\ idle \subseteq Proc
    /\ launch \in [Launch -> Viewer]
    /\ signals \in 0 .. MaxSignals

Init ==
    /\ run = 0
    /\ up = FALSE
    /\ flock = None
    /\ socket = None
    /\ main = [p \in Proc |-> Fresh]
    /\ worker = [p \in Proc |-> "idle"]
    /\ idle = {}
    /\ launch = [l \in Launch |-> [at |-> "none", by |-> None, ticket |-> FALSE, session |-> FALSE,
                                   file |-> FALSE, noted |-> FALSE, due |-> FALSE]]
    /\ signals = 0

-----------------------------------------------------------------------------
realm == <<run, up>>
disk == <<flock, socket>>
requests == <<worker, idle, launch>>

At(p, location) == main[p].at = location

Goto(p, location) == main' = [main EXCEPT ![p].at = location]

\* shutdown(), to return to a location.
Shutdown(p, location) == main' = [main EXCEPT ![p].at = "files", ![p].back = location]

Runs(p) == main[p].at \notin {"none", "ended", "killed"}

Holds(p, lock) == main[p].at \in lock \/ (At(p, "stuck") /\ main[p].back \in lock)

\* The threads that serve requests, which end with the process.
Serves(p) == Runs(p) /\ main[p].bound

\* What still answers a connection.
Accepts(p) == Serves(p) /\ ~At(p, "release")

Mine(p) == {l \in Launch : launch[l].by = p}

Sessions(p) == {l \in Mine(p) : launch[l].session}

\* _drop_launch_files()
Dropped(p, dropped) ==
    [l \in Launch |-> IF l \in Mine(p) \cap dropped /\ launch[l].noted
                      THEN [launch[l] EXCEPT !.file = FALSE, !.noted = FALSE, !.due = FALSE]
                      ELSE launch[l]]

\* revoke_all()
Cleared(p) ==
    [l \in Launch |-> IF l \in Mine(p)
                      THEN [launch[l] EXCEPT !.ticket = FALSE, !.session = FALSE] ELSE launch[l]]

\* What is left of its launches when a process ends: files.
Ended(p) ==
    [l \in Launch |-> IF l \in Mine(p)
                      THEN [launch[l] EXCEPT !.at = "viewing", !.ticket = FALSE, !.session = FALSE,
                                             !.noted = FALSE, !.due = FALSE]
                      ELSE launch[l]]

-----------------------------------------------------------------------------
\* serve()
Spawn(p) ==
    /\ At(p, "none")
    /\ Goto(p, "lock")
    /\ UNCHANGED <<realm, disk, requests, signals>>

TakeLock(p) ==
    /\ At(p, "lock")
    /\ flock = None
    /\ flock' = p
    /\ Goto(p, "observe")
    /\ UNCHANGED <<realm, socket, requests, signals>>

\* Mutant of LockRefused: the refused process runs the end of serve(), too.
LockRefusedTidies(p) ==
    /\ At(p, "lock")
    /\ flock # None
    /\ socket' = None
    /\ Goto(p, "ended")
    /\ UNCHANGED <<realm, flock, requests, signals>>

LockRefused(p) ==
    /\ At(p, "lock")
    /\ flock # None
    /\ Goto(p, "ended")
    /\ UNCHANGED <<realm, disk, requests, signals>>

\* Observer(): without an active session the process ends.
Observe(p) ==
    /\ At(p, "observe")
    /\ main' = [main EXCEPT ![p].at = IF identity = None THEN "unlink" ELSE "bind", ![p].of = identity]
    /\ UNCHANGED <<realm, disk, requests, signals>>

Bind(p) ==
    /\ At(p, "bind")
    /\ socket' = p
    /\ main' = [main EXCEPT ![p].at = "wait", ![p].bound = TRUE]
    /\ UNCHANGED <<realm, flock, requests, signals>>

\* Without a control socket the process ends.  Without its port it closes the
\* control server, and waits for a loop to end that no thread has begun.
BindFails(p) ==
    /\ At(p, "bind")
    /\ \/ socket' = None /\ Shutdown(p, "unlink")
       \/ socket' = p /\ Shutdown(p, "hung")
    /\ UNCHANGED <<realm, flock, requests, signals>>

Unlink(p) ==
    /\ At(p, "unlink")
    /\ socket' = None
    /\ Goto(p, "release")
    /\ UNCHANGED <<realm, flock, requests, signals>>

\* The daemon threads end with the process, too.
Release(p) ==
    /\ At(p, "release")
    /\ flock' = None
    /\ main' = [main EXCEPT ![p] = [Fresh EXCEPT !.at = "ended"]]
    /\ worker' = [worker EXCEPT ![p] = "idle"]
    /\ launch' = Ended(p)
    /\ idle' = idle \ {p}
    /\ UNCHANGED <<realm, socket, signals>>

\* The kernel frees the lock; the socket and the launch files stay.
Killed(p) ==
    /\ Runs(p)
    /\ flock' = IF flock = p THEN None ELSE flock
    /\ main' = [main EXCEPT ![p] = [Fresh EXCEPT !.at = "killed"]]
    /\ worker' = [worker EXCEPT ![p] = "idle"]
    /\ launch' = Ended(p)
    /\ idle' = idle \ {p}
    /\ UNCHANGED <<realm, socket, signals>>

-----------------------------------------------------------------------------
\* watch_once()
Wake(p) ==
    /\ At(p, "wait")
    /\ IF main[p].stopping THEN Shutdown(p, "unlink") ELSE Goto(p, "expire")
    /\ UNCHANGED <<realm, disk, requests, signals>>

DropExpired(p) ==
    /\ At(p, "expire")
    /\ launch' = Dropped(p, {l \in Launch : launch[l].due})
    /\ Goto(p, "identity")
    /\ UNCHANGED <<realm, disk, worker, idle, signals>>

\* Mutant of CheckIdentity: a realm that is up is taken for the observer's.
CheckIdentityUp(p) ==
    /\ At(p, "identity")
    /\ IF identity # None THEN Goto(p, "activity") ELSE Shutdown(p, "wait")
    /\ UNCHANGED <<realm, disk, requests, signals>>

CheckIdentity(p) ==
    /\ At(p, "identity")
    /\ IF identity = main[p].of THEN Goto(p, "activity") ELSE Shutdown(p, "wait")
    /\ UNCHANGED <<realm, disk, requests, signals>>

\* Mutant of Quiet: only the sessions' activity counts, not the launches'.
QuietSessions(p) == p \in idle \/ Sessions(p) = {}

Quiet(p) == p \in idle

ReadActivity(p) ==
    /\ At(p, "activity")
    /\ main' = [main EXCEPT ![p].at = "active", ![p].quiet = Quiet(p), ![p].known =
                    {l \in Mine(p) : launch[l].session \/ (launch[l].ticket /\ launch[l].at = "ready")}]
    /\ UNCHANGED <<realm, disk, requests, signals>>

Looked(p) == [main[p] EXCEPT !.at = "wait", !.quiet = FALSE, !.known = {}]

CountSessions(p) ==
    /\ At(p, "active")
    /\ main' = IF Sessions(p) = {} THEN [main EXCEPT ![p].at = "pending"]
                                   ELSE [main EXCEPT ![p] = Looked(p)]
    /\ UNCHANGED <<realm, disk, requests, signals>>

CountLaunches(p) ==
    /\ At(p, "pending")
    /\ main' = [main EXCEPT ![p] =
                    IF main[p].quiet /\ {l \in Mine(p) : launch[l].noted} = {}
                    THEN [Looked(p) EXCEPT !.at = "files", !.back = "wait"] ELSE Looked(p)]
    /\ UNCHANGED <<realm, disk, requests, signals>>

-----------------------------------------------------------------------------
\* Mutant of DropFiles: the files are left to expire.
DropFilesExpired(p) ==
    /\ At(p, "files")
    /\ launch' = Dropped(p, {l \in Launch : launch[l].due})
    /\ Goto(p, "store")
    /\ UNCHANGED <<realm, disk, worker, idle, signals>>

\* shutdown()
DropFiles(p) ==
    /\ At(p, "files")
    /\ launch' = Dropped(p, Launch)
    /\ Goto(p, "store")
    /\ UNCHANGED <<realm, disk, worker, idle, signals>>

RevokeAll(p) ==
    /\ At(p, "store")
    /\ launch' = Cleared(p)
    /\ main' = [main EXCEPT ![p].at = main[p].back, ![p].back = "none", ![p].stopping = TRUE]
    /\ UNCHANGED <<realm, disk, worker, idle, signals>>

\* The handler of SIGTERM and SIGINT runs on the main thread and calls
\* shutdown(): over a lock that thread holds already, it waits for itself, with
\* the files dropped if the lock is the second of the two.
Signal(p) ==
    /\ signals < MaxSignals
    /\ signals' = signals + 1
    /\ \/ /\ main[p].at \in InLaunch
          /\ main' = [main EXCEPT ![p] = [Looked(p) EXCEPT !.at = "stuck", !.back = "files"]]
          /\ UNCHANGED launch
       \/ /\ main[p].at \in InStore
          /\ main' = [main EXCEPT ![p] = [Looked(p) EXCEPT !.at = "stuck", !.back = "store"]]
          /\ launch' = Dropped(p, Launch)
       \/ /\ main[p].at \in {"bind", "wait", "identity", "unlink", "hung"}
          /\ Shutdown(p, main[p].at)
          /\ UNCHANGED launch
    /\ UNCHANGED <<realm, disk, worker, idle>>

-----------------------------------------------------------------------------
\* The control socket: launch, revoke and stop
\* issue_launch_file(): the ticket, the file, and the entry of the file.
Issue(l, p) ==
    /\ launch[l].at = "none"
    /\ Accepts(p)
    /\ ~Holds(p, InStore)
    /\ launch' = [launch EXCEPT ![l].at = "issued", ![l].by = p, ![l].ticket = TRUE]
    /\ UNCHANGED <<realm, disk, main, worker, idle, signals>>

Server(l) == launch[l].by

Thread(l, at) == launch[l].at = at /\ Serves(Server(l))

Write(l) ==
    /\ Thread(l, "issued")
    /\ launch' = [launch EXCEPT ![l].at = "written", ![l].file = TRUE]
    /\ idle' = idle \ {Server(l)}
    /\ UNCHANGED <<realm, disk, main, worker, signals>>

Note(l) ==
    /\ Thread(l, "written")
    /\ ~Holds(Server(l), InLaunch)
    /\ launch' = [launch EXCEPT ![l].at = "ready", ![l].noted = TRUE]
    /\ UNCHANGED <<realm, disk, main, worker, idle, signals>>

\* revoke, or stop, which `agent-realm stop' sends as well.
RevokeFiles(p) ==
    /\ Accepts(p)
    /\ worker[p] = "idle"
    /\ ~Holds(p, InLaunch)
    /\ launch' = Dropped(p, Launch)
    /\ \E request \in {"revoke", "shutdown"} : worker' = [worker EXCEPT ![p] = request]
    /\ UNCHANGED <<realm, disk, main, idle, signals>>

RevokeStore(p) ==
    /\ Serves(p)
    /\ worker[p] # "idle"
    /\ ~Holds(p, InStore)
    /\ launch' = Cleared(p)
    /\ main' = IF worker[p] = "shutdown" THEN [main EXCEPT ![p].stopping = TRUE] ELSE main
    /\ worker' = [worker EXCEPT ![p] = "idle"]
    /\ UNCHANGED <<realm, disk, idle, signals>>

-----------------------------------------------------------------------------
\* Mutant of Redeem: the ticket in the file is compared with nothing.
RedeemFile(l) ==
    /\ Thread(l, "ready")
    /\ launch[l].file
    /\ Accepts(Server(l))
    /\ ~Holds(Server(l), InStore)
    /\ launch' = [launch EXCEPT ![l].at = "redeemed", ![l].ticket = FALSE, ![l].session = TRUE]
    /\ idle' = idle \ {Server(l)}
    /\ UNCHANGED <<realm, disk, main, worker, signals>>

\* HTTP
\* POST /api/session: redeem() and redeemed().
Redeem(l) ==
    /\ Thread(l, "ready")
    /\ launch[l].ticket
    /\ Accepts(Server(l))
    /\ ~Holds(Server(l), InStore)
    /\ launch' = [launch EXCEPT ![l].at = "redeemed", ![l].ticket = FALSE, ![l].session = TRUE]
    /\ idle' = idle \ {Server(l)}
    /\ UNCHANGED <<realm, disk, main, worker, signals>>

Redeemed(l) ==
    /\ Thread(l, "redeemed")
    /\ ~Holds(Server(l), InLaunch)
    /\ launch' = [Dropped(Server(l), {l}) EXCEPT ![l].at = "viewing"]
    /\ idle' = idle \ {Server(l)}
    /\ UNCHANGED <<realm, disk, main, worker, signals>>

\* GET /api/frame: authorize(), then frame(), which may find another session.
Authorize(l) ==
    /\ Thread(l, "viewing")
    /\ launch[l].session
    /\ Accepts(Server(l))
    /\ ~Holds(Server(l), InStore)
    /\ launch' = [launch EXCEPT ![l].at = "authorized"]
    /\ idle' = idle \ {Server(l)}
    /\ UNCHANGED <<realm, disk, main, worker, signals>>

Frame(l) ==
    LET p == Server(l) IN
    /\ Thread(l, "authorized")
    /\ \/ /\ identity \in {None, main[p].of}
          /\ launch' = [launch EXCEPT ![l].at = "viewing"]
          /\ UNCHANGED worker
       \/ /\ identity \notin {None, main[p].of}
          /\ worker[p] = "idle"
          /\ ~Holds(p, InLaunch)
          /\ launch' = [Dropped(p, Launch) EXCEPT ![l].at = "viewing"]
          /\ worker' = [worker EXCEPT ![p] = "shutdown"]
    /\ UNCHANGED <<realm, disk, main, idle, signals>>

-----------------------------------------------------------------------------
\* Time and the realm
\* 60 s after the entry of a file; its ticket is a little older.
Expire(l) ==
    /\ launch[l].noted
    /\ ~launch[l].due
    /\ launch' = [launch EXCEPT ![l].ticket = FALSE, ![l].due = TRUE]
    /\ UNCHANGED <<realm, disk, main, worker, idle, signals>>

\* 30 minutes without use, 8 hours, or the oldest as a ninth one begins.
SessionExpires(l) ==
    /\ launch[l].session
    /\ launch' = [launch EXCEPT ![l].session = FALSE]
    /\ UNCHANGED <<realm, disk, main, worker, idle, signals>>

\* A ticket is younger than its TTL, so activity is younger than idle_timeout.
Idles(p) ==
    /\ Serves(p)
    /\ p \notin idle
    /\ ShortIdle \/ \A l \in Mine(p) : ~launch[l].ticket
    /\ idle' = idle \cup {p}
    /\ UNCHANGED <<realm, disk, main, worker, launch, signals>>

SessionBegins ==
    /\ ~up
    /\ run < MaxRuns
    /\ run' = run + 1
    /\ up' = TRUE
    /\ UNCHANGED <<disk, main, requests, signals>>

SessionEnds ==
    /\ up
    /\ up' = FALSE
    /\ UNCHANGED <<run, disk, main, requests, signals>>

\* systemctl answers again, or a transition-error is resumed.
SessionReturns ==
    /\ ~up
    /\ run > 0
    /\ up' = TRUE
    /\ UNCHANGED <<run, disk, main, requests, signals>>

-----------------------------------------------------------------------------
MainStep(p) ==
    \/ TakeLock(p) \/ LockRefused(p) \/ Observe(p) \/ Bind(p) \/ BindFails(p)
    \/ Wake(p) \/ DropExpired(p) \/ CheckIdentity(p) \/ ReadActivity(p)
    \/ CountSessions(p) \/ CountLaunches(p)
    \/ DropFiles(p) \/ RevokeAll(p) \/ Unlink(p) \/ Release(p)

Next ==
    \/ \E p \in Proc : \/ Spawn(p) \/ MainStep(p) \/ Killed(p) \/ Signal(p)
                       \/ RevokeFiles(p) \/ RevokeStore(p) \/ Idles(p)
    \/ \E l \in Launch : \/ \E p \in Proc : Issue(l, p)
                         \/ Write(l) \/ Note(l) \/ Redeem(l) \/ Redeemed(l)
                         \/ Authorize(l) \/ Frame(l) \/ Expire(l) \/ SessionExpires(l)
    \/ SessionBegins \/ SessionEnds \/ SessionReturns

Spec == Init /\ [][Next]_vars

\* The main thread of a process runs, and time passes.
FairSpec ==
    /\ Spec
    /\ \A p \in Proc : WF_vars(MainStep(p))
    /\ \A l \in Launch : WF_vars(Expire(l))

-----------------------------------------------------------------------------
\* An observer that serves has the lock, and the socket on disk is its own,
\* whoever started, was refused or was killed beside it.
SocketIsItsOwn ==
    \A p \in Proc : Accepts(p) => flock = p /\ socket = p

\* A launch whose ticket and session are gone, by a revocation or by time, gets
\* neither back.
RevokedIsFinal ==
    [][\A l \in Launch : launch[l].at # "none" /\ ~launch[l].ticket /\ ~launch[l].session =>
         ~launch'[l].ticket /\ ~launch'[l].session]_vars

\* The watchdog ends an observer for idleness under no viewer, and under no
\* launch file handed out, that was there when it began to look.
IdleEvictsNobody ==
    [][\A p \in Proc : At(p, "pending") /\ main'[p].at = "files" =>
         \A l \in main[p].known : ~launch[l].ticket /\ ~launch[l].session]_vars

\* An observer whose session is over ends, or the session comes back.  Two do not
\* end: one whose main thread a signal has stopped inside a lock, and one that
\* found its port taken, which waits for its own control server.
EndsWithItsSession ==
    \A p \in Proc :
        Runs(p) /\ main[p].of # None /\ identity # main[p].of ~>
            ~Runs(p) \/ main[p].at \in {"stuck", "hung"} \/ identity = main[p].of

Ending(p) == main[p].back = "unlink" \/ main[p].at \in {"unlink", "release"}

\* A launch file that was entered before its observer began to end does not
\* stay on disk, unless the observer was killed or stopped inside a lock.
LaunchFilesCleared ==
    \A l \in Launch : \A p \in Proc :
        launch[l].noted /\ launch[l].by = p /\ Runs(p) /\ ~Ending(p) ~>
            ~launch[l].file \/ main[p].at \in {"stuck", "killed"}
=============================================================================
