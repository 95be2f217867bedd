------------------------- MODULE RealmObserverProofs -------------------------
(***************************************************************************)
(* What an observer guarantees for any number of processes, launches,      *)
(* sessions and signals.                                                   *)
(***************************************************************************)
EXTENDS RealmObserver, TLAPS

\* A session that is up has begun.
Begun == up => run \in Session

\* From the lock on, a main thread has it.
Section == \A p \in Proc : main[p].at \in Location \ {"none", "lock", "ended", "killed"} => flock = p

\* Between bind() and unlink() the socket is that of the process.
OwnSocket ==
    \A p \in Proc : main[p].bound =>
        /\ main[p].at \notin {"none", "lock", "observe", "ended", "killed"}
        /\ main[p].at # "release" => socket = p

\* shutdown() returns to where it can have been called.
ReturnsInside ==
    \A p \in Proc : main[p].at \in {"files", "store"} =>
        main[p].back \in {"bind", "wait", "identity", "unlink", "hung"}

\* Who is about to bind has a session, and no socket yet.
Identified ==
    \A p \in Proc :
        \/ main[p].at = "bind"
        \/ main[p].at \in {"files", "store"} /\ main[p].back = "bind"
        => main[p].of # None /\ ~main[p].bound

IInv == TypeOK /\ Begun /\ Section /\ OwnSocket /\ ReturnsInside /\ Identified

-----------------------------------------------------------------------------
\* The main threads when one of them has moved.
LEMMA MainType ==
    ASSUME TypeOK, NEW p \in Proc, NEW r \in Main, r.bound => r.of # None,
           main' = [main EXCEPT ![p] = r]
    PROVE  main' \in [Proc -> Main] /\ \A q \in Proc : main'[q].bound => main'[q].of # None
  BY DEF TypeOK

LEMMA IdentityType == TypeOK /\ Begun => identity \in Session \cup {None}
  BY DEF TypeOK, Begun, identity

\* The launches when some of them have lost a credential or a file.
LEMMA DroppedType ==
    ASSUME TypeOK, NEW p, NEW dropped
    PROVE  Dropped(p, dropped) \in [Launch -> Viewer]
  BY DEF TypeOK, Dropped, Viewer

LEMMA ClearedType ==
    ASSUME TypeOK, NEW p
    PROVE  Cleared(p) \in [Launch -> Viewer]
  BY DEF TypeOK, Cleared, Viewer

LEMMA EndedType ==
    ASSUME TypeOK, NEW p
    PROVE  Ended(p) \in [Launch -> Viewer]
  BY DEF TypeOK, Ended, Viewer

\* A launch that moved on.
LEMMA LaunchType ==
    ASSUME TypeOK, NEW l \in Launch, NEW r \in Viewer, launch' = [launch EXCEPT ![l] = r]
    PROVE  launch' \in [Launch -> Viewer]
  BY DEF TypeOK

\* A process that has not begun, and one that has ended.
LEMMA FreshType ==
    ASSUME NEW at \in {"none", "ended", "killed"}
    PROVE  /\ [Fresh EXCEPT !.at = at] \in Main
           /\ [Fresh EXCEPT !.at = at].at = at
           /\ [Fresh EXCEPT !.at = at].bound = FALSE
  BY DEF Fresh, Main, Location

LEMMA InitIInv == Init => IInv
  <1> SUFFICES ASSUME Init PROVE IInv
    OBVIOUS
  <1>1. Fresh \in Main /\ Fresh.at = "none" /\ Fresh.bound = FALSE
    BY DEF Fresh, Main, Location
  <1>2. launch \in [Launch -> Viewer]
    BY DEF Init, Viewer
  <1>3. main \in [Proc -> Main] /\ \A p \in Proc : main[p] = Fresh
    BY <1>1 DEF Init
  <1>4. 0 \in 0 .. MaxRuns /\ 0 \in 0 .. MaxSignals
    BY ObserverAssumption
  <1>5. worker \in [Proc -> {"idle", "revoke", "shutdown"}]
    BY DEF Init
  <1>6. TypeOK
    BY <1>1, <1>2, <1>3, <1>4, <1>5 DEF Init, TypeOK
  <1> QED
    BY <1>1, <1>3, <1>6 DEF Init, IInv, Begun, Section, OwnSocket, ReturnsInside, Identified

-----------------------------------------------------------------------------
\* The main thread from its start to its end.
LEMMA LifeKeepsIInv ==
    ASSUME IInv, NEW p \in Proc,
           \/ Spawn(p) \/ TakeLock(p) \/ LockRefused(p) \/ Observe(p) \/ Bind(p) \/ BindFails(p)
           \/ Unlink(p) \/ Release(p) \/ Killed(p)
    PROVE  IInv'
  <1> USE ObserverAssumption
  <1>1. CASE Spawn(p)
    BY <1>1 DEF IInv, TypeOK, Begun, Section, OwnSocket, ReturnsInside, Identified, Spawn, At, Goto,
                Main, Location, InLaunch, InStore, realm, disk, requests
  <1>2. CASE TakeLock(p)
    BY <1>2 DEF IInv, TypeOK, Begun, Section, OwnSocket, ReturnsInside, Identified, TakeLock, At, Goto,
                Main, Location, InLaunch, InStore, realm, disk, requests
  <1>3. CASE LockRefused(p)
    BY <1>3 DEF IInv, TypeOK, Begun, Section, OwnSocket, ReturnsInside, Identified, LockRefused, At, Goto,
                Main, Location, InLaunch, InStore, realm, disk, requests
  <1>4. CASE Observe(p)
    <2> DEFINE at == IF identity = None THEN "unlink" ELSE "bind"
    <2>1. main' = [main EXCEPT ![p] = [main[p] EXCEPT !.at = at, !.of = identity]]
      BY <1>4 DEF Observe, IInv, TypeOK
    <2>2. identity \in Session \cup {None}
      BY IdentityType DEF IInv
    <2>3. main[p].at = "observe" /\ main[p].bound = FALSE
      BY <1>4 DEF Observe, At, IInv, TypeOK, Main, OwnSocket
    <2> QED
      BY <1>4, <2>1, <2>2, <2>3
      DEF IInv, TypeOK, Begun, Section, OwnSocket, ReturnsInside, Identified, Observe,
          Main, Location, InLaunch, InStore, realm, disk, requests
  <1>5. CASE Bind(p)
    <2>1. main' = [main EXCEPT ![p] = [main[p] EXCEPT !.at = "wait", !.bound = TRUE]]
      BY <1>5 DEF Bind, IInv, TypeOK
    <2>2. main[p].at = "bind" /\ main[p].of # None /\ flock = p
      BY <1>5 DEF Bind, At, IInv, Identified, Section, Location
    <2>3. TypeOK'
      BY <1>5, <2>1, <2>2 DEF IInv, TypeOK, Bind, Main, Location, realm, requests
    <2>4. main'[p].at = "wait" /\ \A q \in Proc \ {p} : main'[q] = main[q]
      BY <2>1 DEF IInv, TypeOK, Main
    <2>5. \A q \in Proc \ {p} : main[q].bound => main[q].at = "release"
      BY <2>2 DEF IInv, OwnSocket, Section, TypeOK, Main
    <2>6. socket' = p /\ flock' = flock
      BY <1>5 DEF Bind
    <2>7. Section'
      BY <2>2, <2>4, <2>6 DEF IInv, Section
    <2>8. OwnSocket'
      BY <2>4, <2>5, <2>6 DEF IInv, OwnSocket
    <2> QED
      BY <1>5, <2>3, <2>4, <2>7, <2>8 DEF IInv, Begun, ReturnsInside, Identified, Bind, realm
  <1>6. CASE BindFails(p)
    <2>1. PICK back \in {"unlink", "hung"} :
            main' = [main EXCEPT ![p] = [main[p] EXCEPT !.at = "files", !.back = back]]
      BY <1>6 DEF BindFails, Shutdown, IInv, TypeOK
    <2>2. main[p].at = "bind" /\ ~main[p].bound /\ flock = p
      BY <1>6 DEF BindFails, At, IInv, Identified, Section, Location
    <2> DEFINE r == [main[p] EXCEPT !.at = "files", !.back = back]
    <2>3. r \in Main /\ r.at = "files" /\ r.back = back /\ ~r.bound
      BY <2>2 DEF IInv, TypeOK, Main, Location, InLaunch, InStore
    <2>4. main' = [main EXCEPT ![p] = r]
      BY <2>1
    <2> HIDE DEF r
    <2>5. main' \in [Proc -> Main] /\ \A q \in Proc : main'[q].bound => main'[q].of # None
      BY <2>3, <2>4, MainType DEF IInv
    <2>6. main'[p] = r /\ \A q \in Proc \ {p} : main'[q] = main[q]
      BY <2>4 DEF IInv, TypeOK
    <2>7. TypeOK'
      BY <1>6, <2>5 DEF IInv, TypeOK, BindFails, realm, requests
    <2>8. \A q \in Proc \ {p} : main[q].bound => main[q].at = "release"
      BY <2>2 DEF IInv, OwnSocket, Section, TypeOK, Main
    <2>9. Section' /\ OwnSocket'
      BY <1>6, <2>2, <2>3, <2>6, <2>8 DEF BindFails, IInv, Section, OwnSocket
    <2> QED
      BY <1>6, <2>3, <2>6, <2>7, <2>9 DEF IInv, Begun, ReturnsInside, Identified, BindFails, realm
  <1>7. CASE Unlink(p)
    BY <1>7 DEF IInv, TypeOK, Begun, Section, OwnSocket, ReturnsInside, Identified, Unlink, At, Goto,
                Main, Location, InLaunch, InStore, realm, disk, requests
  <1>8. CASE Release(p)
    <2>1. launch' \in [Launch -> Viewer]
      BY <1>8, EndedType DEF Release, IInv
    <2> DEFINE r == [Fresh EXCEPT !.at = "ended"]
    <2>2. r \in Main /\ r.at = "ended" /\ r.bound = FALSE
      BY FreshType
    <2>3. main' = [main EXCEPT ![p] = r]
      BY <1>8 DEF Release
    <2>4. main' \in [Proc -> Main] /\ \A q \in Proc : main'[q].bound => main'[q].of # None
      BY <2>2, <2>3, MainType DEF IInv
    <2>5. main'[p] = r /\ \A q \in Proc \ {p} : main'[q] = main[q]
      BY <2>3 DEF IInv, TypeOK
    <2> HIDE DEF r
    <2>6. TypeOK'
      BY <1>8, <2>1, <2>4 DEF Release, IInv, TypeOK, realm
    <2>7. Section' /\ OwnSocket'
      BY <1>8, <2>2, <2>5 DEF Release, At, Runs, IInv, Section, OwnSocket, Location
    <2> QED
      BY <1>8, <2>2, <2>5, <2>6, <2>7 DEF Release, IInv, Begun, ReturnsInside, Identified, realm
  <1>9. CASE Killed(p)
    <2>1. launch' \in [Launch -> Viewer]
      BY <1>9, EndedType DEF Killed, IInv
    <2> DEFINE r == [Fresh EXCEPT !.at = "killed"]
    <2>2. r \in Main /\ r.at = "killed" /\ r.bound = FALSE
      BY FreshType
    <2>3. main' = [main EXCEPT ![p] = r]
      BY <1>9 DEF Killed
    <2>4. main' \in [Proc -> Main] /\ \A q \in Proc : main'[q].bound => main'[q].of # None
      BY <2>2, <2>3, MainType DEF IInv
    <2>5. main'[p] = r /\ \A q \in Proc \ {p} : main'[q] = main[q]
      BY <2>3 DEF IInv, TypeOK
    <2> HIDE DEF r
    <2>6. TypeOK'
      BY <1>9, <2>1, <2>4 DEF Killed, IInv, TypeOK, realm
    <2>7. Section' /\ OwnSocket'
      BY <1>9, <2>2, <2>5 DEF Killed, At, Runs, IInv, Section, OwnSocket, Location
    <2> QED
      BY <1>9, <2>2, <2>5, <2>6, <2>7 DEF Killed, IInv, Begun, ReturnsInside, Identified, realm
  <1> QED
    BY <1>1, <1>2, <1>3, <1>4, <1>5, <1>6, <1>7, <1>8, <1>9

-----------------------------------------------------------------------------
\* A main thread that moves on between taking the lock and giving it up.
Inside == Location \ {"none", "lock", "observe", "release", "ended", "killed"}

LEMMA MoveKeepsIInv ==
    ASSUME IInv, NEW p \in Proc, NEW r \in Main, main' = [main EXCEPT ![p] = r],
           r.of = main[p].of, r.bound = main[p].bound,
           main[p].at \in Inside, r.at \in Inside,
           r.at \in {"files", "store"} => r.back \in {"bind", "wait", "identity", "unlink", "hung"},
           r.at = "bind" \/ (r.at \in {"files", "store"} /\ r.back = "bind") => r.of # None /\ ~r.bound,
           launch' \in [Launch -> Viewer], signals' \in 0 .. MaxSignals,
           UNCHANGED <<realm, disk, worker, idle>>
    PROVE  IInv'
  <1>1. main'[p] = r /\ \A q \in Proc \ {p} : main'[q] = main[q]
    BY DEF IInv, TypeOK
  <1>2. r.bound => r.of # None
    BY DEF IInv, TypeOK
  <1>3. main' \in [Proc -> Main] /\ \A q \in Proc : main'[q].bound => main'[q].of # None
    BY <1>2, MainType DEF IInv
  <1>4. TypeOK'
    BY <1>3 DEF IInv, TypeOK, realm, disk
  <1>5. flock = p
    BY DEF IInv, Section, Inside
  <1>6. Section'
    BY <1>1, <1>5 DEF IInv, Section, disk
  <1>7. OwnSocket'
    BY <1>1 DEF IInv, OwnSocket, Inside, disk
  <1>8. ReturnsInside' /\ Identified'
    BY <1>1 DEF IInv, ReturnsInside, Identified
  <1> QED
    BY <1>4, <1>6, <1>7, <1>8 DEF IInv, Begun, realm

\* The main thread while it watches.
LEMMA WatchKeepsIInv ==
    ASSUME IInv, NEW p \in Proc,
           \/ Wake(p) \/ DropExpired(p) \/ CheckIdentity(p) \/ ReadActivity(p)
           \/ CountSessions(p) \/ CountLaunches(p)
    PROVE  IInv'
  <1>1. CASE Wake(p)
    BY <1>1 DEF IInv, TypeOK, Begun, Section, OwnSocket, ReturnsInside, Identified,
                Wake, At, Goto, Shutdown, Main, Location, InLaunch, InStore, realm, disk, requests
  <1>2. CASE DropExpired(p)
    <2>1. launch' \in [Launch -> Viewer]
      BY <1>2, DroppedType DEF DropExpired, IInv
    <2> QED
      BY <1>2, <2>1
      DEF IInv, TypeOK, Begun, Section, OwnSocket, ReturnsInside, Identified,
          DropExpired, At, Goto, Main, Location, InLaunch, InStore, realm, disk, requests
  <1>3. CASE CheckIdentity(p)
    BY <1>3 DEF IInv, TypeOK, Begun, Section, OwnSocket, ReturnsInside, Identified,
                CheckIdentity, At, Goto, Shutdown, Main, Location, InLaunch, InStore, realm, disk, requests
  <1>4. CASE ReadActivity(p)
    <2> DEFINE known == {l \in Mine(p) : launch[l].session \/ (launch[l].ticket /\ launch[l].at = "ready")}
               r == [main[p] EXCEPT !.at = "active", !.quiet = Quiet(p), !.known = known]
    <2>1. main' = [main EXCEPT ![p] = r] /\ main[p].at = "activity"
      BY <1>4 DEF ReadActivity, At, IInv, TypeOK
    <2>2. main[p] \in Main /\ known \in SUBSET Launch /\ Quiet(p) \in BOOLEAN
      BY DEF IInv, TypeOK, Mine, Quiet
    <2>3. /\ r \in Main /\ r.of = main[p].of /\ r.bound = main[p].bound /\ r.at = "active"
      BY <2>2 DEF Main, Location, InStore
    <2>4. {"activity", "active"} \subseteq Inside
      BY DEF Inside, Location, InStore
    <2>5. /\ UNCHANGED <<realm, disk, worker, idle>>
          /\ launch' \in [Launch -> Viewer] /\ signals' \in 0 .. MaxSignals
      BY <1>4 DEF ReadActivity, IInv, TypeOK, requests
    <2> HIDE DEF r
    <2> QED
      BY <2>1, <2>3, <2>4, <2>5, MoveKeepsIInv
  <1>5. CASE CountSessions(p)
    <2> DEFINE r == IF Sessions(p) = {} THEN [main[p] EXCEPT !.at = "pending"] ELSE Looked(p)
    <2>1. main' = [main EXCEPT ![p] = r] /\ main[p].at = "active" /\ main[p] \in Main
      BY <1>5 DEF CountSessions, At, IInv, TypeOK
    <2>2. /\ r \in Main /\ r.of = main[p].of /\ r.bound = main[p].bound /\ r.at \in {"pending", "wait"}
      BY <2>1 DEF Main, Location, InLaunch, Looked
    <2>3. {"active", "pending", "wait"} \subseteq Inside
      BY DEF Inside, Location, InStore, InLaunch
    <2>4. /\ UNCHANGED <<realm, disk, worker, idle>>
          /\ launch' \in [Launch -> Viewer] /\ signals' \in 0 .. MaxSignals
      BY <1>5 DEF CountSessions, IInv, TypeOK, requests
    <2> HIDE DEF r
    <2> QED
      BY <2>1, <2>2, <2>3, <2>4, MoveKeepsIInv
  <1>6. CASE CountLaunches(p)
    <2> DEFINE r == IF main[p].quiet /\ {l \in Mine(p) : launch[l].noted} = {}
                    THEN [Looked(p) EXCEPT !.at = "files", !.back = "wait"] ELSE Looked(p)
    <2>1. main' = [main EXCEPT ![p] = r] /\ main[p].at = "pending" /\ main[p] \in Main
      BY <1>6 DEF CountLaunches, At, IInv, TypeOK
    <2>2. /\ Looked(p) \in Main /\ Looked(p).at = "wait"
          /\ Looked(p).of = main[p].of /\ Looked(p).bound = main[p].bound
      BY <2>1 DEF Main, Location, Looked
    <2>3. /\ r \in Main /\ r.of = main[p].of /\ r.bound = main[p].bound
          /\ r.at = "wait" \/ (r.at = "files" /\ r.back = "wait")
      BY <2>2 DEF Main, Location, InLaunch
    <2>4. {"pending", "files", "wait"} \subseteq Inside
      BY DEF Inside, Location, InStore, InLaunch
    <2>5. /\ UNCHANGED <<realm, disk, worker, idle>>
          /\ launch' \in [Launch -> Viewer] /\ signals' \in 0 .. MaxSignals
      BY <1>6 DEF CountLaunches, IInv, TypeOK, requests
    <2> HIDE DEF r
    <2> QED
      BY <2>1, <2>3, <2>4, <2>5, MoveKeepsIInv
  <1> QED
    BY <1>1, <1>2, <1>3, <1>4, <1>5, <1>6

\* shutdown() on the main thread, which a signal may call as well.
LEMMA ShutdownKeepsIInv ==
    ASSUME IInv, NEW p \in Proc, DropFiles(p) \/ RevokeAll(p) \/ Signal(p)
    PROVE  IInv'
  <1>1. CASE DropFiles(p)
    <2>1. launch' \in [Launch -> Viewer]
      BY <1>1, DroppedType DEF DropFiles, IInv
    <2> QED
      BY <1>1, <2>1
      DEF IInv, TypeOK, Begun, Section, OwnSocket, ReturnsInside, Identified,
          DropFiles, At, Goto, Main, Location, InLaunch, InStore, realm, disk, requests
  <1>2. CASE RevokeAll(p)
    <2>1. launch' \in [Launch -> Viewer]
      BY <1>2, ClearedType DEF RevokeAll, IInv
    <2> QED
      BY <1>2, <2>1
      DEF IInv, TypeOK, Begun, Section, OwnSocket, ReturnsInside, Identified,
          RevokeAll, At, Main, Location, InLaunch, InStore, realm, disk, requests
  <1>3. CASE Signal(p)
    <2> USE ObserverAssumption
    <2>1. /\ UNCHANGED <<realm, disk, worker, idle>>
          /\ launch' \in [Launch -> Viewer] /\ signals' \in 0 .. MaxSignals
      BY <1>3, DroppedType DEF Signal, IInv, TypeOK
    <2>2. main[p] \in Main
      BY DEF IInv, TypeOK
    <2>3. {"stuck", "files", "bind", "wait", "identity", "unlink", "hung"} \cup InLaunch \cup InStore \subseteq Inside
      BY DEF Inside, Location, InStore, InLaunch
    <2>4. ASSUME NEW at \in {"files", "store"}, main[p].at \in InLaunch \cup InStore,
                 main' = [main EXCEPT ![p] = [Looked(p) EXCEPT !.at = "stuck", !.back = at]]
          PROVE  IInv'
      <3> DEFINE r == [Looked(p) EXCEPT !.at = "stuck", !.back = at]
      <3>1. main' = [main EXCEPT ![p] = r]
        BY <2>4
      <3>2. r \in Main /\ r.of = main[p].of /\ r.bound = main[p].bound /\ r.at = "stuck"
        BY <2>2 DEF Main, Location, Looked, InLaunch, InStore
      <3> HIDE DEF r
      <3> QED
        BY <2>1, <2>3, <2>4, <3>1, <3>2, MoveKeepsIInv
    <2>5. CASE main[p].at \in {"bind", "wait", "identity", "unlink", "hung"} /\ Shutdown(p, main[p].at)
      <3> DEFINE r == [main[p] EXCEPT !.at = "files", !.back = main[p].at]
      <3>1. main' = [main EXCEPT ![p] = r]
        BY <2>5 DEF Shutdown, IInv, TypeOK
      <3>2. /\ r \in Main /\ r.of = main[p].of /\ r.bound = main[p].bound
            /\ r.at = "files" /\ r.back = main[p].at
        BY <2>2 DEF Main, Location, InLaunch, InStore
      <3>3. main[p].at = "bind" => main[p].of # None /\ ~main[p].bound
        BY DEF IInv, Identified
      <3> HIDE DEF r
      <3> QED
        BY <2>1, <2>3, <2>5, <3>1, <3>2, <3>3, MoveKeepsIInv
    <2> QED
      BY <1>3, <2>4, <2>5 DEF Signal, At
  <1> QED
    BY <1>1, <1>2, <1>3

-----------------------------------------------------------------------------
\* A step that leaves the main threads, the lock and the socket alone.
LEMMA AsideKeepsIInv ==
    ASSUME IInv, UNCHANGED <<disk, main, realm>>,
           worker' \in [Proc -> {"idle", "revoke", "shutdown"}],
           idle' \subseteq Proc,
           launch' \in [Launch -> Viewer],
           signals' \in 0 .. MaxSignals
    PROVE  IInv'
  <1>1. TypeOK'
    BY DEF IInv, TypeOK, disk, realm
  <1> QED
    BY <1>1 DEF IInv, Begun, Section, OwnSocket, ReturnsInside, Identified, disk, realm

\* A request of a viewer, or its expiry.
LEMMA ViewerKeepsIInv ==
    ASSUME IInv, NEW l \in Launch,
           \/ \E p \in Proc : Issue(l, p)
           \/ Write(l) \/ Note(l) \/ Redeem(l) \/ Redeemed(l)
           \/ Authorize(l) \/ Frame(l) \/ Expire(l) \/ SessionExpires(l)
    PROVE  IInv'
  <1> USE ObserverAssumption
  <1>0. launch[l] \in Viewer /\ launch \in [Launch -> Viewer] /\ TypeOK
    BY DEF IInv, TypeOK
  <1>1. ASSUME NEW p \in Proc, Issue(l, p) PROVE IInv'
    <2>1. launch' \in [Launch -> Viewer]
      BY <1>0, <1>1 DEF Issue, Viewer
    <2> QED
      BY <1>0, <1>1, <2>1, AsideKeepsIInv DEF Issue, TypeOK, disk, realm
  <1>2. CASE Write(l)
    <2>1. launch' \in [Launch -> Viewer]
      BY <1>0, <1>2 DEF Write, Viewer
    <2> QED
      BY <1>0, <1>2, <2>1, AsideKeepsIInv DEF Write, TypeOK, disk, realm
  <1>3. CASE Note(l)
    <2>1. launch' \in [Launch -> Viewer]
      BY <1>0, <1>3 DEF Note, Viewer
    <2> QED
      BY <1>0, <1>3, <2>1, AsideKeepsIInv DEF Note, TypeOK, disk, realm
  <1>4. CASE Redeem(l)
    <2>1. launch' \in [Launch -> Viewer]
      BY <1>0, <1>4 DEF Redeem, Viewer
    <2> QED
      BY <1>0, <1>4, <2>1, AsideKeepsIInv DEF Redeem, TypeOK, disk, realm
  <1>5. CASE Redeemed(l)
    <2>1. Dropped(Server(l), {l}) \in [Launch -> Viewer]
      BY <1>0, DroppedType
    <2>2. launch' \in [Launch -> Viewer]
      BY <1>5, <2>1 DEF Redeemed, Viewer
    <2> QED
      BY <1>0, <1>5, <2>2, AsideKeepsIInv DEF Redeemed, TypeOK, disk, realm
  <1>6. CASE Authorize(l)
    <2>1. launch' \in [Launch -> Viewer]
      BY <1>0, <1>6 DEF Authorize, Viewer
    <2> QED
      BY <1>0, <1>6, <2>1, AsideKeepsIInv DEF Authorize, TypeOK, disk, realm
  <1>7. CASE Expire(l)
    <2>1. launch' \in [Launch -> Viewer]
      BY <1>0, <1>7 DEF Expire, Viewer
    <2> QED
      BY <1>0, <1>7, <2>1, AsideKeepsIInv DEF Expire, TypeOK, disk, realm
  <1>8. CASE SessionExpires(l)
    <2>1. launch' \in [Launch -> Viewer]
      BY <1>0, <1>8 DEF SessionExpires, Viewer
    <2> QED
      BY <1>0, <1>8, <2>1, AsideKeepsIInv DEF SessionExpires, TypeOK, disk, realm
  <1>9. CASE Frame(l)
    <2>1. Dropped(Server(l), Launch) \in [Launch -> Viewer]
      BY <1>0, DroppedType
    <2>2. launch' \in [Launch -> Viewer]
      <3>1. CASE launch' = [launch EXCEPT ![l].at = "viewing"]
        BY <1>0, <3>1 DEF Viewer
      <3>2. CASE launch' = [Dropped(Server(l), Launch) EXCEPT ![l].at = "viewing"]
        BY <2>1, <3>2 DEF Viewer
      <3> QED
        BY <1>9, <3>1, <3>2 DEF Frame
    <2>3. worker' \in [Proc -> {"idle", "revoke", "shutdown"}]
      BY <1>0, <1>9 DEF Frame, TypeOK
    <2> QED
      BY <1>0, <1>9, <2>2, <2>3, AsideKeepsIInv DEF Frame, TypeOK, disk, realm
  <1> QED
    BY <1>1, <1>2, <1>3, <1>4, <1>5, <1>6, <1>7, <1>8, <1>9

\* revoke, stop, the clock of a process, and the sessions of the realm.
LEMMA RestKeepsIInv ==
    ASSUME IInv,
           \/ \E p \in Proc : RevokeFiles(p) \/ RevokeStore(p) \/ Idles(p)
           \/ SessionBegins \/ SessionEnds \/ SessionReturns
    PROVE  IInv'
  <1> USE ObserverAssumption
  <1>0. TypeOK
    BY DEF IInv
  <1>1. ASSUME NEW p \in Proc, RevokeFiles(p) PROVE IInv'
    <2>1. launch' \in [Launch -> Viewer]
      BY <1>0, <1>1, DroppedType DEF RevokeFiles
    <2> QED
      BY <1>0, <1>1, <2>1, AsideKeepsIInv DEF RevokeFiles, TypeOK, disk, realm
  <1>2. ASSUME NEW p \in Proc, RevokeStore(p) PROVE IInv'
    <2>1. launch' \in [Launch -> Viewer]
      BY <1>0, <1>2, ClearedType DEF RevokeStore
    <2> DEFINE r == IF worker[p] = "shutdown" THEN [main[p] EXCEPT !.stopping = TRUE] ELSE main[p]
    <2>a. main[p] \in Main /\ main \in [Proc -> Main]
      BY <1>0 DEF TypeOK
    <2>b. /\ r \in Main /\ r.at = main[p].at /\ r.back = main[p].back
          /\ r.of = main[p].of /\ r.bound = main[p].bound
      BY <2>a DEF Main
    <2>c. main' = [main EXCEPT ![p] = r]
      BY <1>2, <2>a DEF RevokeStore
    <2> HIDE DEF r
    <2>2. main' \in [Proc -> Main]
      BY <2>a, <2>b, <2>c
    <2>3. \A q \in Proc : /\ main'[q].at = main[q].at /\ main'[q].back = main[q].back
                          /\ main'[q].of = main[q].of /\ main'[q].bound = main[q].bound
      BY <2>a, <2>b, <2>c
    <2>4. worker' \in [Proc -> {"idle", "revoke", "shutdown"}] /\ UNCHANGED <<realm, disk, idle, signals>>
      BY <1>0, <1>2 DEF RevokeStore, TypeOK
    <2>5. TypeOK'
      BY <1>0, <2>1, <2>2, <2>3, <2>4 DEF TypeOK, realm, disk
    <2> QED
      BY <2>3, <2>4, <2>5 DEF IInv, Begun, Section, OwnSocket, ReturnsInside, Identified, realm, disk
  <1>3. ASSUME NEW p \in Proc, Idles(p) PROVE IInv'
    BY <1>0, <1>3, AsideKeepsIInv DEF Idles, TypeOK, disk, realm
  <1>4. CASE SessionBegins \/ SessionEnds \/ SessionReturns
    <2>1. run' \in 0 .. MaxRuns /\ up' \in BOOLEAN /\ Begun'
      <3>1. MaxRuns \in Nat /\ run \in 0 .. MaxRuns
        BY <1>0 DEF TypeOK
      <3>2. CASE SessionBegins
        <4>1. run' \in 1 .. MaxRuns /\ up' = TRUE
          BY <3>1, <3>2 DEF SessionBegins
        <4> QED
          BY <3>1, <4>1 DEF Begun, Session
      <3>3. CASE SessionEnds
        <4>1. run' = run /\ up' = FALSE
          BY <3>3 DEF SessionEnds
        <4> QED
          BY <3>1, <4>1 DEF Begun
      <3>4. CASE SessionReturns
        <4>1. run' = run /\ up' = TRUE /\ run > 0
          BY <3>4 DEF SessionReturns
        <4> QED
          BY <3>1, <4>1 DEF Begun, Session
      <3> QED
        BY <1>4, <3>2, <3>3, <3>4
    <2>2. UNCHANGED <<disk, main, requests, signals>>
      BY <1>4 DEF SessionBegins, SessionEnds, SessionReturns
    <2> QED
      BY <2>1, <2>2 DEF IInv, TypeOK, Section, OwnSocket, ReturnsInside, Identified, disk, requests
  <1> QED
    BY <1>1, <1>2, <1>3, <1>4

LEMMA StepKeepsIInv == IInv /\ [Next]_vars => IInv'
  <1> SUFFICES ASSUME IInv, [Next]_vars PROVE IInv'
    OBVIOUS
  <1>1. CASE UNCHANGED vars
    BY <1>1 DEF vars, IInv, TypeOK, Begun, Section, OwnSocket, ReturnsInside, Identified
  <1>2. CASE Next
    BY <1>2, LifeKeepsIInv, WatchKeepsIInv, ShutdownKeepsIInv, ViewerKeepsIInv, RestKeepsIInv DEF
       Next, MainStep
  <1> QED
    BY <1>1, <1>2

-----------------------------------------------------------------------------
\* The state of every observer stays well-formed, and none binds its socket
\* without a session of the realm.
THEOREM TypeCorrect == Spec => []TypeOK
  <1>1. IInv => TypeOK
    BY DEF IInv
  <1> QED
    BY InitIInv, StepKeepsIInv, <1>1, PTL DEF Spec

\* However many observers are started, refused and killed, the one that serves
\* has the lock and its socket is the one on disk.
THEOREM OneServes == Spec => []SocketIsItsOwn
  <1>1. IInv => SocketIsItsOwn
    BY DEF IInv, Section, OwnSocket, TypeOK, Main, SocketIsItsOwn, Accepts, Serves, Runs, At
  <1> QED
    BY InitIInv, StepKeepsIInv, <1>1, PTL DEF Spec

\* Only issue_launch_file() makes a ticket, and only redeem() a session.
LEMMA StepRevokes ==
    ASSUME TypeOK, [Next]_vars, NEW l \in Launch,
           launch[l].at # "none", ~launch[l].ticket, ~launch[l].session
    PROVE  ~launch'[l].ticket /\ ~launch'[l].session
  <1> USE DEF TypeOK, Viewer
  <1>1. ASSUME NEW p, NEW dropped
        PROVE  Dropped(p, dropped)[l].ticket = FALSE /\ Dropped(p, dropped)[l].session = FALSE
    BY DEF Dropped
  <1>2. ASSUME NEW p
        PROVE  Cleared(p)[l].ticket = FALSE /\ Cleared(p)[l].session = FALSE
    BY DEF Cleared
  <1>3. ASSUME NEW p
        PROVE  Ended(p)[l].ticket = FALSE /\ Ended(p)[l].session = FALSE
    BY DEF Ended
  <1>4. ASSUME NEW p \in Proc,
               \/ Spawn(p) \/ MainStep(p) \/ Killed(p) \/ Signal(p)
               \/ RevokeFiles(p) \/ RevokeStore(p) \/ Idles(p)
        PROVE  ~launch'[l].ticket /\ ~launch'[l].session
    <2>1. \/ launch' = launch \/ launch' = Cleared(p) \/ launch' = Ended(p)
          \/ \E dropped : launch' = Dropped(p, dropped)
      BY <1>4
      DEF Spawn, MainStep, Killed, Signal, RevokeFiles, RevokeStore, Idles, TakeLock, LockRefused,
          Observe, Bind, BindFails, Wake, DropExpired, CheckIdentity, ReadActivity, CountSessions, CountLaunches,
          DropFiles, RevokeAll, Unlink, Release, requests
    <2>2. CASE launch' = launch
      BY <2>2
    <2>3. CASE launch' = Cleared(p)
      BY <1>2, <2>3
    <2>4. CASE launch' = Ended(p)
      BY <1>3, <2>4
    <2>5. ASSUME NEW dropped, launch' = Dropped(p, dropped)
          PROVE  ~launch'[l].ticket /\ ~launch'[l].session
      BY <1>1, <2>5
    <2> QED
      BY <2>1, <2>2, <2>3, <2>4, <2>5
  <1>5. ASSUME NEW k \in Launch,
               \/ \E p \in Proc : Issue(k, p)
               \/ Write(k) \/ Note(k) \/ Redeem(k) \/ Authorize(k) \/ Expire(k) \/ SessionExpires(k)
        PROVE  ~launch'[l].ticket /\ ~launch'[l].session
    <2>1. CASE k # l
      <3>1. launch'[l] = launch[l]
        BY <1>5, <2>1 DEF Issue, Write, Note, Redeem, Authorize, Expire, SessionExpires
      <3> QED
        BY <3>1
    <2>2. CASE k = l
      <3>1. ASSUME NEW p \in Proc, Issue(k, p) PROVE FALSE
        BY <2>2, <3>1 DEF Issue
      <3>2. CASE Redeem(k)
        BY <2>2, <3>2 DEF Redeem
      <3>3. CASE Write(k) \/ Note(k) \/ Authorize(k)
        BY <2>2, <3>3 DEF Write, Note, Authorize
      <3>4. CASE Expire(k) \/ SessionExpires(k)
        BY <2>2, <3>4 DEF Expire, SessionExpires
      <3> QED
        BY <1>5, <3>1, <3>2, <3>3, <3>4
    <2> QED
      BY <2>1, <2>2
  <1>6. ASSUME NEW k \in Launch, Redeemed(k) \/ Frame(k)
        PROVE  ~launch'[l].ticket /\ ~launch'[l].session
    <2>1. \A p, dropped : Dropped(p, dropped) \in [Launch -> Viewer]
      BY DroppedType
    <2>2. \/ launch' = [launch EXCEPT ![k].at = "viewing"]
          \/ \E dropped : launch' = [Dropped(Server(k), dropped) EXCEPT ![k].at = "viewing"]
      BY <1>6 DEF Redeemed, Frame
    <2>3. CASE launch' = [launch EXCEPT ![k].at = "viewing"]
      BY <2>3
    <2>4. ASSUME NEW dropped, launch' = [Dropped(Server(k), dropped) EXCEPT ![k].at = "viewing"]
          PROVE  ~launch'[l].ticket /\ ~launch'[l].session
      <3> DEFINE old == Dropped(Server(k), dropped)
      <3>1. old \in [Launch -> Viewer] /\ old[l].ticket = FALSE /\ old[l].session = FALSE
        BY <1>1, <2>1
      <3> HIDE DEF old
      <3>2. launch'[l].ticket = old[l].ticket /\ launch'[l].session = old[l].session
        BY <2>4, <3>1 DEF old
      <3> QED
        BY <3>1, <3>2
    <2> QED
      BY <2>2, <2>3, <2>4
  <1>7. CASE SessionBegins \/ SessionEnds \/ SessionReturns \/ UNCHANGED vars
    BY <1>7 DEF SessionBegins, SessionEnds, SessionReturns, vars, requests
  <1> QED
    BY <1>4, <1>5, <1>6, <1>7 DEF Next

\* No interleaving of requests, the watchdog, a signal and a revocation brings
\* back a ticket or a session that is gone.
THEOREM RevocationIsFinal == Spec => RevokedIsFinal
  <1>1. IInv /\ [Next]_vars =>
          [\A l \in Launch : launch[l].at # "none" /\ ~launch[l].ticket /\ ~launch[l].session =>
             ~launch'[l].ticket /\ ~launch'[l].session]_vars
    BY StepRevokes DEF IInv
  <1> QED
    BY InitIInv, StepKeepsIInv, <1>1, PTL DEF Spec, RevokedIsFinal

-----------------------------------------------------------------------------
\* Idleness, for an idle timeout that is longer than a ticket lives.

Redeeming == {"redeemed", "viewing", "authorized"}

\* A ticket becomes a session as it is redeemed.  Of an idle process only a
\* ticket whose file is not written yet can be out.
CredentialInv ==
    \A l \in Launch :
        /\ launch[l].ticket => launch[l].at \in {"issued", "written", "ready"}
        /\ launch[l].session => launch[l].at \in Redeeming
        /\ launch[l].ticket /\ launch[l].by \in idle => launch[l].at = "issued"

\* What a watchdog that has read an idle time knows of has been redeemed, and is
\* over once it has counted the sessions.
KnownInv ==
    \A p \in Proc : main[p].at \in {"active", "pending"} /\ main[p].quiet =>
        \A l \in main[p].known :
            /\ launch[l].by = p /\ launch[l].at \in Redeeming
            /\ main[p].at = "pending" => ~launch[l].session

IdleInv == IInv /\ CredentialInv /\ KnownInv

\* The life of one launch: nothing gives it back what it has lost.
Loses(l) == (launch'[l].ticket => launch[l].ticket) /\ (launch'[l].session => launch[l].session)

Advances(l) ==
    \/ launch'[l].at = launch[l].at /\ launch'[l].by = launch[l].by /\ Loses(l)
    \/ launch[l].at = "none" /\ launch'[l].at = "issued" /\ launch'[l].session = launch[l].session
    \/ /\ launch'[l].by = launch[l].by
       /\ \/ launch[l].at = "issued" /\ launch'[l].at = "written" /\ Loses(l) /\ launch[l].by \notin idle'
          \/ launch[l].at = "written" /\ launch'[l].at = "ready" /\ Loses(l)
          \/ launch[l].at = "ready" /\ launch'[l].at = "redeemed" /\ ~launch'[l].ticket
          \/ launch[l].at \in Redeeming /\ launch'[l].at \in Redeeming /\ Loses(l)
          \/ launch'[l].at = "viewing" /\ ~launch'[l].ticket /\ ~launch'[l].session

\* Every step takes a launch no further than to the next point of its life.
LEMMA LaunchAdvances == ASSUME TypeOK, [Next]_vars, NEW l \in Launch PROVE Advances(l)
<1>1. launch \in [Launch -> Viewer]
  BY DEF TypeOK
<1>2. ASSUME NEW p, NEW dropped, NEW r, r = Dropped(p, dropped)
      PROVE  /\ r \in [Launch -> Viewer]
             /\ \A k \in Launch : r[k].at = launch[k].at /\ r[k].by = launch[k].by
                                  /\ r[k].ticket = launch[k].ticket /\ r[k].session = launch[k].session
  BY <1>1, <1>2 DEF Dropped, Viewer
<1>3. CASE UNCHANGED launch
  BY <1>3 DEF Advances, Loses
<1>4. ASSUME NEW p, NEW dropped, launch' = Dropped(p, dropped) PROVE Advances(l)
  BY <1>2, <1>4 DEF Advances, Loses
<1>5. ASSUME NEW p, launch' = Cleared(p) PROVE Advances(l)
  BY <1>1, <1>5 DEF Cleared, Mine, Advances, Loses, Viewer
<1>6. ASSUME NEW p, launch' = Ended(p) PROVE Advances(l)
  <2>1. CASE l \in Mine(p)
    <3>1. launch'[l] = [launch[l] EXCEPT !.at = "viewing", !.ticket = FALSE, !.session = FALSE,
                                         !.noted = FALSE, !.due = FALSE]
      BY <1>6, <2>1 DEF Ended
    <3>2. /\ launch'[l].at = "viewing" /\ launch'[l].by = launch[l].by
          /\ ~launch'[l].ticket /\ ~launch'[l].session
      BY <1>1, <3>1 DEF Viewer
    <3> QED
      BY <3>2 DEF Advances
  <2>2. CASE l \notin Mine(p)
    <3>1. launch'[l] = launch[l]
      BY <1>6, <2>2 DEF Ended
    <3> QED
      BY <3>1 DEF Advances, Loses
  <2> QED
    BY <2>1, <2>2
<1>7. ASSUME NEW p \in Proc,
             \/ Spawn(p) \/ MainStep(p) \/ Killed(p) \/ Signal(p)
             \/ RevokeFiles(p) \/ RevokeStore(p) \/ Idles(p)
      PROVE  Advances(l)
  <2>1. \/ launch' = launch \/ launch' = Cleared(p) \/ launch' = Ended(p)
        \/ \E dropped : launch' = Dropped(p, dropped)
    BY <1>7
    DEF Spawn, MainStep, Killed, Signal, RevokeFiles, RevokeStore, Idles, TakeLock, LockRefused,
        Observe, Bind, BindFails, Wake, DropExpired, CheckIdentity, ReadActivity, CountSessions, CountLaunches,
        DropFiles, RevokeAll, Unlink, Release, requests
  <2> QED
    BY <1>3, <1>4, <1>5, <1>6, <2>1
<1>8. ASSUME NEW k \in Launch,
             \/ \E p \in Proc : Issue(k, p)
             \/ Write(k) \/ Note(k) \/ Redeem(k) \/ Authorize(k) \/ Expire(k) \/ SessionExpires(k)
      PROVE  Advances(l)
  <2>1. CASE k # l
    <3>1. launch'[l] = launch[l]
      BY <1>1, <1>8, <2>1 DEF Issue, Write, Note, Redeem, Authorize, Expire, SessionExpires
    <3> QED
      BY <3>1 DEF Advances, Loses
  <2>2. CASE k = l /\ \E p \in Proc : Issue(k, p)
    BY <1>1, <2>2 DEF Issue, Advances, Viewer
  <2>3. CASE k = l /\ (Write(k) \/ Note(k))
    BY <1>1, <2>3 DEF Write, Note, Thread, Server, Advances, Loses, Viewer
  <2>4. CASE k = l /\ (Redeem(k) \/ Authorize(k))
    BY <1>1, <2>4 DEF Redeem, Authorize, Thread, Advances, Loses, Viewer, Redeeming
  <2>5. CASE k = l /\ (Expire(k) \/ SessionExpires(k))
    BY <1>1, <2>5 DEF Expire, SessionExpires, Advances, Loses, Viewer
  <2> QED
    BY <1>8, <2>1, <2>2, <2>3, <2>4, <2>5
<1>9. ASSUME NEW k \in Launch, Redeemed(k) \/ Frame(k) PROVE Advances(l)
  <2>1. launch[k].at \in Redeeming
    BY <1>9 DEF Redeemed, Frame, Thread, Redeeming
  <2>2. \/ launch' = [launch EXCEPT ![k].at = "viewing"]
        \/ \E dropped : launch' = [Dropped(Server(k), dropped) EXCEPT ![k].at = "viewing"]
    BY <1>9 DEF Redeemed, Frame
  <2>3. CASE launch' = [launch EXCEPT ![k].at = "viewing"]
    BY <1>1, <2>1, <2>3 DEF Advances, Loses, Viewer, Redeeming
  <2>4. ASSUME NEW dropped, launch' = [Dropped(Server(k), dropped) EXCEPT ![k].at = "viewing"]
        PROVE  Advances(l)
    <3>1. PICK r : r = Dropped(Server(k), dropped)
      OBVIOUS
    <3>2. r \in [Launch -> Viewer] /\ launch' = [r EXCEPT ![k].at = "viewing"]
      BY <1>2, <2>4, <3>1
    <3>3. launch'[l].at = (IF k = l THEN "viewing" ELSE launch[l].at) /\ launch'[l].by = launch[l].by
          /\ launch'[l].ticket = launch[l].ticket /\ launch'[l].session = launch[l].session
      BY <1>2, <3>1, <3>2 DEF Viewer
    <3> QED
      BY <2>1, <3>3 DEF Advances, Loses, Redeeming
  <2> QED
    BY <2>2, <2>3, <2>4
<1>10. CASE SessionBegins \/ SessionEnds \/ SessionReturns \/ UNCHANGED vars
  BY <1>3, <1>10 DEF SessionBegins, SessionEnds, SessionReturns, vars, requests
<1> QED
  BY <1>7, <1>8, <1>9, <1>10 DEF Next

\* Only time makes a process idle, and with no ticket out.
LEMMA BecomesIdle ==
    ASSUME ~ShortIdle, TypeOK, [Next]_vars
    PROVE  \/ idle' \subseteq idle
           \/ launch' = launch /\ \A p \in idle' \ idle : \A l \in Mine(p) : ~launch[l].ticket
<1>1. CASE \E p \in Proc : Idles(p)
  BY <1>1 DEF Idles
<1>2. CASE ~\E p \in Proc : Idles(p)
  BY <1>2
  DEF Next, vars, requests, Spawn, MainStep, Killed, Signal, RevokeFiles, RevokeStore, TakeLock, LockRefused,
      Observe, Bind, BindFails, Wake, DropExpired, CheckIdentity, ReadActivity, CountSessions, CountLaunches,
      DropFiles, RevokeAll, Unlink, Release, Issue, Write, Note, Redeem, Redeemed, Authorize, Frame, Expire,
      SessionExpires, SessionBegins, SessionEnds, SessionReturns
<1> QED
  BY <1>1, <1>2

LEMMA StepKeepsCredentials ==
    ASSUME ~ShortIdle, TypeOK, CredentialInv, [Next]_vars
    PROVE  CredentialInv'
<1> SUFFICES ASSUME NEW l \in Launch
             PROVE  /\ launch'[l].ticket => launch'[l].at \in {"issued", "written", "ready"}
                    /\ launch'[l].session => launch'[l].at \in Redeeming
                    /\ launch'[l].ticket /\ launch'[l].by \in idle' => launch'[l].at = "issued"
  BY DEF CredentialInv
<1>1. Advances(l)
  BY LaunchAdvances
<1>2. \/ idle' \subseteq idle
      \/ launch'[l] = launch[l] /\ (launch[l].by \in idle' \ idle => ~launch[l].ticket)
  BY BecomesIdle DEF Mine
<1> QED
  BY <1>1, <1>2 DEF CredentialInv, Advances, Loses, Redeeming

\* A main thread moves by its own steps, and is told to stop by one of a worker.
LEMMA OwnStep ==
    ASSUME TypeOK, [Next]_vars, NEW p \in Proc
    PROVE  \/ main'[p] = main[p]
           \/ Spawn(p) \/ MainStep(p) \/ Killed(p) \/ Signal(p) \/ RevokeStore(p)
<1>1. main \in [Proc -> Main]
  BY DEF TypeOK
<1>2. ASSUME NEW q \in Proc, q # p, Spawn(q) \/ MainStep(q) \/ Killed(q) \/ Signal(q) \/ RevokeStore(q)
      PROVE  main'[p] = main[p]
  BY <1>1, <1>2
  DEF Spawn, MainStep, Killed, Signal, RevokeStore, TakeLock, LockRefused, Goto, Shutdown,
      Observe, Bind, BindFails, Wake, DropExpired, CheckIdentity, ReadActivity, CountSessions, CountLaunches,
      DropFiles, RevokeAll, Unlink, Release
<1>3. ASSUME NEW q \in Proc, RevokeFiles(q) \/ Idles(q) PROVE main' = main
  BY <1>3 DEF RevokeFiles, Idles
<1>4. ASSUME NEW l \in Launch,
             \/ \E q \in Proc : Issue(l, q)
             \/ Write(l) \/ Note(l) \/ Redeem(l) \/ Redeemed(l)
             \/ Authorize(l) \/ Frame(l) \/ Expire(l) \/ SessionExpires(l)
      PROVE  main' = main
  BY <1>4 DEF Issue, Write, Note, Redeem, Redeemed, Authorize, Frame, Expire, SessionExpires
<1>5. SessionBegins \/ SessionEnds \/ SessionReturns \/ UNCHANGED vars => main' = main
  BY DEF SessionBegins, SessionEnds, SessionReturns, vars
<1> QED
  BY <1>2, <1>3, <1>4, <1>5 DEF Next

LEMMA SignalStops ==
    ASSUME TypeOK, NEW p \in Proc, Signal(p)
    PROVE  main'[p].at \in {"stuck", "files"} /\ (main[p].at = "pending" => main'[p].at = "stuck")
<1>1. main \in [Proc -> Main]
  BY DEF TypeOK
<1>2. CASE main[p].at \in InLaunch \cup InStore
  <2>1. Looked(p) \in Main
    BY <1>1 DEF Main, Location, Looked
  <2>2. PICK at : main'[p] = [Looked(p) EXCEPT !.at = "stuck", !.back = at]
    BY <1>1, <1>2 DEF Signal, InLaunch, InStore
  <2> QED
    BY <2>1, <2>2 DEF Main
<1>3. CASE main[p].at \notin InLaunch \cup InStore
  BY <1>1, <1>3 DEF Signal, Shutdown, Main, InLaunch
<1> QED
  BY <1>2, <1>3

\* The look of the main thread: what it knows of is what it has just read.
LEMMA LookAdvances ==
    ASSUME IInv, [Next]_vars, NEW p \in Proc, main'[p].at \in {"active", "pending"}, main'[p].quiet
    PROVE  \/ /\ main[p].at = main'[p].at /\ main[p].quiet /\ main'[p].known = main[p].known
           \/ /\ main[p].at = "active" /\ Sessions(p) = {} /\ UNCHANGED launch
              /\ main[p].quiet /\ main'[p].known = main[p].known
           \/ /\ p \in idle /\ main'[p].at = "active" /\ UNCHANGED launch
              /\ main'[p].known = {l \in Mine(p) : \/ launch[l].session
                                                   \/ launch[l].ticket /\ launch[l].at = "ready"}
<1>1. main \in [Proc -> Main]
  BY DEF IInv, TypeOK
<1>2. Looked(p) \in Main /\ Looked(p).at = "wait"
  BY <1>1 DEF Main, Location, Looked
<1>3. CASE \/ Spawn(p) \/ TakeLock(p) \/ LockRefused(p) \/ Observe(p) \/ Bind(p) \/ BindFails(p) \/ Wake(p) \/ DropExpired(p)
           \/ CheckIdentity(p) \/ DropFiles(p) \/ Unlink(p) \/ Release(p) \/ Killed(p)
  <2>1. main'[p].at \notin {"active", "pending"}
    BY <1>1, <1>3
    DEF Main, Fresh, Spawn, TakeLock, LockRefused, Observe, Bind, BindFails, Wake, DropExpired, CheckIdentity,
        DropFiles, Unlink, Release, Killed, Goto, Shutdown
  <2> QED
    BY <2>1
<1>4. CASE RevokeAll(p)
  <2>1. main'[p].at = main[p].back /\ main[p].at = "store"
    BY <1>1, <1>4 DEF RevokeAll, Main, At
  <2> QED
    BY <2>1 DEF IInv, ReturnsInside
<1>5. CASE CountLaunches(p)
  <2>1. main'[p].at \in {"wait", "files"}
    BY <1>1, <1>2, <1>5 DEF CountLaunches, Main
  <2> QED
    BY <2>1
<1>6. CASE CountSessions(p)
  <2>1. Sessions(p) = {} /\ main' = [main EXCEPT ![p].at = "pending"]
    BY <1>1, <1>2, <1>6 DEF CountSessions
  <2> QED
    BY <1>1, <1>6, <2>1 DEF CountSessions, At, requests, Main
<1>7. CASE ReadActivity(p)
  BY <1>1, <1>7 DEF ReadActivity, Quiet, requests, Main
<1>8. CASE RevokeStore(p)
  BY <1>1, <1>8 DEF RevokeStore, Main
<1>9. CASE main'[p] = main[p] \/ Signal(p)
  BY <1>9, SignalStops DEF IInv
<1> QED
  BY <1>3, <1>4, <1>5, <1>6, <1>7, <1>8, <1>9, OwnStep DEF IInv, MainStep

LEMMA StepKeepsKnown ==
    ASSUME IdleInv, [Next]_vars
    PROVE  KnownInv'
<1> SUFFICES ASSUME NEW p \in Proc, main'[p].at \in {"active", "pending"}, main'[p].quiet,
                    NEW l \in main'[p].known
             PROVE  /\ launch'[l].by = p /\ launch'[l].at \in Redeeming
                    /\ main'[p].at = "pending" => ~launch'[l].session
  BY DEF KnownInv
<1>1. main \in [Proc -> Main] /\ l \in Launch /\ TypeOK
  <2>1. TypeOK'
    BY StepKeepsIInv DEF IdleInv, IInv
  <2> QED
    BY <2>1 DEF IdleInv, IInv, TypeOK, Main
<1>2. Advances(l)
  BY <1>1, LaunchAdvances
<1>3. CASE main[p].at = main'[p].at /\ main[p].quiet /\ main'[p].known = main[p].known
  BY <1>2, <1>3 DEF IdleInv, KnownInv, Advances, Loses, Redeeming
<1>4. CASE /\ main[p].at = "active" /\ Sessions(p) = {} /\ UNCHANGED launch
           /\ main[p].quiet /\ main'[p].known = main[p].known
  BY <1>1, <1>4 DEF IdleInv, KnownInv, Sessions, Mine
<1>5. CASE /\ p \in idle /\ main'[p].at = "active" /\ UNCHANGED launch
           /\ main'[p].known = {k \in Mine(p) : \/ launch[k].session
                                                \/ launch[k].ticket /\ launch[k].at = "ready"}
  BY <1>5 DEF IdleInv, CredentialInv, Mine
<1> QED
  BY <1>3, <1>4, <1>5, LookAdvances DEF IdleInv

\* observer.py: with an idle timeout longer than a ticket lives (15 minutes and
\* one, by default) the watchdog ends no observer for idleness under a viewer, or
\* under a launch file handed out, that was there when it began to look, for all
\* that happens between its looks at the activity, the sessions and the launches.
THEOREM IdlenessEvictsNobody == ASSUME ~ShortIdle PROVE Spec => IdleEvictsNobody
<1>1. Init => IdleInv
  <2>1. Init => CredentialInv /\ KnownInv
    BY DEF Init, CredentialInv, KnownInv, Fresh
  <2> QED
    BY <2>1, InitIInv DEF IdleInv
<1>2. IdleInv /\ [Next]_vars => IdleInv'
  BY StepKeepsIInv, StepKeepsCredentials, StepKeepsKnown DEF IdleInv, IInv
<1>3. IdleInv => \A p \in Proc : At(p, "pending") /\ main[p].quiet =>
                   \A l \in main[p].known : ~launch[l].ticket /\ ~launch[l].session
  BY DEF IdleInv, CredentialInv, KnownInv, At, Redeeming, IInv, TypeOK, Main
<1>4. IdleInv /\ [Next]_vars =>
        [\A p \in Proc : At(p, "pending") /\ main'[p].at = "files" =>
           \A l \in main[p].known : ~launch[l].ticket /\ ~launch[l].session]_vars
  <2> SUFFICES ASSUME IdleInv, Next, NEW p \in Proc, At(p, "pending"), main'[p].at = "files"
               PROVE  main[p].quiet
    BY <1>3
  <2>1. main \in [Proc -> Main] /\ main[p].at = "pending"
    BY DEF IdleInv, IInv, TypeOK, At
  <2>2. CASE CountLaunches(p)
    <3>1. Looked(p) \in Main /\ Looked(p).at = "wait"
      BY <2>1 DEF Main, Location, Looked
    <3> QED
      BY <2>1, <2>2, <3>1 DEF CountLaunches, Main
  <2>3. ASSUME ~CountLaunches(p) PROVE FALSE
    <3>1. ~MainStep(p) /\ ~Spawn(p)
      BY <2>1, <2>3
      DEF MainStep, Spawn, At, TakeLock, LockRefused, Observe, Bind, BindFails, Wake, DropExpired, CheckIdentity,
          ReadActivity, CountSessions, DropFiles, RevokeAll, Unlink, Release
    <3>2. CASE Killed(p) \/ Signal(p)
      BY <2>1, <3>2, SignalStops DEF Killed, Fresh, Main, IdleInv, IInv
    <3>3. CASE RevokeStore(p)
      BY <2>1, <3>3 DEF RevokeStore, Main
    <3> QED
      BY <2>1, <3>1, <3>2, <3>3, OwnStep DEF IdleInv, IInv
  <2> QED
    BY <2>2, <2>3
<1> QED
  BY <1>1, <1>2, <1>4, PTL DEF Spec, IdleEvictsNobody
=============================================================================
