---------------------------- MODULE RealmSession ----------------------------
(***************************************************************************)
(* What a client sees of a realm, with no lock of its own: session.json    *)
(* and process_alive(), whether systemd has the session's scope.           *)
(* RealmLifecycle implements it.                                           *)
(*                                                                         *)
(* A session is announced only when none is alive, gets its scope once,    *)
(* is running only after that scope was up, is paused and resumed, and is  *)
(* declared over only when its scope is gone, or was not there yet when    *)
(* its cleanup looked.                                                     *)
(***************************************************************************)
CONSTANTS None, Damaged, Unit

VARIABLES
    meta,
    alive,
    missed     \* a cleanup has looked before systemd had the session's scope

session == <<meta, alive, missed>>

State == {"starting", "running", "paused", "transition-error", "failed", "cleanup_failed",
          "stopped", "recovered"}

Meta == [state : State, unit : Unit \cup {None}]

Readable == meta \notin {None, Damaged}

Init ==
    /\ meta = None
    /\ alive = FALSE
    /\ missed = FALSE

\* start() has found no session alive.
Announce ==
    /\ ~alive
    /\ meta # Damaged
    /\ meta' = [state |-> "starting", unit |-> None]
    /\ UNCHANGED <<alive, missed>>

Identify(u) ==
    /\ meta = [state |-> "starting", unit |-> None]
    /\ meta' = [meta EXCEPT !.unit = u]
    /\ UNCHANGED <<alive, missed>>

\* start() has seen its compositor answer.
Ready ==
    /\ alive
    /\ meta.state = "starting"
    /\ meta' = [meta EXCEPT !.state = "running"]
    /\ UNCHANGED <<alive, missed>>

Freezer == {"running", "paused", "transition-error"}

Transit ==
    /\ Readable
    /\ meta.state \in Freezer
    /\ \E state \in Freezer : meta' = [meta EXCEPT !.state = state]
    /\ UNCHANGED <<alive, missed>>

Overlook ==
    /\ ~alive
    /\ Readable
    /\ missed' = TRUE
    /\ UNCHANGED <<meta, alive>>

\* The cleanup is over, whatever it has come to.
Forget ==
    /\ missed' = FALSE
    /\ UNCHANGED <<meta, alive>>

\* stop(), recover() and a start that failed, once they have cleaned up.
End ==
    /\ alive => missed
    /\ \/ Readable /\ \E state \in {"stopped", "recovered", "failed"} : meta' = [meta EXCEPT !.state = state]
       \/ ~Readable /\ meta' = [state |-> "recovered", unit |-> None]
    /\ missed' = FALSE
    /\ UNCHANGED alive

\* A start that fails, possibly after it was ready, and cannot clean up.
EndFails ==
    /\ Readable
    /\ meta.state \in {"starting", "running"}
    /\ meta' = [meta EXCEPT !.state = "cleanup_failed"]
    /\ missed' = FALSE
    /\ UNCHANGED alive

\* The scope comes, possibly late, and goes.
Rise ==
    /\ ~alive
    /\ Readable
    /\ meta.unit # None
    /\ alive' = TRUE
    /\ UNCHANGED <<meta, missed>>

Fall ==
    /\ alive
    /\ alive' = FALSE
    /\ UNCHANGED <<meta, missed>>

Lose ==
    /\ Readable
    /\ meta' = Damaged
    /\ alive' = FALSE
    /\ UNCHANGED missed

Next ==
    \/ Announce \/ (\E u \in Unit : Identify(u)) \/ Ready \/ Transit
    \/ Overlook \/ Forget \/ End \/ EndFails \/ Rise \/ Fall \/ Lose

Spec == Init /\ [][Next]_session
=============================================================================
