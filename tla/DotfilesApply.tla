---------------------------- MODULE DotfilesApply ----------------------------
(***************************************************************************)
(* dotfiles.rs: `dotfiles apply', `dotfiles recover' and `dotfiles         *)
(* rollback'.  apply builds a generation and moves two links under its own *)
(* journal; rollback swaps the two links without one.                      *)
(***************************************************************************)
EXTENDS PlatformState

DotfilesVerify(p) == CheckMutation(p) /\ Intact(disk, ptr["dotfiles/current"])

ApplyLock(p) == TakeLock(p, "applyDotfiles", "dotfiles", "applyCheck")

\* recover_apply_locked() up to its RECOVERING record; back: the caller's step.
RecoverApplyLocked(p, from, back) ==
    /\ pc[p] = from
    /\ IF ApplyPending
         THEN /\ apply' = [apply EXCEPT !.phase = "RECOVERING"]
              /\ Goto(p, [applyPlan |-> "restoreThenPlan", fail |-> "restoreThenFail",
                          done |-> "restoreThenDone"][back])
              /\ UNCHANGED <<lock, reg>>
         ELSE /\ CASE back = "applyPlan" -> Goto(p, back) /\ UNCHANGED <<lock, reg>>
                   [] back = "fail"      -> Fail(p)
                   [] back = "done"      -> Done(p)
              /\ UNCHANGED apply
    /\ UNCHANGED <<ptr, disk, fresh, install, promotion, faults>>

\* check_mutation(), then recover_apply_locked(), both under dotfiles.lock.
ApplyCheck(p) == CheckMutation(p) /\ RecoverApplyLocked(p, "applyCheck", "applyPlan")

ApplyRefused(p) ==
    /\ pc[p] = "applyCheck"
    /\ ~CheckMutation(p)
    /\ Fail(p)
    /\ UNCHANGED <<ptr, disk, fresh, journals, faults>>

Restoring == {"restoreThenPlan", "restoreThenFail", "restoreThenDone"}

\* Mutant of RestoreDotfilesLink: the undo forgets the previous link.
RestoreCurrentOnly(p) ==
    /\ pc[p] \in Restoring
    /\ reg[p].i \in {1, 2}
    /\ SetLink("dotfiles/current", apply.current)
    /\ reg' = [reg EXCEPT ![p].i = @ + 1]
    /\ UNCHANGED <<disk, fresh, journals, lock, pc, faults>>

\* restore_snapshots() runs backwards: previous, then current, whatever they name.
RestoreDotfilesLink(p) ==
    /\ pc[p] \in Restoring
    /\ reg[p].i \in {1, 2}
    /\ IF reg[p].i = 1 THEN SetLink("dotfiles/previous", apply.previous)
                       ELSE SetLink("dotfiles/current", apply.current)
    /\ reg' = [reg EXCEPT ![p].i = @ + 1]
    /\ UNCHANGED <<disk, fresh, journals, lock, pc, faults>>

ApplyRecovered(p) ==
    /\ pc[p] \in Restoring
    /\ reg[p].i = 3
    /\ apply' = [apply EXCEPT !.phase = "RECOVERED"]
    /\ CASE pc[p] = "restoreThenPlan" -> /\ Goto(p, "applyPlan")
                                         /\ reg' = [reg EXCEPT ![p].i = 1]
                                         /\ UNCHANGED lock
         [] pc[p] = "restoreThenFail" -> Fail(p)
         [] pc[p] = "restoreThenDone" -> Done(p)
    /\ UNCHANGED <<ptr, disk, fresh, install, promotion, faults>>

\* Build the generation, snapshot both links, record PREPARED.  A generation
\* that no longer validates is not kept as previous.
ApplyPlan(p) ==
    /\ pc[p] = "applyPlan"
    /\ \E g \in fresh \cap Dotfiles :
         /\ Create(g)
         /\ apply' = [phase |-> "PREPARED", generation |-> g,
                      current |-> ptr["dotfiles/current"], previous |-> ptr["dotfiles/previous"]]
         /\ reg' = [reg EXCEPT ![p].gen = g, ![p].old = Resolved("dotfiles/current"),
                               ![p].valid = Intact(disk, ptr["dotfiles/current"])]
    /\ Goto(p, "applyPrevious")
    /\ UNCHANGED <<ptr, install, promotion, lock, faults>>

ApplyBuildFails(p) ==
    /\ pc[p] = "applyPlan"
    /\ fresh \cap Dotfiles = {}
    /\ Fail(p)
    /\ UNCHANGED <<ptr, disk, fresh, journals, faults>>

ApplyPrevious(p) ==
    /\ pc[p] = "applyPrevious"
    /\ IF reg[p].valid THEN SetLink("dotfiles/previous", reg[p].old) ELSE UNCHANGED ptr
    /\ Goto(p, "applyCurrent")
    /\ UNCHANGED <<disk, fresh, journals, lock, reg, faults>>

ApplyCurrent(p) ==
    /\ pc[p] = "applyCurrent"
    /\ SetLink("dotfiles/current", reg[p].gen)
    /\ Goto(p, "applyVerify")
    /\ UNCHANGED <<disk, fresh, journals, lock, reg, faults>>

ApplyVerify(p) ==
    /\ pc[p] = "applyVerify"
    /\ Goto(p, IF DotfilesVerify(p) THEN "applyCommit" ELSE "applyUndo")
    /\ UNCHANGED <<ptr, disk, fresh, journals, lock, reg, faults>>

ApplyUndo(p) == RecoverApplyLocked(p, "applyUndo", "fail")

ApplyCommit(p) ==
    /\ pc[p] = "applyCommit"
    /\ apply' = [apply EXCEPT !.phase = "COMMITTED"]
    /\ Goto(p, "applyQuarantine")
    /\ UNCHANGED <<ptr, disk, fresh, install, promotion, lock, reg, faults>>

\* The invalid generation that was active is moved out of builds.
ApplyQuarantine(p) ==
    /\ pc[p] = "applyQuarantine"
    /\ disk' = IF reg[p].old # None /\ ~reg[p].valid THEN [disk EXCEPT ![reg[p].old] = "absent"]
                                                     ELSE disk
    /\ Done(p)
    /\ UNCHANGED <<ptr, fresh, journals, faults>>

\* `dotfiles recover'.
RecoverApplyLock(p) == TakeLock(p, "recoverApply", "dotfiles", "recoverApplyCheck")

RecoverApply(p) == CheckMutation(p) /\ RecoverApplyLocked(p, "recoverApplyCheck", "done")

RecoverApplyRefused(p) ==
    /\ pc[p] = "recoverApplyCheck"
    /\ ~CheckMutation(p)
    /\ Fail(p)
    /\ UNCHANGED <<ptr, disk, fresh, journals, faults>>

-----------------------------------------------------------------------------
\* `dotfiles rollback': both links, no journal.
RollbackLock(p) == TakeLock(p, "rollbackDotfiles", "dotfiles", "rollbackCheck")

RollbackAllowed(p) ==
    /\ CheckMutation(p)
    /\ Intact(disk, ptr["dotfiles/current"])
    /\ Intact(disk, ptr["dotfiles/previous"])

RollbackCurrent(p) ==
    /\ pc[p] = "rollbackCheck"
    /\ RollbackAllowed(p)
    /\ reg' = [reg EXCEPT ![p].old = ptr["dotfiles/current"], ![p].previous = ptr["dotfiles/previous"]]
    /\ SetLink("dotfiles/current", ptr["dotfiles/previous"])
    /\ Goto(p, "rollbackPrevious")
    /\ UNCHANGED <<disk, fresh, journals, lock, faults>>

RollbackRefused(p) ==
    /\ pc[p] = "rollbackCheck"
    /\ ~RollbackAllowed(p)
    /\ Fail(p)
    /\ UNCHANGED <<ptr, disk, fresh, journals, faults>>

RollbackPrevious(p) ==
    /\ pc[p] = "rollbackPrevious"
    /\ SetLink("dotfiles/previous", reg[p].old)
    /\ Goto(p, "rollbackVerify")
    /\ UNCHANGED <<disk, fresh, journals, lock, reg, faults>>

RollbackVerify(p) ==
    /\ pc[p] = "rollbackVerify"
    /\ IF DotfilesVerify(p) THEN Done(p) ELSE Goto(p, "rollbackUndo") /\ UNCHANGED <<lock, reg>>
    /\ UNCHANGED <<ptr, disk, fresh, journals, faults>>

\* The error path puts current back, then previous.
RollbackUndo(p) ==
    /\ pc[p] = "rollbackUndo"
    /\ IF reg[p].i = 1
         THEN /\ SetLink("dotfiles/current", reg[p].old)
              /\ reg' = [reg EXCEPT ![p].i = 2]
              /\ UNCHANGED <<lock, pc>>
         ELSE SetLink("dotfiles/previous", reg[p].previous) /\ Fail(p)
    /\ UNCHANGED <<disk, fresh, journals, faults>>

-----------------------------------------------------------------------------
DotfilesStep(p) ==
    \/ ApplyLock(p) \/ ApplyCheck(p) \/ ApplyRefused(p) \/ ApplyPlan(p) \/ ApplyBuildFails(p)
    \/ ApplyPrevious(p) \/ ApplyCurrent(p) \/ ApplyVerify(p) \/ ApplyUndo(p)
    \/ ApplyCommit(p) \/ ApplyQuarantine(p)
    \/ RestoreDotfilesLink(p) \/ ApplyRecovered(p)
    \/ RecoverApplyLock(p) \/ RecoverApply(p) \/ RecoverApplyRefused(p)
    \/ RollbackLock(p) \/ RollbackCurrent(p) \/ RollbackRefused(p)
    \/ RollbackPrevious(p) \/ RollbackVerify(p) \/ RollbackUndo(p)

\* Where an error of a step is answered by an undo before the call returns.
DotfilesErrorPath(step) ==
    CASE step \in {"applyPrevious", "applyCurrent", "applyVerify"} -> "applyUndo"
      [] step \in {"rollbackPrevious", "rollbackVerify"}           -> "rollbackUndo"
      [] OTHER                                                      -> "fail"
=============================================================================
