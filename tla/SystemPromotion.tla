--------------------------- MODULE SystemPromotion ---------------------------
(***************************************************************************)
(* system.rs: `system promote' seals the selected shell, dotfiles and      *)
(* helpers into a new system generation, and `system recover' completes a  *)
(* promotion that was interrupted, if the selection is still the one it    *)
(* sealed.                                                                 *)
(***************************************************************************)
EXTENDS PlatformState

PromoteLock(p) == TakeLock(p, "promote", "system", "promoteCheck")

\* --helpers of the installer, or else the active bundle.
HelpersToSeal(p) == IF reg[p].helpers # None THEN reg[p].helpers ELSE Resolved("helpers/current")

\* The metadata of the system a promotion would seal now.
Selected(p) == [shell |-> ptr["shell/current"], dotfiles |-> ptr["dotfiles/current"],
                helpers |-> HelpersToSeal(p), legacy |-> None]

Seals(p) == {s \in fresh \cap System : Manifest[s] = Selected(p)}

PromoteAllowed(p) ==
    /\ CheckMutation(p)
    /\ ~PromotionPending
    /\ Intact(disk, ptr["shell/current"])
    /\ Intact(disk, ptr["dotfiles/current"])
    /\ HelpersToSeal(p) = Resolved("helpers/current")
    /\ IntactOrNone(disk, HelpersToSeal(p))
    /\ Seals(p) # {}

\* Mutant of PromotePlan: the journal records the active system twice.
PromotePlanSameBefore(p) ==
    /\ pc[p] = "promoteCheck"
    /\ PromoteAllowed(p)
    /\ \E s \in Seals(p) :
         /\ Create(s)
         /\ promotion' = [phase |-> "PREPARED", target |-> s,
                          beforeCurrent |-> Resolved("system/current"),
                          beforePrevious |-> Resolved("system/current")]
    /\ reg' = [reg EXCEPT ![p].valid = VerifySystemPath(disk, ptr["system/current"])]
    /\ Goto(p, "promotePrevious")
    /\ UNCHANGED <<ptr, install, apply, lock, faults>>

\* Seal the generation and record PREPARED with the links as they are.
PromotePlan(p) ==
    /\ pc[p] = "promoteCheck"
    /\ PromoteAllowed(p)
    /\ \E s \in Seals(p) :
         /\ Create(s)
         /\ promotion' = [phase |-> "PREPARED", target |-> s,
                          beforeCurrent |-> Resolved("system/current"),
                          beforePrevious |-> Resolved("system/previous")]
    /\ reg' = [reg EXCEPT ![p].valid = VerifySystemPath(disk, ptr["system/current"])]
    /\ Goto(p, "promotePrevious")
    /\ UNCHANGED <<ptr, install, apply, lock, faults>>

PromoteRefused(p) ==
    /\ pc[p] = "promoteCheck"
    /\ ~PromoteAllowed(p)
    /\ Fail(p)
    /\ UNCHANGED <<ptr, disk, fresh, journals, faults>>

PromotePrevious(p) ==
    /\ pc[p] = "promotePrevious"
    /\ IF reg[p].valid THEN SetLink("system/previous", promotion.beforeCurrent) ELSE UNCHANGED ptr
    /\ Goto(p, "promoteCurrent")
    /\ UNCHANGED <<disk, fresh, journals, lock, reg, faults>>

PromoteCurrent(p) ==
    /\ pc[p] = "promoteCurrent"
    /\ SetLink("system/current", promotion.target)
    /\ Goto(p, "promoteVerify")
    /\ UNCHANGED <<disk, fresh, journals, lock, reg, faults>>

PromoteVerify(p) ==
    /\ pc[p] = "promoteVerify"
    /\ Goto(p, IF Current(disk, ptr) THEN "promoteCommit" ELSE "promoteUndo")
    /\ UNCHANGED <<ptr, disk, fresh, journals, lock, reg, faults>>

PromoteCommit(p) ==
    /\ pc[p] = "promoteCommit"
    /\ promotion' = [promotion EXCEPT !.phase = "COMMITTED"]
    /\ Done(p)
    /\ UNCHANGED <<ptr, disk, fresh, install, apply, faults>>

\* The COMMITTED record took effect but its write reported an error: undone.
PromoteCommitFails(p) ==
    /\ pc[p] = "promoteCommit"
    /\ faults < MaxFaults
    /\ faults' = faults + 1
    /\ promotion' = [promotion EXCEPT !.phase = "COMMITTED"]
    /\ Goto(p, "promoteUndo")
    /\ UNCHANGED <<ptr, disk, fresh, install, apply, lock, reg>>

\* restore_link(current), restore_link(previous), RECOVERED.
PromoteUndo(p) ==
    /\ pc[p] = "promoteUndo"
    /\ IF reg[p].i = 3
         THEN /\ promotion' = [promotion EXCEPT !.phase = "RECOVERED"]
              /\ Fail(p)
              /\ UNCHANGED ptr
         ELSE /\ IF reg[p].i = 1 THEN SetLink("system/current", promotion.beforeCurrent)
                                 ELSE SetLink("system/previous", promotion.beforePrevious)
              /\ reg' = [reg EXCEPT ![p].i = @ + 1]
              /\ UNCHANGED <<promotion, lock, pc>>
    /\ UNCHANGED <<disk, fresh, install, apply, faults>>

-----------------------------------------------------------------------------
RecoverPromotionLock(p) == TakeLock(p, "recoverPromotion", "system", "recoverPromotionCheck")

\* Forward only, and only while nobody has selected anything else since.
PromotionStillSelected ==
    LET meta == Manifest[promotion.target]
    IN  /\ VerifySystemPath(disk, promotion.target)
        /\ promotion.beforeCurrent = None \/ Exists(disk, promotion.beforeCurrent)
        /\ promotion.beforePrevious = None \/ Exists(disk, promotion.beforePrevious)
        /\ \A l \in {"system/current", "system/previous", "shell/current", "dotfiles/current",
                     "helpers/current"} : ptr[l] = None \/ Exists(disk, ptr[l])
        /\ ptr["system/current"] \in {promotion.beforeCurrent, promotion.target}
        /\ ptr["system/previous"] \in {promotion.beforePrevious, promotion.beforeCurrent}
        /\ ptr["shell/current"] = meta.shell
        /\ ptr["dotfiles/current"] = meta.dotfiles
        /\ ptr["helpers/current"] = meta.helpers

RecoverPromotionPlan(p) ==
    /\ pc[p] = "recoverPromotionCheck"
    /\ CheckMutation(p)
    /\ PromotionPending
    /\ PromotionStillSelected
    /\ reg' = [reg EXCEPT ![p].valid = VerifySystemPath(disk, promotion.beforeCurrent)]
    /\ Goto(p, "recoverPrevious")
    /\ UNCHANGED <<ptr, disk, fresh, journals, lock, faults>>

RecoverPromotionNothing(p) ==
    /\ pc[p] = "recoverPromotionCheck"
    /\ CheckMutation(p)
    /\ ~PromotionPending
    /\ Done(p)
    /\ UNCHANGED <<ptr, disk, fresh, journals, faults>>

RecoverPromotionRefused(p) ==
    /\ pc[p] = "recoverPromotionCheck"
    /\ CheckMutation(p) => PromotionPending /\ ~PromotionStillSelected
    /\ Fail(p)
    /\ UNCHANGED <<ptr, disk, fresh, journals, faults>>

RecoverPrevious(p) ==
    /\ pc[p] = "recoverPrevious"
    /\ IF reg[p].valid THEN SetLink("system/previous", promotion.beforeCurrent) ELSE UNCHANGED ptr
    /\ Goto(p, "recoverCurrent")
    /\ UNCHANGED <<disk, fresh, journals, lock, reg, faults>>

RecoverCurrent(p) ==
    /\ pc[p] = "recoverCurrent"
    /\ SetLink("system/current", promotion.target)
    /\ Goto(p, "recoverVerify")
    /\ UNCHANGED <<disk, fresh, journals, lock, reg, faults>>

RecoverPromotionCommit(p) ==
    /\ pc[p] = "recoverVerify"
    /\ Current(disk, ptr)
    /\ promotion' = [promotion EXCEPT !.phase = "COMMITTED"]
    /\ Done(p)
    /\ UNCHANGED <<ptr, disk, fresh, install, apply, faults>>

RecoverPromotionUnverified(p) ==
    /\ pc[p] = "recoverVerify"
    /\ ~Current(disk, ptr)
    /\ Fail(p)
    /\ UNCHANGED <<ptr, disk, fresh, journals, faults>>

-----------------------------------------------------------------------------
PromotionStep(p) ==
    \/ PromoteLock(p) \/ PromotePlan(p) \/ PromoteRefused(p) \/ PromotePrevious(p)
    \/ PromoteCurrent(p) \/ PromoteVerify(p) \/ PromoteCommit(p) \/ PromoteCommitFails(p)
    \/ PromoteUndo(p)
    \/ RecoverPromotionLock(p) \/ RecoverPromotionPlan(p) \/ RecoverPromotionNothing(p)
    \/ RecoverPromotionRefused(p) \/ RecoverPrevious(p) \/ RecoverCurrent(p)
    \/ RecoverPromotionCommit(p) \/ RecoverPromotionUnverified(p)

PromotionErrorPath(step) ==
    IF step \in {"promotePrevious", "promoteCurrent", "promoteVerify", "promoteCommit"}
      THEN "promoteUndo" ELSE "fail"
=============================================================================
