-------------------------- MODULE InstallTransaction --------------------------
(***************************************************************************)
(* install-cortetsu.sh and install.rs: the whole-install undo journal,     *)
(* composed with the commands a user may run beside it.                    *)
(*                                                                         *)
(* begin saves every link, the apply journal and the promotion journal;    *)
(* activate moves the helper and shell links; dotfiles apply and system    *)
(* promote run as children that carry the transaction's token; commit      *)
(* closes the journal.  Until then recover() can put everything back.      *)
(***************************************************************************)
EXTENDS DotfilesApply, SystemPromotion

\* The EXIT trap and both scripts run install-transaction recover under
\* install.lock; an installer builds its shell and helpers before taking it.
Start(p, cmd) ==
    /\ pc[p] = "idle"
    /\ Goto(p, Program[cmd][1])
    /\ reg' = [reg EXCEPT ![p].cmd = cmd]
    /\ UNCHANGED <<ptr, disk, fresh, journals, lock, faults>>

Stage(p) ==
    /\ pc[p] = "stage"
    /\ \E s \in fresh \cap Shell, h \in fresh \cap Helpers :
         /\ disk' = [disk EXCEPT ![s] = "intact", ![h] = "intact"]
         /\ fresh' = fresh \ {s, h}
         /\ Goto(p, "tryInstallLock")
         /\ reg' = [reg EXCEPT ![p].shell = s, ![p].helpers = h, ![p].at = 2]
    /\ UNCHANGED <<ptr, journals, lock, faults>>

StageFails(p) ==
    /\ pc[p] = "stage"
    /\ fresh \cap Shell = {} \/ fresh \cap Helpers = {}
    /\ Fail(p)
    /\ UNCHANGED <<ptr, disk, fresh, journals, faults>>

\* flock -n: a second installation or recovery is turned away.
TryInstallLock(p) ==
    /\ pc[p] = "tryInstallLock"
    /\ IF lock["install"] = None
         THEN LET next == reg[p].at + 1
              IN  /\ lock' = [lock EXCEPT !["install"] = p]
                  /\ Goto(p, Program[reg[p].cmd][next])
                  /\ reg' = [reg EXCEPT ![p].at = next]
         ELSE Quit(p)
    /\ UNCHANGED <<ptr, disk, fresh, journals, faults>>

-----------------------------------------------------------------------------
\* recover(): nothing to do, or RECOVERING before the first restore.
RecoverInstall(p) ==
    /\ pc[p] = "recoverInstall"
    /\ IF InstallPending
         THEN /\ install' = [install EXCEPT !.phase = "RECOVERING"]
              /\ Goto(p, "restoreInstall")
              /\ UNCHANGED <<lock, reg>>
         ELSE Done(p) /\ UNCHANGED install
    /\ UNCHANGED <<ptr, disk, fresh, apply, promotion, faults>>

\* Mutant of RestoreOrder: the promotion journal is not among the targets.
RestoreOrderLinksOnly ==
    <<"system/previous", "system/current", "helpers/previous", "helpers/current",
      "dotfiles/previous", "dotfiles/current", "apply-journal", "shell/previous", "shell/current">>

\* restore_snapshots(): the ordered set of targets, backwards.
RestoreOrder ==
    <<"promotion-journal", "system/previous", "system/current",
      "helpers/previous", "helpers/current", "dotfiles/previous", "dotfiles/current",
      "apply-journal", "shell/previous", "shell/current">>

RestoreTarget(p) ==
    /\ pc[p] = "restoreInstall"
    /\ reg[p].i <= Len(RestoreOrder)
    /\ LET target == RestoreOrder[reg[p].i]
       IN  /\ ptr' = IF target \in Link THEN [ptr EXCEPT ![target] = install.links[target]] ELSE ptr
           /\ apply' = IF target = "apply-journal" THEN install.apply ELSE apply
           /\ promotion' = IF target = "promotion-journal" THEN install.promotion ELSE promotion
    /\ reg' = [reg EXCEPT ![p].i = @ + 1]
    /\ UNCHANGED <<disk, fresh, install, lock, pc, faults>>

InstallRecovered(p) ==
    /\ pc[p] = "restoreInstall"
    /\ reg[p].i > Len(RestoreOrder)
    /\ install' = [install EXCEPT !.phase = "RECOVERED"]
    /\ Done(p)
    /\ UNCHANGED <<ptr, disk, fresh, apply, promotion, faults>>

-----------------------------------------------------------------------------
\* legacy_checkpoint(): an active schema-1 system is copied, with its
\* launchers, into a schema-2 one that can be rolled back to.
NeedsCheckpoint ==
    Exists(disk, ptr["system/current"]) /\ Manifest[ptr["system/current"]].helpers = None

Checkpoints ==
    LET old == ptr["system/current"]
    IN  {c \in fresh \cap System :
            /\ Manifest[c].legacy = old
            /\ Manifest[c].shell = Manifest[old].shell
            /\ Manifest[c].dotfiles = Manifest[old].dotfiles
            /\ Manifest[c].helpers \in fresh}

\* validate_shell() looks at the presence of three files and at a schema: of a
\* damaged shell it may say either.
BeginAllowed(p) ==
    /\ ~InstallPending
    /\ Intact(disk, reg[p].helpers)
    /\ Exists(disk, reg[p].shell)
    /\ Exists(disk, ptr["system/current"]) => Current(disk, ptr)
    /\ NeedsCheckpoint => Checkpoints # {}

BeginJournal(p, checkpoint, helpers) ==
    [phase |-> "PREPARED", links |-> ptr, apply |-> apply, promotion |-> promotion,
     shell |-> reg[p].shell, helpers |-> reg[p].helpers,
     checkpoint |-> checkpoint, legacyHelpers |-> helpers]

\* Mutant of Begin: the snapshot is taken without dotfiles.lock.
BeginUnlocked(p) ==
    /\ pc[p] = "begin"
    /\ lock["system"] = None
    /\ BeginAllowed(p)
    /\ IF NeedsCheckpoint
         THEN \E c \in Checkpoints :
                /\ install' = BeginJournal(p, c, Manifest[c].helpers)
                /\ disk' = [disk EXCEPT ![c] = "intact", ![Manifest[c].helpers] = "intact"]
                /\ fresh' = fresh \ {c, Manifest[c].helpers}
         ELSE /\ install' = BeginJournal(p, None, None)
              /\ UNCHANGED <<disk, fresh>>
    /\ DoneWith(p, [reg[p] EXCEPT !.token = TRUE])
    /\ UNCHANGED <<ptr, apply, promotion, faults>>

\* begin(): waits for system.lock and dotfiles.lock, which it holds to the end
\* of the call, so that no standalone command is half-way through its links.
Begin(p) ==
    /\ pc[p] = "begin"
    /\ lock["system"] = None
    /\ lock["dotfiles"] = None
    /\ BeginAllowed(p)
    /\ IF NeedsCheckpoint
         THEN \E c \in Checkpoints :
                /\ install' = BeginJournal(p, c, Manifest[c].helpers)
                /\ disk' = [disk EXCEPT ![c] = "intact", ![Manifest[c].helpers] = "intact"]
                /\ fresh' = fresh \ {c, Manifest[c].helpers}
         ELSE /\ install' = BeginJournal(p, None, None)
              /\ UNCHANGED <<disk, fresh>>
    /\ DoneWith(p, [reg[p] EXCEPT !.token = TRUE])
    /\ UNCHANGED <<ptr, apply, promotion, faults>>

BeginRefused(p) ==
    /\ pc[p] = "begin"
    /\ ~BeginAllowed(p) \/ ~Intact(disk, reg[p].shell)
    /\ Fail(p)
    /\ UNCHANGED <<ptr, disk, fresh, journals, faults>>

-----------------------------------------------------------------------------
\* activate(): ACTIVE is durable before the first link moves.
Activate(p) ==
    /\ pc[p] = "activate"
    /\ Intact(disk, reg[p].helpers)
    /\ Exists(disk, reg[p].shell)
    /\ install' = [install EXCEPT !.phase = "ACTIVE"]
    /\ Goto(p, "activateLinks")
    /\ UNCHANGED <<ptr, disk, fresh, apply, promotion, lock, reg, faults>>

ActivateRefused(p) ==
    /\ pc[p] = "activate"
    /\ ~(Intact(disk, reg[p].helpers) /\ Intact(disk, reg[p].shell))
    /\ Fail(p)
    /\ UNCHANGED <<ptr, disk, fresh, journals, faults>>

ActivateOrder == <<"system/current", "helpers/previous", "helpers/current",
                   "shell/previous", "shell/current">>

\* A shell that does not validate is kept as legacy-previous only.
ShellsKept ==
    LET old == ptr["shell/current"]
    IN  (IF Exists(disk, old) THEN {old} ELSE {ptr["shell/previous"]})
        \cup (IF Exists(disk, old) /\ ~Intact(disk, old) THEN {None, ptr["shell/previous"]} ELSE {})

\* Mutant of ActivateValues: the checkpoint is not selected before promotion.
ActivateValuesNoCheckpoint(l) ==
    CASE l = "system/current"   -> {ptr[l]}
      [] l = "helpers/previous" -> {IF install.legacyHelpers # None THEN install.legacyHelpers
                                    ELSE IF Exists(disk, ptr["helpers/current"])
                                           THEN ptr["helpers/current"] ELSE ptr[l]}
      [] l = "helpers/current"  -> {install.helpers}
      [] l = "shell/previous"   -> ShellsKept
      [] l = "shell/current"    -> {install.shell}

\* What activate may write to a link; the old value where it writes nothing.
ActivateValues(l) ==
    CASE l = "system/current"   -> {IF install.checkpoint # None THEN install.checkpoint ELSE ptr[l]}
      [] l = "helpers/previous" -> {IF install.legacyHelpers # None THEN install.legacyHelpers
                                    ELSE IF Exists(disk, ptr["helpers/current"])
                                           THEN ptr["helpers/current"] ELSE ptr[l]}
      [] l = "helpers/current"  -> {install.helpers}
      [] l = "shell/previous"   -> ShellsKept
      [] l = "shell/current"    -> {install.shell}

ActivateLink(p) ==
    /\ pc[p] = "activateLinks"
    /\ \E value \in ActivateValues(ActivateOrder[reg[p].i]) : SetLink(ActivateOrder[reg[p].i], value)
    /\ IF reg[p].i = Len(ActivateOrder)
         THEN Done(p)
         ELSE reg' = [reg EXCEPT ![p].i = @ + 1] /\ UNCHANGED <<lock, pc>>
    /\ UNCHANGED <<disk, fresh, journals, faults>>

-----------------------------------------------------------------------------
\* cortetsu verify: the promoted dotfiles and system, before the commit.
VerifyInstalled(p) ==
    /\ pc[p] = "verify"
    /\ IF DotfilesVerify(p) /\ Current(disk, ptr) THEN Done(p) ELSE Fail(p)
    /\ UNCHANGED <<ptr, disk, fresh, journals, faults>>

CommitAllowed(p) ==
    /\ install.phase = "ACTIVE"
    /\ Current(disk, ptr)
    /\ Manifest[ptr["system/current"]].helpers = install.helpers
    /\ Manifest[ptr["system/current"]].shell = install.shell
    /\ DotfilesVerify(p)

Commit(p) ==
    /\ pc[p] = "commit"
    /\ CommitAllowed(p)
    /\ install' = [install EXCEPT !.phase = "COMMITTED"]
    /\ Quit(p)
    /\ UNCHANGED <<ptr, disk, fresh, apply, promotion, faults>>

CommitRefused(p) ==
    /\ pc[p] = "commit"
    /\ ~CommitAllowed(p)
    /\ Fail(p)
    /\ UNCHANGED <<ptr, disk, fresh, journals, faults>>

-----------------------------------------------------------------------------
\* build-runtime.sh without --stage: it takes build.lock only, which no
\* transaction looks at, and selects the shell it has built.
BuildPrevious(p) ==
    /\ pc[p] = "buildRuntime"
    /\ \A q \in Proc : pc[q] # "buildCurrent"
    /\ \E s \in fresh \cap Shell : Create(s) /\ reg' = [reg EXCEPT ![p].shell = s]
    /\ SetLink("shell/previous",
               IF Exists(disk, ptr["shell/current"]) THEN ptr["shell/current"]
               ELSE IF Exists(disk, ptr["shell/previous"]) THEN ptr["shell/previous"] ELSE None)
    /\ Goto(p, "buildCurrent")
    /\ UNCHANGED <<journals, lock, faults>>

BuildRefused(p) ==
    /\ pc[p] = "buildRuntime"
    /\ fresh \cap Shell = {} \/ \E q \in Proc : pc[q] = "buildCurrent"
    /\ Fail(p)
    /\ UNCHANGED <<ptr, disk, fresh, journals, faults>>

BuildCurrent(p) ==
    /\ pc[p] = "buildCurrent"
    /\ SetLink("shell/current", reg[p].shell)
    /\ Quit(p)
    /\ UNCHANGED <<disk, fresh, journals, faults>>

-----------------------------------------------------------------------------
InstallStep(p) ==
    \/ Stage(p) \/ StageFails(p) \/ TryInstallLock(p)
    \/ RecoverInstall(p) \/ RestoreTarget(p) \/ InstallRecovered(p)
    \/ Begin(p) \/ BeginRefused(p) \/ Activate(p) \/ ActivateRefused(p) \/ ActivateLink(p)
    \/ VerifyInstalled(p) \/ Commit(p) \/ CommitRefused(p)
    \/ BuildPrevious(p) \/ BuildRefused(p) \/ BuildCurrent(p)

ErrorPath(step) ==
    IF DotfilesErrorPath(step) # "fail" THEN DotfilesErrorPath(step) ELSE PromotionErrorPath(step)

\* A step reports an error: the call undoes its own links where it has an
\* error path, and otherwise ends as it stands.
StepFails(p) ==
    /\ pc[p] \notin {"idle", "stage", "tryInstallLock"}
    /\ faults < MaxFaults
    /\ faults' = faults + 1
    /\ IF ErrorPath(pc[p]) = "fail" THEN Fail(p)
       ELSE Goto(p, ErrorPath(pc[p])) /\ UNCHANGED <<lock, reg>>
    /\ UNCHANGED <<ptr, disk, fresh, journals>>

Next ==
    \/ \E p \in Proc :
         \/ \E cmd \in Commands : Start(p, cmd)
         \/ InstallStep(p) \/ DotfilesStep(p) \/ PromotionStep(p)
         \/ Crash(p) \/ StepFails(p)
    \/ \E g \in Generation : Damage(g)

Spec == InitState /\ [][Next]_vars

-----------------------------------------------------------------------------
TypeOK ==
    /\ ptr \in Pointers
    /\ disk \in Disk
    /\ fresh \subseteq Generation
    /\ install \in InstallJournal \cup {NoJournal}
    /\ apply \in ApplyJournal \cup {NoJournal}
    /\ promotion \in PromotionJournal \cup {NoJournal}
    /\ lock \in [LockFile -> Proc \cup {None}]
    /\ \A p \in Proc : reg[p].at \in 1 .. 9 /\ reg[p].i \in 1 .. 11
    /\ faults \in 0 .. MaxFaults

\* The processes that hold install.lock.
Installer(p) == lock["install"] = p

\* The installation blocks concurrent changes: from the durable PREPARED
\* record to COMMITTED or RECOVERED only the process under install.lock moves
\* a link, whatever standalone command was already on its way when begin ran.
InstallBlocksOthers ==
    [][\A p \in Proc :
         InstallPending /\ ptr' # ptr /\ <<pc[p], reg[p]>>' # <<pc[p], reg[p]>> => Installer(p)]_vars

\* A recovered installation is as if it had never begun: all eight links and
\* both other journals are back where begin found them, however often the
\* installation and its recovery were interrupted.
RecoveredIsBefore ==
    [][install.phase = "RECOVERING" /\ install'.phase = "RECOVERED"
         => /\ ptr' = install.links
            /\ apply' = install.apply
            /\ promotion' = install.promotion]_vars

\* A committed installation is whole, and the system it replaced, or the
\* checkpoint made from a schema-1 one, is what a rollback returns to.
CommitKeepsRollback ==
    [][install.phase = "ACTIVE" /\ install'.phase = "COMMITTED"
         => /\ Current(disk, ptr)
            /\ ptr["shell/current"] = install.shell
            /\ ptr["helpers/current"] = install.helpers
            /\ LET before == IF install.checkpoint # None THEN install.checkpoint
                             ELSE install.links["system/current"]
               IN  VerifySystemPath(disk, before)
                     => ptr["system/previous"] = before /\ PlanRollback(disk, ptr)]_vars

\* A promotion that is pending, running or interrupted, has moved the system
\* links only between the values its journal names, as far as recover() will
\* not put both back: `system recover' can tell an unfinished promotion from a
\* selection made since.
PromotionJournalCovers ==
    LET restorable == InstallPending /\ promotion = install.promotion
        links      == IF restorable THEN install.links ELSE ptr
    IN  PromotionPending
          => /\ links["system/current"] \in {promotion.beforeCurrent, promotion.target}
             /\ links["system/previous"] \in {promotion.beforePrevious, promotion.beforeCurrent}

\* Every link names a generation of its own layer and every journal what its
\* readers accept, and the journal of a promotion covers what it has moved.
InstallInv == TypeOK /\ PromotionJournalCovers

\* The pair of dotfiles links as recovery would leave it: an installation that
\* is pending does not count, and neither does an apply or a running rollback.
DotfilesSelected ==
    LET open     == install.phase \in {"PREPARED", "ACTIVE", "RECOVERING"}
        links    == IF open THEN install.links ELSE ptr
        saved    == IF open THEN install.apply ELSE apply
        swapping == {p \in Proc : pc[p] \in {"rollbackPrevious", "rollbackVerify", "rollbackUndo"}}
    IN  IF saved.phase \in {"PREPARED", "RECOVERING"}
          THEN <<saved.current, saved.previous>>
        ELSE IF swapping # {}
          THEN LET p == CHOOSE q \in swapping : TRUE IN <<reg[p].old, reg[p].previous>>
        ELSE <<links["dotfiles/current"], links["dotfiles/previous"]>>

Selection == INSTANCE DotfilesSelection WITH selected <- DotfilesSelected

\* apply, alone or inside an installation, with every crash, undo and recovery
\* of both journals, selects a new generation in one step or not at all.
ImplementsDotfilesSelection == Selection!Spec

\* After a promotion has committed, `cortetsu recover' followed by `cortetsu
\* verify' succeeds: recovering an interrupted call does not take apart the
\* generation that is active and verified.
RecoverKeepsVerified ==
    [][\A p \in Proc :
         /\ reg[p].cmd = "recover" /\ <<pc[p], reg[p]>>' # <<pc[p], reg[p]>>
         /\ ~InstallPending /\ promotion.phase = "COMMITTED" /\ Coherent(ptr)
         => Coherent(ptr')]_vars

-----------------------------------------------------------------------------
(***************************************************************************)
(* Liveness.  A command that runs takes its next step; an operator who     *)
(* finds an installation pending runs `cortetsu recover', or installs      *)
(* again, which recovers first.  Nothing makes anybody start anything else.*)
(***************************************************************************)
Step(p) == InstallStep(p) \/ DotfilesStep(p) \/ PromotionStep(p)

Ended == {"NONE", "RECOVERED", "COMMITTED"}

FairSpec ==
    /\ Spec
    /\ \A p \in Proc : /\ WF_vars(Step(p))
                       /\ SF_vars(install.phase \notin Ended /\ Start(p, "recover"))

\* No sequence of crashes leaves an installation pending for good: it commits
\* or is put back.
InstallEnds == []<>(install.phase \in Ended)
=============================================================================
