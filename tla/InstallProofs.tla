---------------------------- MODULE InstallProofs ----------------------------
(***************************************************************************)
(* Proofs about the installation beside every other command, for any       *)
(* number of processes, any generations, and any number of crashes and     *)
(* errors.                                                                 *)
(*                                                                         *)
(* install.lock alone keeps nobody out: standalone commands do not take    *)
(* it.  What does is that begin() holds system.lock and dotfiles.lock when *)
(* it makes its journal durable, so that no command is then between its    *)
(* check_mutation() and its last write, and that every later command is    *)
(* refused by that check.                                                  *)
(***************************************************************************)
EXTENDS InstallTransaction, TLAPS

\* build-runtime.sh by hand looks at no journal.
NoBuild == "build" \notin Commands

\* Steps after check_mutation() that write links or journals.
ApplyWork == {"restoreThenPlan", "restoreThenFail", "restoreThenDone", "applyPlan",
              "applyPrevious", "applyCurrent", "applyVerify", "applyUndo", "applyCommit"}

RollbackWork == {"rollbackPrevious", "rollbackVerify", "rollbackUndo"}

PromotionWork == {"promotePrevious", "promoteCurrent", "promoteVerify", "promoteCommit",
                  "promoteUndo", "recoverPrevious", "recoverCurrent", "recoverVerify"}

Working == ApplyWork \cup RollbackWork \cup PromotionWork

\* Steps under dotfiles.lock and under system.lock.
DotfilesHeld == ApplyWork \cup RollbackWork \cup
                {"applyCheck", "recoverApplyCheck", "rollbackCheck", "applyQuarantine"}

SystemHeld == PromotionWork \cup {"promoteCheck", "recoverPromotionCheck"}

Recovering == {"recoverInstall", "restoreInstall"}

Location ==
    DotfilesHeld \cup SystemHeld \cup Recovering \cup
    {"idle", "stage", "tryInstallLock", "begin", "activate", "activateLinks", "applyDotfiles",
     "promote", "verify", "commit", "recoverApply", "recoverPromotion", "rollbackDotfiles",
     "buildRuntime", "buildCurrent"}

-----------------------------------------------------------------------------
Registers ==
    [cmd : DOMAIN Program \cup {None}, at : 1 .. 9, token : BOOLEAN, trap : BOOLEAN,
     shell : Shell \cup {None}, helpers : Helpers \cup {None},
     old : Dotfiles \cup {None}, previous : Dotfiles \cup {None}, gen : Dotfiles \cup {None},
     valid : BOOLEAN, i : 1 .. 11]

TypeInv ==
    /\ TypeOK
    /\ pc \in [Proc -> Location]
    /\ reg \in [Proc -> Registers]

\* r is at place `at' of its command line.
InLine(r, cmd, at) == r.cmd = cmd /\ r.at = at

\* The part of a command line that runs under install.lock.
UnderInstallLock(r) == (r.cmd = "install" /\ r.at >= 3) \/ (r.cmd = "recover" /\ r.at >= 2)

\* A step belongs to a subcommand, and that to its place in a command line; the
\* installer has its token from begin to its end, and traps only with it.
Position(step, r) ==
    /\ step = "idle" => r = NoReg
    /\ step # "idle" => r.cmd \in Commands
    /\ r.token <=> r.cmd = "install" /\ r.at >= 5
    /\ r.trap => r.token /\ step \in Recovering
    /\ step = "stage" => InLine(r, "install", 1)
    /\ step = "tryInstallLock" => InLine(r, "install", 2) \/ InLine(r, "recover", 1)
    /\ step \in Recovering => r.trap \/ InLine(r, "install", 3) \/ InLine(r, "recover", 2)
    /\ step = "begin" => InLine(r, "install", 4)
    /\ step \in {"activate", "activateLinks"} => InLine(r, "install", 5)
    /\ step \in {"applyDotfiles", "applyCheck", "applyQuarantine"} \cup (ApplyWork \ {"restoreThenDone"}) =>
         InLine(r, "install", 6) \/ InLine(r, "apply", 1)
    /\ step \in {"promote", "promoteCheck", "promotePrevious", "promoteCurrent", "promoteVerify",
                 "promoteCommit", "promoteUndo"} => InLine(r, "install", 7) \/ InLine(r, "promote", 1)
    /\ step = "verify" => InLine(r, "install", 8)
    /\ step = "commit" => InLine(r, "install", 9)
    /\ step \in {"recoverApply", "recoverApplyCheck", "restoreThenDone"} =>
         InLine(r, "recover", 3) \/ InLine(r, "recoverDotfiles", 1)
    /\ step \in {"recoverPromotion", "recoverPromotionCheck", "recoverPrevious", "recoverCurrent",
                 "recoverVerify"} => InLine(r, "recover", 4) \/ InLine(r, "recoverSystem", 1)
    /\ step \in {"rollbackDotfiles", "rollbackCheck"} \cup RollbackWork => InLine(r, "rollback", 1)
    /\ step \in {"buildRuntime", "buildCurrent"} => InLine(r, "build", 1)

\* How far the loops of a subcommand have come; it starts at 1.
Count(step, i) ==
    /\ step \in Restoring \cup {"promoteUndo"} => i \in 1 .. 3
    /\ step = "rollbackUndo" => i \in 1 .. 2
    /\ step = "activateLinks" => i \in 1 .. 5
    /\ step = "restoreInstall" => i \in 1 .. 11
    /\ step \notin Restoring \cup {"promoteUndo", "rollbackUndo", "activateLinks", "restoreInstall"} =>
         i = 1

\* What recover() has put back when it comes to its i-th target.
Restored(i) ==
    \A k \in 1 .. 10 : k < i =>
        /\ RestoreOrder[k] \in Link => ptr[RestoreOrder[k]] = install.links[RestoreOrder[k]]
        /\ RestoreOrder[k] = "apply-journal" => apply = install.apply
        /\ RestoreOrder[k] = "promotion-journal" => promotion = install.promotion

ProcInv(p) ==
    /\ Position(pc[p], reg[p])
    /\ Count(pc[p], reg[p].i)
    /\ UnderInstallLock(reg[p]) => Installer(p)
    /\ pc[p] \in DotfilesHeld => lock["dotfiles"] = p
    /\ pc[p] \in SystemHeld => lock["system"] = p
    /\ InstallPending /\ pc[p] \in Working => Installer(p)
    /\ reg[p].token => InstallPending
    /\ pc[p] \in ApplyWork \ {"applyPlan"} => apply # NoJournal
    /\ pc[p] \in PromotionWork => promotion # NoJournal
    /\ pc[p] = "restoreInstall" => install.phase = "RECOVERING" /\ (NoBuild => Restored(reg[p].i))

IInv == TypeInv /\ \A p \in Proc : ProcInv(p)

-----------------------------------------------------------------------------
\* What stands where in the command lines.
LEMMA Programs ==
    /\ DOMAIN Program = {"install", "recover", "apply", "promote", "rollback", "build",
                         "recoverDotfiles", "recoverSystem"}
    /\ Program["install"][1] = "stage" /\ Program["install"][2] = "tryInstallLock"
    /\ Program["install"][3] = "recoverInstall" /\ Program["install"][4] = "begin"
    /\ Program["install"][5] = "activate" /\ Program["install"][6] = "applyDotfiles"
    /\ Program["install"][7] = "promote" /\ Program["install"][8] = "verify"
    /\ Program["install"][9] = "commit" /\ Len(Program["install"]) = 9
    /\ Program["recover"][1] = "tryInstallLock" /\ Program["recover"][2] = "recoverInstall"
    /\ Program["recover"][3] = "recoverApply" /\ Program["recover"][4] = "recoverPromotion"
    /\ Len(Program["recover"]) = 4
    /\ Program["apply"][1] = "applyDotfiles" /\ Len(Program["apply"]) = 1
    /\ Program["promote"][1] = "promote" /\ Len(Program["promote"]) = 1
    /\ Program["rollback"][1] = "rollbackDotfiles" /\ Len(Program["rollback"]) = 1
    /\ Program["build"][1] = "buildRuntime" /\ Len(Program["build"]) = 1
    /\ Program["recoverDotfiles"][1] = "recoverApply" /\ Len(Program["recoverDotfiles"]) = 1
    /\ Program["recoverSystem"][1] = "recoverPromotion" /\ Len(Program["recoverSystem"]) = 1
BY DEF Program

\* recover() puts every link and both journals back.
LEMMA OrderCoversAll ==
    /\ \A l \in Link \cup {"apply-journal", "promotion-journal"} :
         \E k \in 1 .. 10 : RestoreOrder[k] = l
    /\ Len(RestoreOrder) = 10
<1>1. /\ RestoreOrder[1] = "promotion-journal" /\ RestoreOrder[2] = "system/previous"
      /\ RestoreOrder[3] = "system/current" /\ RestoreOrder[4] = "helpers/previous"
      /\ RestoreOrder[5] = "helpers/current" /\ RestoreOrder[6] = "dotfiles/previous"
      /\ RestoreOrder[7] = "dotfiles/current" /\ RestoreOrder[8] = "apply-journal"
      /\ RestoreOrder[9] = "shell/previous" /\ RestoreOrder[10] = "shell/current"
      /\ Len(RestoreOrder) = 10
  BY DEF RestoreOrder
<1> QED BY <1>1 DEF Link

\* No journal of its kind is the absence of one.
LEMMA JournalsAre ==
    /\ \A j \in ApplyJournal : j # NoJournal /\ j.phase # "NONE"
    /\ \A j \in PromotionJournal : j # NoJournal /\ j.phase # "NONE"
    /\ \A j \in InstallJournal : j # NoJournal /\ j.phase # "NONE"
    /\ NoJournal.phase = "NONE"
<1>1. \A j \in ApplyJournal : j.phase # "NONE"
  BY DEF ApplyJournal
<1>2. \A j \in PromotionJournal : j.phase # "NONE"
  BY DEF PromotionJournal
<1>3. \A j \in InstallJournal : j.phase # "NONE"
  BY DEF InstallJournal
<1>4. NoJournal.phase = "NONE"
  BY DEF NoJournal
<1> QED BY <1>1, <1>2, <1>3, <1>4

\* A process that does nothing.
LEMMA NoRegTyped ==
    /\ NoReg \in Registers /\ NoReg.i = 1 /\ ~NoReg.token /\ ~UnderInstallLock(NoReg)
    /\ Position("idle", NoReg)
<1>1. NoReg \in Registers /\ NoReg.i = 1 /\ ~NoReg.token /\ NoReg.at = 1 /\ ~NoReg.trap
  BY DEF NoReg, Registers
<1> QED BY <1>1 DEF Position, UnderInstallLock, Recovering, ApplyWork, RollbackWork

\* Nothing runs and nothing is recorded.
LEMMA InitIInv == InitState => IInv
<1> SUFFICES ASSUME InitState PROVE IInv
  OBVIOUS
<1>1. TypeInv
  <2>1. ptr \in Pointers /\ disk \in Disk /\ fresh \subseteq Generation
    BY PlatformAssumption DEF InitState, Disk
  <2>2. \A p \in Proc : reg[p] = NoReg /\ NoReg.at \in 1 .. 9 /\ NoReg.i \in 1 .. 11
    BY DEF InitState, NoReg
  <2>3. pc \in [Proc -> Location]
    BY DEF InitState, Location
  <2>4. reg \in [Proc -> Registers]
    BY NoRegTyped DEF InitState
  <2>5. faults \in 0 .. MaxFaults
    BY PlatformAssumption DEF InitState
  <2> QED BY <2>1, <2>2, <2>3, <2>4, <2>5 DEF InitState, TypeInv, TypeOK
<1>2. ASSUME NEW p \in Proc PROVE ProcInv(p)
  <2>1. pc[p] = "idle" /\ reg[p] = NoReg
    BY DEF InitState
  <2> QED BY <2>1, NoRegTyped DEF ProcInv, Count, Restoring, ApplyWork, RollbackWork,
             PromotionWork, Working, DotfilesHeld, SystemHeld
<1> QED BY <1>1, <1>2 DEF IInv

-----------------------------------------------------------------------------
\* A recovery ends with everything where begin() found it.
PutBack == ptr' = install.links /\ apply' = install.apply /\ promotion' = install.promotion

\* What check_mutation() guards from every command.
Guarded == <<apply, promotion, ptr["system/current"], ptr["system/previous"]>>

\* What a step of q leaves to the others: their program counters, registers and
\* locks, and links and journals but for those its own locks stand for.
Moves(q) ==
    /\ \A p \in Proc \ {q} : pc'[p] = pc[p] /\ reg'[p] = reg[p]
    /\ \A p \in Proc \ {q}, f \in LockFile : lock[f] = p => lock'[f] = p
    /\ install' # install =>
         /\ Installer(q)
         /\ InstallPending' => InstallPending \/ (lock["system"] = None /\ lock["dotfiles"] = None)
         /\ NoBuild /\ install'.phase = "RECOVERED" => PutBack
    /\ apply' # apply => lock["dotfiles"] = q \/ (InstallPending /\ Installer(q))
    /\ promotion' # promotion => lock["system"] = q \/ (InstallPending /\ Installer(q))
    /\ InstallPending /\ (Guarded' # Guarded \/ (NoBuild /\ ptr' # ptr)) => Installer(q)

\* Nobody but the process that holds install.lock is at work while an
\* installation is pending, and begin() finds nobody at work.
LEMMA OthersKeep ==
    ASSUME IInv, NEW q \in Proc, Moves(q), NEW p \in Proc \ {q}
    PROVE  ProcInv(p)'
<1>1. /\ ProcInv(p) /\ pc'[p] = pc[p] /\ reg'[p] = reg[p] /\ p # None
      /\ reg[p].at \in 1 .. 9
  BY PlatformAssumption DEF IInv, TypeInv, TypeOK, Moves
<1>2. \A f \in LockFile : lock[f] = p => lock'[f] = p
  BY DEF Moves
<1>3. /\ Position(pc[p], reg[p])' /\ Count(pc[p], reg[p].i)'
      /\ UnderInstallLock(reg[p])' => Installer(p)'
      /\ (pc[p] \in DotfilesHeld)' => (lock["dotfiles"] = p)'
      /\ (pc[p] \in SystemHeld)' => (lock["system"] = p)'
  BY <1>1, <1>2 DEF ProcInv, Position, Count, Installer, LockFile
<1>4. Installer(p) => install' = install
  BY <1>1 DEF Moves, Installer
<1>5. reg[p].token => Installer(p)
  BY <1>1 DEF ProcInv, Position, UnderInstallLock
<1>6. (reg[p].token => InstallPending)'
  BY <1>1, <1>4, <1>5 DEF ProcInv, InstallPending
<1>7. (InstallPending /\ pc[p] \in Working)' => Installer(p)'
  <2> SUFFICES ASSUME InstallPending', pc[p] \in Working PROVE Installer(p)
    BY <1>1, <1>2 DEF Installer, LockFile
  <2>1. lock["dotfiles"] = p \/ lock["system"] = p
    BY <1>1 DEF ProcInv, Working, DotfilesHeld, SystemHeld
  <2>2. InstallPending
    BY <1>1, <2>1 DEF Moves, InstallPending
  <2> QED BY <1>1, <2>2 DEF ProcInv
<1>8. (pc[p] \in ApplyWork \ {"applyPlan"} => apply # NoJournal)'
  <2> SUFFICES ASSUME pc[p] \in ApplyWork \ {"applyPlan"} PROVE apply' = apply
    BY <1>1 DEF ProcInv
  <2>1. lock["dotfiles"] = p /\ (InstallPending => Installer(p))
    BY <1>1 DEF ProcInv, DotfilesHeld, Working
  <2> QED BY <1>1, <2>1 DEF Moves, Installer
<1>9. (pc[p] \in PromotionWork => promotion # NoJournal)'
  <2> SUFFICES ASSUME pc[p] \in PromotionWork PROVE promotion' = promotion
    BY <1>1 DEF ProcInv
  <2>1. lock["system"] = p /\ (InstallPending => Installer(p))
    BY <1>1 DEF ProcInv, SystemHeld, Working
  <2> QED BY <1>1, <2>1 DEF Moves, Installer
<1>10. (pc[p] = "restoreInstall" =>
          install.phase = "RECOVERING" /\ (NoBuild => Restored(reg[p].i)))'
  <2> SUFFICES ASSUME pc[p] = "restoreInstall"
               PROVE  install' = install /\ (NoBuild => UNCHANGED <<ptr, apply, promotion>>)
    BY <1>1 DEF ProcInv, Restored
  <2>1. reg[p].trap \/ InLine(reg[p], "install", 3) \/ InLine(reg[p], "recover", 2)
    BY <1>1 DEF ProcInv, Position, Recovering
  <2>2. UnderInstallLock(reg[p]) /\ install.phase = "RECOVERING"
    BY <1>1, <2>1 DEF ProcInv, Position, UnderInstallLock, InLine
  <2>3. Installer(p) /\ InstallPending
    BY <1>1, <2>2 DEF ProcInv, InstallPending
  <2> QED BY <1>1, <1>4, <2>3 DEF Moves, Installer, Guarded
<1> QED BY <1>3, <1>6, <1>7, <1>8, <1>9, <1>10 DEF ProcInv

-----------------------------------------------------------------------------
\* A subcommand is over: its locks are free, and what is left of its process is
\* idle, traps, or is at the start of the next subcommand.
After(q) ==
    /\ pc' \in [Proc -> Location] /\ reg' \in [Proc -> Registers]
    /\ lock' \in [LockFile -> Proc \cup {None}]
    /\ \A p \in Proc \ {q} : pc'[p] = pc[p] /\ reg'[p] = reg[p]
    /\ \A p \in Proc \ {q}, f \in LockFile : lock[f] = p => lock'[f] = p
    /\ Position(pc'[q], reg'[q])
    /\ reg'[q].i = 1
    /\ UnderInstallLock(reg'[q]) => Installer(q)'
    /\ pc'[q] \notin DotfilesHeld \cup SystemHeld \cup {"restoreInstall", "activateLinks"}

\* A process frees no lock but its own.
LEMMA ReleaseStep ==
    ASSUME IInv, NEW q \in Proc, NEW files, Release(q, files)
    PROVE  /\ lock' \in [LockFile -> Proc \cup {None}]
           /\ \A p \in Proc \ {q}, f \in LockFile : lock[f] = p => lock'[f] = p
           /\ "install" \notin files => lock'["install"] = lock["install"]
BY DEF Release, IInv, TypeInv, TypeOK, LockFile

LEMMA QuitStep ==
    ASSUME IInv, NEW q \in Proc, Quit(q)
    PROVE  After(q) /\ ~reg'[q].token
<1>1. pc' \in [Proc -> Location] /\ pc'[q] = "idle" /\ \A p \in Proc \ {q} : pc'[p] = pc[p]
  BY DEF Quit, Goto, IInv, TypeInv, Location
<1>2. /\ reg' \in [Proc -> Registers] /\ reg'[q] = NoReg
      /\ \A p \in Proc \ {q} : reg'[p] = reg[p]
  BY NoRegTyped DEF Quit, IInv, TypeInv
<1>3. "idle" \notin DotfilesHeld \cup SystemHeld \cup {"restoreInstall", "activateLinks"}
  BY DEF DotfilesHeld, SystemHeld, ApplyWork, RollbackWork, PromotionWork
<1> QED BY <1>1, <1>2, <1>3, NoRegTyped, ReleaseStep DEF Quit, After

\* What a subcommand starts with.
LEMMA EnterStep ==
    ASSUME IInv, NEW q \in Proc, NEW r \in Registers, NEW step \in Location, Enter(q, step, r),
           Position(step, r), step # "idle", UnderInstallLock(r) => Installer(q),
           step \notin DotfilesHeld \cup SystemHeld \cup {"restoreInstall", "activateLinks"}
    PROVE  After(q) /\ reg'[q].token = r.token
<1>1. pc' \in [Proc -> Location] /\ pc'[q] = step /\ \A p \in Proc \ {q} : pc'[p] = pc[p]
  BY DEF Enter, Goto, IInv, TypeInv
<1>2. PICK s : s = [NoReg EXCEPT !.cmd = r.cmd, !.at = r.at, !.token = r.token, !.trap = r.trap,
                                 !.shell = r.shell, !.helpers = r.helpers]
  OBVIOUS
<1>3. /\ s \in Registers /\ s.cmd = r.cmd /\ s.at = r.at /\ s.token = r.token
      /\ s.trap = r.trap /\ s.i = 1
  <2>1. s = [cmd |-> r.cmd, at |-> r.at, token |-> r.token, trap |-> r.trap, shell |-> r.shell,
             helpers |-> r.helpers, old |-> None, previous |-> None, gen |-> None,
             valid |-> FALSE, i |-> 1]
    BY <1>2 DEF NoReg
  <2>2. /\ r.cmd \in DOMAIN Program \cup {None} /\ r.at \in 1 .. 9
        /\ r.token \in BOOLEAN /\ r.trap \in BOOLEAN
        /\ r.shell \in Shell \cup {None} /\ r.helpers \in Helpers \cup {None}
    BY DEF Registers
  <2> QED BY <2>1, <2>2 DEF Registers
<1>4. reg'[q] = s /\ reg' \in [Proc -> Registers] /\ \A p \in Proc \ {q} : reg'[p] = reg[p]
  BY <1>2, <1>3 DEF Enter, IInv, TypeInv
<1>5. Position(step, s) /\ (UnderInstallLock(s) => UnderInstallLock(r))
  BY <1>3 DEF Position, InLine, UnderInstallLock
<1>6. lock'["install"] = lock["install"]
  BY ReleaseStep DEF Enter
<1> QED BY <1>1, <1>3, <1>4, <1>5, <1>6, ReleaseStep DEF Enter, After, Installer

\* A failure ends the script, and traps if it has a transaction of its own.
LEMMA FailStep ==
    ASSUME IInv, NEW q \in Proc, Fail(q), pc[q] # "idle"
    PROVE  After(q) /\ (reg'[q].token => reg[q].token)
<1>1. reg[q] \in Registers /\ ProcInv(q)
  BY DEF IInv, TypeInv
<1>2. CASE reg[q].token /\ ~reg[q].trap
  <2>1. PICK r : r = [reg[q] EXCEPT !.trap = TRUE]
    OBVIOUS
  <2>2. /\ r \in Registers /\ r.trap /\ r.token /\ r.cmd = reg[q].cmd /\ r.at = reg[q].at
    BY <1>1, <1>2, <2>1 DEF Registers
  <2>3. Position("recoverInstall", r)
    <3>1. r.cmd = "install" /\ r.at >= 5 /\ r.cmd \in Commands
      BY <1>1, <1>2, <2>2 DEF ProcInv, Position
    <3> QED BY <2>2, <3>1 DEF Position, Recovering, ApplyWork, RollbackWork
  <2>4. "recoverInstall" \in Location
             \ (DotfilesHeld \cup SystemHeld \cup {"restoreInstall", "activateLinks"})
    BY DEF Location, DotfilesHeld, SystemHeld, ApplyWork, RollbackWork, PromotionWork, Recovering
  <2>5. UnderInstallLock(r) => Installer(q)
    BY <1>1, <2>2 DEF ProcInv, UnderInstallLock
  <2> QED BY <1>2, <2>1, <2>2, <2>3, <2>4, <2>5, EnterStep DEF Fail
<1>3. CASE ~(reg[q].token /\ ~reg[q].trap)
  BY <1>3, QuitStep DEF Fail
<1> QED BY <1>2, <1>3

\* A subcommand that succeeds is followed by the next of its command line.
LEMMA DoneStep ==
    ASSUME IInv, NEW q \in Proc, NEW r \in Registers, DoneWith(q, r), r.cmd \in Commands,
           ~r.trap => (r.token <=> r.cmd = "install" /\ r.at >= 4),
           ~r.trap => \/ r.cmd = "install" /\ r.at \in 3 .. 9
                      \/ r.cmd = "recover" /\ r.at \in 2 .. 4
                      \/ /\ r.cmd \in {"apply", "promote", "rollback", "recoverDotfiles", "recoverSystem"}
                         /\ r.at = 1,
           r.cmd \in {"install", "recover"} => Installer(q)
    PROVE  After(q) /\ (reg'[q].token => r.token)
<1>1. CASE r.trap \/ r.at + 1 > Len(Program[r.cmd])
  BY <1>1, QuitStep DEF DoneWith
<1>2. CASE ~r.trap /\ ~(r.at + 1 > Len(Program[r.cmd]))
  <2>1. \/ r.cmd = "install" /\ r.at \in 3 .. 8
        \/ r.cmd = "recover" /\ r.at \in 2 .. 3
    <3>1. r.at \in 1 .. 9
      BY DEF Registers
    <3>2. CASE r.cmd = "install"
      <4>1. Len(Program[r.cmd]) = 9
        BY <3>2, Programs
      <4> QED BY <1>2, <3>1, <3>2, <4>1
    <3>3. CASE r.cmd = "recover"
      <4>1. Len(Program[r.cmd]) = 4
        BY <3>3, Programs
      <4> QED BY <1>2, <3>1, <3>3, <4>1
    <3>4. CASE r.cmd \in {"apply", "promote", "rollback", "recoverDotfiles", "recoverSystem"}
      <4>1. Len(Program[r.cmd]) = 1
        BY <3>4, Programs
      <4> QED BY <1>2, <3>1, <3>4, <4>1
    <3> QED BY <1>2, <3>2, <3>3, <3>4
  <2>2. PICK s : s = [r EXCEPT !.at = r.at + 1]
    OBVIOUS
  <2>3. s \in Registers /\ s.at = r.at + 1 /\ s.cmd = r.cmd /\ s.token = r.token /\ s.trap = r.trap
    BY <2>1, <2>2 DEF Registers
  <2>4. PICK step : step = Program[r.cmd][r.at + 1]
    OBVIOUS
  <2>5. /\ r.cmd = "install" /\ r.at = 3 => step = "begin"
        /\ r.cmd = "install" /\ r.at = 4 => step = "activate"
        /\ r.cmd = "install" /\ r.at = 5 => step = "applyDotfiles"
        /\ r.cmd = "install" /\ r.at = 6 => step = "promote"
        /\ r.cmd = "install" /\ r.at = 7 => step = "verify"
        /\ r.cmd = "install" /\ r.at = 8 => step = "commit"
        /\ r.cmd = "recover" /\ r.at = 2 => step = "recoverApply"
        /\ r.cmd = "recover" /\ r.at = 3 => step = "recoverPromotion"
    BY <2>4, Programs
  <2>6. Position(step, s)
    BY <1>2, <2>1, <2>3, <2>5 DEF Position, InLine, Recovering, ApplyWork, RollbackWork
  <2>7. /\ step \in Location \ (DotfilesHeld \cup SystemHeld \cup {"restoreInstall", "activateLinks"})
        /\ step # "idle"
    BY <2>1, <2>5 DEF Location, DotfilesHeld, SystemHeld, ApplyWork, RollbackWork, PromotionWork,
          Recovering
  <2>8. UnderInstallLock(s) => Installer(q)
    BY <2>1
  <2>9. Enter(q, step, s)
    BY <1>2, <2>2, <2>4 DEF DoneWith
  <2> QED BY <2>3, <2>6, <2>7, <2>8, <2>9, EnterStep
<1> QED BY <1>1, <1>2

\* After a subcommand the invariant holds again, if links and journals moved
\* under the locks that stand for them.
LEMMA AfterStep ==
    ASSUME IInv, NEW q \in Proc, After(q), Moves(q), reg'[q].token => InstallPending',
           ptr' \in Pointers, disk' \in Disk, fresh' \subseteq Generation,
           install' \in InstallJournal \cup {NoJournal}, apply' \in ApplyJournal \cup {NoJournal},
           promotion' \in PromotionJournal \cup {NoJournal}, faults' \in 0 .. MaxFaults
    PROVE  IInv' /\ Moves(q)
<1>1. \A p \in Proc : reg'[p].at \in 1 .. 9 /\ reg'[p].i \in 1 .. 11
  BY DEF After, Registers
<1>2. TypeInv'
  BY <1>1 DEF After, TypeInv, TypeOK
<1>3. ProcInv(q)'
  BY DEF After, ProcInv, Count, Restoring, DotfilesHeld, SystemHeld, Working
<1> QED BY <1>2, <1>3, OthersKeep DEF IInv

\* After a step of one process.
LEMMA OneStep ==
    ASSUME IInv, NEW q \in Proc, TypeInv', ProcInv(q)', Moves(q)
    PROVE  IInv' /\ Moves(q)
BY OthersKeep DEF IInv

\* A subcommand ends and leaves links and journals as they are.
LEMMA LeaveStep ==
    ASSUME IInv, NEW q \in Proc, After(q), reg'[q].token => reg[q].token,
           UNCHANGED <<ptr, fresh, journals>>, disk' \in Disk, faults' \in 0 .. MaxFaults
    PROVE  IInv' /\ Moves(q)
<1>1. reg[q].token => InstallPending'
  BY DEF IInv, ProcInv, InstallPending, journals
<1>2. Moves(q)
  BY DEF Moves, After, journals, Guarded
<1> QED BY <1>1, <1>2, AfterStep DEF IInv, TypeInv, TypeOK, journals

\* The subcommand whose last step this is succeeds.
LEMMA DoneFrom ==
    ASSUME IInv, NEW q \in Proc, Done(q),
           pc[q] \in {"recoverInstall", "restoreInstall", "activateLinks", "verify", "applyQuarantine",
                      "promoteCommit", "recoverApplyCheck", "restoreThenDone", "rollbackVerify",
                      "recoverPromotionCheck", "recoverVerify"}
    PROVE  After(q) /\ (reg'[q].token => reg[q].token)
<1>1. ProcInv(q) /\ reg[q] \in Registers /\ reg[q].at \in 1 .. 9
  BY DEF IInv, TypeInv, TypeOK
<1>2. reg[q].cmd \in Commands /\ (reg[q].token <=> reg[q].cmd = "install" /\ reg[q].at >= 5)
  BY <1>1 DEF ProcInv, Position
<1>3. \/ reg[q].trap
      \/ reg[q].cmd = "install" /\ reg[q].at \in {3, 5, 6, 7, 8}
      \/ reg[q].cmd = "recover" /\ reg[q].at \in {2, 3, 4}
      \/ /\ reg[q].cmd \in {"apply", "promote", "rollback", "recoverDotfiles", "recoverSystem"}
         /\ reg[q].at = 1
  BY <1>1 DEF ProcInv, Position, InLine, Recovering, ApplyWork, RollbackWork
<1>4. reg[q].trap => reg[q].token
  BY <1>1 DEF ProcInv, Position
<1>5. reg[q].cmd \in {"install", "recover"} => Installer(q)
  BY <1>1, <1>2, <1>3, <1>4 DEF ProcInv, UnderInstallLock
<1>6. ~reg[q].trap => (reg[q].token <=> reg[q].cmd = "install" /\ reg[q].at >= 4)
  BY <1>1, <1>2, <1>3
<1> QED BY <1>1, <1>2, <1>3, <1>5, <1>6, DoneStep DEF Done

\* A subcommand goes on to another of its steps.
LEMMA GotoStep ==
    ASSUME IInv, NEW q \in Proc, NEW step \in Location, step # "idle", step # "restoreInstall",
           Goto(q, step), UNCHANGED <<install, lock>>,
           reg' \in [Proc -> Registers], \A p \in Proc \ {q} : reg'[p] = reg[p],
           reg'[q].cmd = reg[q].cmd, reg'[q].at = reg[q].at,
           reg'[q].token = reg[q].token, reg'[q].trap = reg[q].trap,
           Position(step, reg[q]), Count(step, reg'[q].i),
           step \in DotfilesHeld => lock["dotfiles"] = q,
           step \in SystemHeld => lock["system"] = q,
           InstallPending /\ step \in Working => Installer(q),
           step \in ApplyWork \ {"applyPlan"} => apply' # NoJournal,
           step \in PromotionWork => promotion' # NoJournal,
           apply' # apply => lock["dotfiles"] = q,
           promotion' # promotion => lock["system"] = q,
           InstallPending /\ (Guarded' # Guarded \/ (NoBuild /\ ptr' # ptr)) => Installer(q),
           ptr' \in Pointers, disk' \in Disk, fresh' \subseteq Generation,
           apply' \in ApplyJournal \cup {NoJournal},
           promotion' \in PromotionJournal \cup {NoJournal}, faults' \in 0 .. MaxFaults
    PROVE  IInv' /\ Moves(q)
<1>1. pc' \in [Proc -> Location] /\ pc'[q] = step /\ \A p \in Proc \ {q} : pc'[p] = pc[p]
  BY DEF Goto, IInv, TypeInv
<1>2. TypeInv'
  <2>1. \A p \in Proc : reg'[p].at \in 1 .. 9 /\ reg'[p].i \in 1 .. 11
    BY DEF Registers
  <2> QED BY <1>1, <2>1 DEF IInv, TypeInv, TypeOK
<1>3. ProcInv(q)'
  <2>1. Position(pc[q], reg[q])'
    BY <1>1 DEF Position, InLine
  <2>2. ProcInv(q)
    BY DEF IInv
  <2> QED BY <1>1, <2>1, <2>2 DEF ProcInv, UnderInstallLock, Installer, InstallPending
<1>4. Moves(q)
  BY <1>1 DEF Moves
<1> QED BY <1>2, <1>3, <1>4, OneStep

\* A counter or another register changes, and nothing that places the command.
LEMMA CountTyped ==
    ASSUME NEW r \in Registers, NEW i \in 1 .. 11
    PROVE  /\ [r EXCEPT !.i = i] \in Registers /\ [r EXCEPT !.i = i].i = i
           /\ [r EXCEPT !.i = i].cmd = r.cmd /\ [r EXCEPT !.i = i].at = r.at
           /\ [r EXCEPT !.i = i].token = r.token /\ [r EXCEPT !.i = i].trap = r.trap
BY DEF Registers

\* One link moves to a generation of its own layer.
LEMMA SetLinkTyped ==
    ASSUME ptr \in Pointers, NEW l \in Link, NEW value \in Builds(l) \cup {None}, SetLink(l, value)
    PROVE  ptr' \in Pointers
<1>1. value \in Generation \cup {None}
  BY DEF Builds, Link, Generation
<1> QED BY <1>1 DEF SetLink, Pointers

\* Where the links of each layer point.
LEMMA LinksTyped ==
    ASSUME IInv
    PROVE  /\ ptr["system/current"] \in System \cup {None} /\ ptr["system/previous"] \in System \cup {None}
           /\ ptr["shell/current"] \in Shell \cup {None} /\ ptr["shell/previous"] \in Shell \cup {None}
           /\ ptr["dotfiles/current"] \in Dotfiles \cup {None}
           /\ ptr["dotfiles/previous"] \in Dotfiles \cup {None}
           /\ ptr["helpers/current"] \in Helpers \cup {None}
           /\ ptr["helpers/previous"] \in Helpers \cup {None}
BY DEF IInv, TypeInv, TypeOK, Pointers, Link, Builds

-----------------------------------------------------------------------------
\* A refusal, an error without an undo, a crash: the command line ends.
LEMMA RefusedStep ==
    ASSUME IInv, NEW q \in Proc,
           \/ StageFails(q) \/ BeginRefused(q) \/ ActivateRefused(q) \/ CommitRefused(q)
           \/ BuildRefused(q) \/ ApplyRefused(q) \/ ApplyBuildFails(q) \/ RecoverApplyRefused(q)
           \/ RollbackRefused(q) \/ PromoteRefused(q) \/ RecoverPromotionRefused(q)
           \/ RecoverPromotionUnverified(q)
    PROVE  IInv' /\ Moves(q)
<1>1. pc[q] # "idle" /\ Fail(q) /\ UNCHANGED <<ptr, disk, fresh, journals, faults>>
  BY DEF StageFails, BeginRefused, ActivateRefused, CommitRefused, BuildRefused, ApplyRefused,
         ApplyBuildFails, RecoverApplyRefused, RollbackRefused, PromoteRefused,
         RecoverPromotionRefused, RecoverPromotionUnverified
<1> QED BY <1>1, FailStep, LeaveStep DEF IInv, TypeInv, TypeOK

LEMMA CrashStep == ASSUME IInv, NEW q \in Proc, Crash(q) PROVE IInv' /\ Moves(q)
<1>1. faults' \in 0 .. MaxFaults
  BY PlatformAssumption DEF Crash, IInv, TypeInv, TypeOK
<1> QED BY <1>1, QuitStep, LeaveStep DEF Crash, IInv, TypeInv, TypeOK

\* A command takes system.lock or dotfiles.lock and is then before its check.
LEMMA LockStep ==
    ASSUME IInv, NEW q \in Proc,
           ApplyLock(q) \/ RecoverApplyLock(q) \/ RollbackLock(q) \/ PromoteLock(q) \/ RecoverPromotionLock(q)
    PROVE  IInv' /\ Moves(q)
<1>1. PICK from, file, to :
        /\ <<from, file, to>> \in {<<"applyDotfiles", "dotfiles", "applyCheck">>,
             <<"recoverApply", "dotfiles", "recoverApplyCheck">>,
             <<"rollbackDotfiles", "dotfiles", "rollbackCheck">>,
             <<"promote", "system", "promoteCheck">>,
             <<"recoverPromotion", "system", "recoverPromotionCheck">>}
        /\ TakeLock(q, from, file, to)
  BY DEF ApplyLock, RecoverApplyLock, RollbackLock, PromoteLock, RecoverPromotionLock
<1>2. /\ pc[q] = from /\ lock[file] = None /\ file \in {"system", "dotfiles"}
      /\ lock' = [lock EXCEPT ![file] = q] /\ pc' = [pc EXCEPT ![q] = to]
      /\ UNCHANGED <<ptr, disk, fresh, journals, reg, faults>>
  BY <1>1 DEF TakeLock, Goto
<1>3. /\ to \in {"applyCheck", "recoverApplyCheck", "rollbackCheck", "promoteCheck", "recoverPromotionCheck"}
      /\ to \in DotfilesHeld => file = "dotfiles"
      /\ to \in SystemHeld => file = "system"
  BY <1>1 DEF DotfilesHeld, SystemHeld, ApplyWork, RollbackWork, PromotionWork
<1>4. ProcInv(q) /\ q # None /\ lock \in [LockFile -> Proc \cup {None}] /\ pc \in [Proc -> Location]
  BY PlatformAssumption DEF IInv, TypeInv, TypeOK
<1>5. TypeInv'
  <2>1. to \in Location
    BY <1>3 DEF Location, DotfilesHeld, SystemHeld
  <2> QED BY <1>2, <1>4, <2>1 DEF IInv, TypeInv, TypeOK, LockFile, journals
<1>6. Position(to, reg[q]) /\ Count(to, reg[q].i)
  BY <1>1, <1>2, <1>4 DEF ProcInv, Position, Count, InLine, Recovering, ApplyWork, RollbackWork, Restoring
<1>7. ProcInv(q)'
  <2>1. to \notin Working \cup {"restoreInstall"} \cup ApplyWork \cup PromotionWork
    BY <1>3 DEF Working, ApplyWork, RollbackWork, PromotionWork
  <2>2. pc'[q] = to /\ lock'[file] = q /\ lock'["install"] = lock["install"]
    BY <1>2, <1>4 DEF LockFile
  <2> QED BY <1>2, <1>3, <1>4, <1>6, <2>1, <2>2 DEF ProcInv, Installer, InstallPending, journals
<1>8. Moves(q)
  <2>1. ASSUME NEW p \in Proc \ {q}, NEW f \in LockFile, lock[f] = p PROVE lock'[f] = p
    BY <1>2, <1>4, <2>1, PlatformAssumption DEF LockFile
  <2> QED BY <1>2, <1>4, <2>1 DEF Moves, journals, Guarded
<1> QED BY <1>5, <1>7, <1>8, OneStep

-----------------------------------------------------------------------------
\* A command line starts.
LEMMA StartStep == ASSUME IInv, NEW q \in Proc, NEW cmd \in Commands, Start(q, cmd) PROVE IInv' /\ Moves(q)
<1>1. ProcInv(q) /\ pc[q] = "idle" /\ reg[q] = NoReg /\ cmd \in DOMAIN Program
  BY PlatformAssumption DEF Start, IInv, ProcInv, Position
<1>2. PICK r : r = [NoReg EXCEPT !.cmd = cmd]
  OBVIOUS
<1>3. /\ r \in Registers /\ r.cmd = cmd /\ r.at = 1 /\ r.token = FALSE /\ r.trap = FALSE /\ r.i = 1
  BY <1>1, <1>2, NoRegTyped DEF NoReg, Registers
<1>4. PICK step : step = Program[cmd][1]
  OBVIOUS
<1>5. /\ cmd = "install" => step = "stage"
      /\ cmd = "recover" => step = "tryInstallLock"
      /\ cmd = "apply" => step = "applyDotfiles"
      /\ cmd = "promote" => step = "promote"
      /\ cmd = "rollback" => step = "rollbackDotfiles"
      /\ cmd = "build" => step = "buildRuntime"
      /\ cmd = "recoverDotfiles" => step = "recoverApply"
      /\ cmd = "recoverSystem" => step = "recoverPromotion"
  BY <1>4, Programs
<1>6. cmd \in {"install", "recover", "apply", "promote", "rollback", "build", "recoverDotfiles",
               "recoverSystem"}
  BY <1>1, Programs
<1>7. step \in {"stage", "tryInstallLock", "applyDotfiles", "promote", "rollbackDotfiles",
                "buildRuntime", "recoverApply", "recoverPromotion"}
  BY <1>5, <1>6
<1>8. After(q)
  <2>1. Position(step, r)
    BY <1>3, <1>5, <1>6, <1>7 DEF Position, InLine, Recovering, ApplyWork, RollbackWork
  <2>2. step \in Location \ (DotfilesHeld \cup SystemHeld \cup {"restoreInstall", "activateLinks"})
    BY <1>7 DEF Location, DotfilesHeld, SystemHeld, ApplyWork, RollbackWork, PromotionWork
  <2>3. pc' = [pc EXCEPT ![q] = step] /\ reg' = [reg EXCEPT ![q] = r] /\ lock' = lock
    BY <1>1, <1>2, <1>4 DEF Start, Goto
  <2>4. ~UnderInstallLock(r)
    BY <1>3 DEF UnderInstallLock
  <2> QED BY <1>3, <2>1, <2>2, <2>3, <2>4 DEF After, IInv, TypeInv, TypeOK
<1>9. reg'[q].token = FALSE
  <2>1. reg' = [reg EXCEPT ![q] = r]
    BY <1>1, <1>2 DEF Start
  <2> QED BY <1>3, <2>1 DEF IInv, TypeInv
<1> QED BY <1>8, <1>9, LeaveStep DEF Start, IInv, TypeInv, TypeOK

\* The installer builds its shell and helpers.
LEMMA StageStep == ASSUME IInv, NEW q \in Proc, Stage(q) PROVE IInv' /\ Moves(q)
<1>1. ProcInv(q) /\ pc[q] = "stage" /\ reg[q] \in Registers
  BY DEF Stage, IInv, TypeInv
<1>2. PICK s \in fresh \cap Shell, h \in fresh \cap Helpers :
        /\ disk' = [disk EXCEPT ![s] = "intact", ![h] = "intact"]
        /\ fresh' = fresh \ {s, h}
        /\ Goto(q, "tryInstallLock")
        /\ reg' = [reg EXCEPT ![q].shell = s, ![q].helpers = h, ![q].at = 2]
  BY DEF Stage
<1>3. PICK r : r = [reg[q] EXCEPT !.shell = s, !.helpers = h, !.at = 2]
  OBVIOUS
<1>4. /\ r \in Registers /\ r.cmd = reg[q].cmd /\ r.at = 2 /\ r.token = reg[q].token
      /\ r.trap = reg[q].trap /\ r.i = reg[q].i
  <2>1. /\ r.cmd = reg[q].cmd /\ r.at = 2 /\ r.token = reg[q].token /\ r.trap = reg[q].trap
        /\ r.i = reg[q].i
    BY <1>1, <1>3 DEF Registers
  <2>2. s \in Shell \cup {None} /\ h \in Helpers \cup {None} /\ 2 \in 1 .. 9
    OBVIOUS
  <2>3. r \in Registers
    BY <1>1, <1>3, <2>2 DEF Registers
  <2> QED BY <2>1, <2>3
<1>5. reg' = [reg EXCEPT ![q] = r]
  BY <1>2, <1>3 DEF IInv, TypeInv
<1>6. reg[q].cmd = "install" /\ reg[q].cmd \in Commands /\ ~reg[q].token /\ ~reg[q].trap /\ reg[q].i = 1
  BY <1>1 DEF ProcInv, Position, InLine, Count, Restoring
<1>7. After(q)
  <2>1. Position("tryInstallLock", r) /\ ~UnderInstallLock(r)
    BY <1>4, <1>6 DEF Position, InLine, Recovering, ApplyWork, RollbackWork, UnderInstallLock
  <2>2. "tryInstallLock" \in Location
             \ (DotfilesHeld \cup SystemHeld \cup {"restoreInstall", "activateLinks"})
    BY DEF Location, DotfilesHeld, SystemHeld, ApplyWork, RollbackWork, PromotionWork
  <2>3. /\ reg' \in [Proc -> Registers] /\ reg'[q] = r
        /\ \A p \in Proc \ {q} : reg'[p] = reg[p]
    BY <1>4, <1>5 DEF IInv, TypeInv
  <2>4. /\ pc' \in [Proc -> Location] /\ pc'[q] = "tryInstallLock"
        /\ \A p \in Proc \ {q} : pc'[p] = pc[p]
    BY <1>2, <2>2 DEF Goto, IInv, TypeInv
  <2>5. lock' = lock /\ lock' \in [LockFile -> Proc \cup {None}]
    BY DEF Stage, IInv, TypeInv, TypeOK
  <2> QED BY <1>4, <1>6, <2>1, <2>2, <2>3, <2>4, <2>5 DEF After
<1>8. disk' \in Disk /\ fresh' \subseteq Generation
  BY <1>2 DEF IInv, TypeInv, TypeOK, Disk
<1>9. Moves(q) /\ ~reg'[q].token
  BY <1>4, <1>5, <1>6, <1>7 DEF Moves, After, Stage, journals, Guarded, IInv, TypeInv
<1> QED BY <1>7, <1>8, <1>9, AfterStep DEF Stage, journals, IInv, TypeInv, TypeOK

\* flock -n on install.lock.
LEMMA TryInstallLockStep == ASSUME IInv, NEW q \in Proc, TryInstallLock(q) PROVE IInv' /\ Moves(q)
<1>1. ProcInv(q) /\ pc[q] = "tryInstallLock" /\ reg[q] \in Registers
  BY DEF TryInstallLock, IInv, TypeInv
<1>2. CASE lock["install"] # None
  BY <1>2, QuitStep, LeaveStep DEF TryInstallLock, IInv, TypeInv, TypeOK
<1>3. CASE lock["install"] = None
  <2>1. reg[q].cmd \in Commands /\ (InLine(reg[q], "install", 2) \/ InLine(reg[q], "recover", 1))
    BY <1>1 DEF ProcInv, Position
  <2>2. PICK r : r = [reg[q] EXCEPT !.at = reg[q].at + 1]
    OBVIOUS
  <2>3. /\ r \in Registers /\ r.cmd = reg[q].cmd /\ r.at = reg[q].at + 1 /\ r.i = reg[q].i
        /\ r.token = reg[q].token /\ r.trap = reg[q].trap
    BY <1>1, <2>1, <2>2 DEF Registers, InLine
  <2>4. Program[reg[q].cmd][reg[q].at + 1] = "recoverInstall"
    BY <2>1, Programs DEF InLine
  <2>5. /\ lock' = [lock EXCEPT !["install"] = q] /\ pc' = [pc EXCEPT ![q] = "recoverInstall"]
        /\ reg' = [reg EXCEPT ![q] = r]
    BY <1>1, <1>3, <2>2, <2>4 DEF TryInstallLock, Goto, IInv, TypeInv
  <2>6. ~r.token /\ ~r.trap /\ r.i = 1
    BY <1>1, <2>1, <2>3 DEF ProcInv, Position, InLine, Count, Restoring, Recovering
  <2>7. Position("recoverInstall", r)
    BY <2>1, <2>3, <2>6 DEF Position, InLine, Recovering, ApplyWork, RollbackWork
  <2>8. After(q)
    <3>1. "recoverInstall" \in Location
             \ (DotfilesHeld \cup SystemHeld \cup {"restoreInstall", "activateLinks"})
      BY DEF Location, DotfilesHeld, SystemHeld, ApplyWork, RollbackWork, PromotionWork, Recovering
    <3>2. ASSUME NEW p \in Proc \ {q}, NEW f \in LockFile, lock[f] = p PROVE lock'[f] = p
      BY <1>3, <2>5, <3>2, PlatformAssumption DEF LockFile, IInv, TypeInv, TypeOK
    <3> QED BY <2>3, <2>5, <2>6, <2>7, <3>1, <3>2
          DEF After, Installer, LockFile, IInv, TypeInv, TypeOK
  <2> QED BY <2>5, <2>6, <2>8, LeaveStep DEF TryInstallLock, IInv, TypeInv, TypeOK
<1> QED BY <1>2, <1>3

-----------------------------------------------------------------------------
\* Who is under install.lock at the installer's own steps.
LEMMA InstallerSteps ==
    ASSUME IInv, NEW q \in Proc,
           pc[q] \in {"recoverInstall", "restoreInstall", "begin", "activate", "activateLinks", "verify",
                      "commit"}
    PROVE  /\ Installer(q) /\ reg[q].cmd \in Commands
           /\ pc[q] \in {"activate", "activateLinks", "verify", "commit", "restoreInstall"} => InstallPending
<1>1. ProcInv(q) /\ reg[q].at \in 1 .. 9
  BY DEF IInv, TypeInv, TypeOK
<1>2. \/ reg[q].trap \/ (reg[q].cmd = "install" /\ reg[q].at >= 3)
      \/ (reg[q].cmd = "recover" /\ reg[q].at >= 2)
  BY <1>1 DEF ProcInv, Position, InLine, Recovering
<1>3. Installer(q)
  BY <1>1, <1>2 DEF ProcInv, Position, UnderInstallLock
<1>4. pc[q] \in {"activate", "activateLinks", "verify", "commit"} =>
        reg[q].cmd = "install" /\ reg[q].at >= 5
  BY <1>1 DEF ProcInv, Position, InLine
<1>5. pc[q] \in {"activate", "activateLinks", "verify", "commit", "restoreInstall"} => InstallPending
  BY <1>1, <1>4 DEF ProcInv, Position, InstallPending
<1>6. reg[q].cmd \in Commands
  BY <1>1 DEF ProcInv, Position
<1> QED BY <1>3, <1>5, <1>6

\* A phase is all that changes in a journal.
LEMMA PhaseTyped ==
    /\ \A j \in InstallJournal, x \in {"PREPARED", "ACTIVE", "RECOVERING", "RECOVERED", "COMMITTED"} :
         /\ [j EXCEPT !.phase = x] \in InstallJournal /\ [j EXCEPT !.phase = x].phase = x
         /\ [j EXCEPT !.phase = x].links = j.links /\ [j EXCEPT !.phase = x].apply = j.apply
         /\ [j EXCEPT !.phase = x].promotion = j.promotion
    /\ \A j \in ApplyJournal, x \in {"PREPARED", "RECOVERING", "RECOVERED", "COMMITTED"} :
         [j EXCEPT !.phase = x] \in ApplyJournal
    /\ \A j \in PromotionJournal, x \in {"PREPARED", "COMMITTED", "RECOVERED"} :
         [j EXCEPT !.phase = x] \in PromotionJournal
<1>1. ASSUME NEW j \in InstallJournal,
             NEW x \in {"PREPARED", "ACTIVE", "RECOVERING", "RECOVERED", "COMMITTED"}
      PROVE  /\ [j EXCEPT !.phase = x] \in InstallJournal /\ [j EXCEPT !.phase = x].phase = x
             /\ [j EXCEPT !.phase = x].links = j.links /\ [j EXCEPT !.phase = x].apply = j.apply
             /\ [j EXCEPT !.phase = x].promotion = j.promotion
  BY DEF InstallJournal
<1>2. ASSUME NEW j \in ApplyJournal, NEW x \in {"PREPARED", "RECOVERING", "RECOVERED", "COMMITTED"}
      PROVE  [j EXCEPT !.phase = x] \in ApplyJournal
  BY DEF ApplyJournal
<1>3. ASSUME NEW j \in PromotionJournal, NEW x \in {"PREPARED", "COMMITTED", "RECOVERED"}
      PROVE  [j EXCEPT !.phase = x] \in PromotionJournal
  BY DEF PromotionJournal
<1> QED BY <1>1, <1>2, <1>3

\* recover() begins, or finds nothing to do.
LEMMA RecoverInstallStep == ASSUME IInv, NEW q \in Proc, RecoverInstall(q) PROVE IInv' /\ Moves(q)
<1>1. pc[q] = "recoverInstall" /\ Installer(q) /\ ProcInv(q)
  BY InstallerSteps DEF RecoverInstall, IInv
<1>2. CASE ~InstallPending
  BY <1>1, <1>2, DoneFrom, LeaveStep DEF RecoverInstall, journals, IInv, TypeInv, TypeOK
<1>3. CASE InstallPending
  <2>1. /\ install' = [install EXCEPT !.phase = "RECOVERING"]
        /\ pc' = [pc EXCEPT ![q] = "restoreInstall"]
        /\ UNCHANGED <<lock, reg, ptr, disk, fresh, apply, promotion, faults>>
    BY <1>3 DEF RecoverInstall, Goto
  <2>2. install \in InstallJournal
    BY <1>3, JournalsAre DEF InstallPending, IInv, TypeInv, TypeOK
  <2>3. install' \in InstallJournal /\ install'.phase = "RECOVERING" /\ InstallPending'
    BY <2>1, <2>2, PhaseTyped DEF InstallPending
  <2>4. TypeInv'
    BY <2>1, <2>3 DEF IInv, TypeInv, TypeOK, Location, Recovering
  <2>5. reg[q].i = 1
    BY <1>1 DEF ProcInv, Count, Restoring
  <2>6. Restored(1)'
    BY DEF Restored
  <2>7. ProcInv(q)'
    <3>1. pc'[q] = "restoreInstall" /\ reg'[q] = reg[q]
      BY <2>1 DEF IInv, TypeInv
    <3>2. Position("restoreInstall", reg[q]) /\ Count("restoreInstall", 1)
      BY <1>1 DEF ProcInv, Position, Count, Recovering, ApplyWork, RollbackWork, Restoring, InLine
    <3>3. "restoreInstall" \notin DotfilesHeld \cup SystemHeld \cup Working
      BY DEF DotfilesHeld, SystemHeld, Working, ApplyWork, RollbackWork, PromotionWork
    <3> QED BY <1>1, <2>1, <2>3, <2>5, <2>6, <3>1, <3>2, <3>3
          DEF ProcInv, Installer, Working, DotfilesHeld, SystemHeld
  <2>8. Moves(q)
    BY <1>1, <1>3, <2>1, <2>3 DEF Moves, IInv, TypeInv
  <2> QED BY <2>4, <2>7, <2>8, OneStep
<1> QED BY <1>2, <1>3

\* recover() puts its next target back.
LEMMA RestoreTargetStep == ASSUME IInv, NEW q \in Proc, RestoreTarget(q) PROVE IInv' /\ Moves(q)
<1>1. /\ pc[q] = "restoreInstall" /\ Installer(q) /\ InstallPending /\ ProcInv(q)
      /\ install \in InstallJournal /\ reg[q] \in Registers /\ reg[q].i \in 1 .. 10
  <2>1. pc[q] = "restoreInstall" /\ Installer(q) /\ InstallPending /\ ProcInv(q) /\ reg[q] \in Registers
    BY InstallerSteps DEF RestoreTarget, IInv, TypeInv
  <2>2. install \in InstallJournal
    BY <2>1, JournalsAre DEF InstallPending, IInv, TypeInv, TypeOK
  <2>3. reg[q].i \in 1 .. 11 /\ reg[q].i <= 10
    BY <2>1, OrderCoversAll DEF RestoreTarget, Registers
  <2> QED BY <2>1, <2>2, <2>3
<1>2. PICK target, n : target = RestoreOrder[reg[q].i] /\ n = reg[q].i + 1
  OBVIOUS
<1>3. /\ ptr' = IF target \in Link THEN [ptr EXCEPT ![target] = install.links[target]] ELSE ptr
      /\ apply' = IF target = "apply-journal" THEN install.apply ELSE apply
      /\ promotion' = IF target = "promotion-journal" THEN install.promotion ELSE promotion
      /\ reg' = [reg EXCEPT ![q].i = n]
      /\ UNCHANGED <<disk, fresh, install, lock, pc, faults>>
  BY <1>2 DEF RestoreTarget
<1>4. /\ install.links \in Pointers /\ install.apply \in ApplyJournal \cup {NoJournal}
      /\ install.promotion \in PromotionJournal \cup {NoJournal}
  BY <1>1 DEF InstallJournal
<1>5. ptr' \in Pointers
  BY <1>3, <1>4 DEF Pointers, IInv, TypeInv, TypeOK
<1>6. PICK r : r = [reg[q] EXCEPT !.i = n]
  OBVIOUS
<1>7. /\ r \in Registers /\ r.i = n /\ r.cmd = reg[q].cmd /\ r.at = reg[q].at
      /\ r.token = reg[q].token /\ r.trap = reg[q].trap
  <2>1. n \in 1 .. 11
    BY <1>1, <1>2
  <2> QED BY <1>1, <1>6, <2>1, CountTyped
<1>8. /\ reg' \in [Proc -> Registers] /\ reg'[q] = r /\ \A p \in Proc \ {q} : reg'[p] = reg[p]
  BY <1>3, <1>6, <1>7 DEF IInv, TypeInv
<1>9. TypeInv'
  <2>1. \A p \in Proc : reg'[p].at \in 1 .. 9 /\ reg'[p].i \in 1 .. 11
    BY <1>8 DEF Registers
  <2> QED BY <1>3, <1>4, <1>5, <1>8, <2>1 DEF IInv, TypeInv, TypeOK
<1>10. NoBuild => Restored(n)'
  <2> SUFFICES ASSUME NoBuild, NEW k \in 1 .. 10, k < n
               PROVE  /\ RestoreOrder[k] \in Link =>
                           ptr'[RestoreOrder[k]] = install.links[RestoreOrder[k]]
                      /\ RestoreOrder[k] = "apply-journal" => apply' = install.apply
                      /\ RestoreOrder[k] = "promotion-journal" => promotion' = install.promotion
    BY <1>3 DEF Restored
  <2>1. k < reg[q].i \/ RestoreOrder[k] = target
    BY <1>1, <1>2
  <2>2. Restored(reg[q].i)
    BY <1>1 DEF ProcInv
  <2>3. CASE RestoreOrder[k] = target
    BY <1>3, <2>3 DEF IInv, TypeInv, TypeOK, Pointers
  <2>4. CASE k < reg[q].i
    BY <1>3, <2>2, <2>4 DEF Restored, IInv, TypeInv, TypeOK, Pointers
  <2> QED BY <2>1, <2>3, <2>4
<1>11. ProcInv(q)'
  <2>1. pc'[q] = "restoreInstall" /\ reg'[q].i \in 1 .. 11
    BY <1>1, <1>2, <1>3, <1>7, <1>8 DEF IInv, TypeInv
  <2>2. Position("restoreInstall", r)
    BY <1>1, <1>7 DEF ProcInv, Position, InLine, Recovering, ApplyWork, RollbackWork
  <2>3. "restoreInstall" \notin DotfilesHeld \cup SystemHeld \cup Working
    BY DEF DotfilesHeld, SystemHeld, Working, ApplyWork, RollbackWork, PromotionWork
  <2>4. Count("restoreInstall", r.i)
    BY <1>8, <2>1 DEF Count, Restoring
  <2> QED BY <1>1, <1>3, <1>7, <1>8, <1>10, <2>1, <2>2, <2>3, <2>4
        DEF ProcInv, Installer, InstallPending, Working, DotfilesHeld, SystemHeld
<1>12. Moves(q)
  BY <1>1, <1>3, <1>8 DEF Moves
<1> QED BY <1>9, <1>11, <1>12, OneStep

\* recover() has put everything back.
LEMMA InstallRecoveredStep == ASSUME IInv, NEW q \in Proc, InstallRecovered(q) PROVE IInv' /\ Moves(q)
<1>1. pc[q] = "restoreInstall" /\ Installer(q) /\ InstallPending /\ ProcInv(q)
  BY InstallerSteps DEF InstallRecovered, IInv
<1>2. install \in InstallJournal
  BY <1>1, JournalsAre DEF InstallPending, IInv, TypeInv, TypeOK
<1>3. install' \in InstallJournal /\ ~InstallPending'
  BY <1>2, PhaseTyped DEF InstallRecovered, InstallPending
<1>4. After(q) /\ (reg'[q].token => reg[q].token)
  BY <1>1, DoneFrom DEF InstallRecovered
<1>5. ~reg'[q].token
  <2>1. CASE reg[q].trap
    BY <2>1, QuitStep DEF InstallRecovered, Done, DoneWith
  <2>2. CASE ~reg[q].trap
    BY <1>1, <1>4, <2>2 DEF ProcInv, Position, InLine, Recovering
  <2> QED BY <2>1, <2>2
<1>6. ASSUME NoBuild PROVE PutBack
  <2>1. reg[q] \in Registers /\ reg[q].i \in 1 .. 11 /\ reg[q].i > 10
    BY OrderCoversAll DEF InstallRecovered, IInv, TypeInv, Registers
  <2>2. \A k \in 1 .. 10 : k < reg[q].i
    BY <2>1
  <2>3. Restored(reg[q].i)
    BY <1>1, <1>6 DEF ProcInv
  <2>4. apply = install.apply /\ promotion = install.promotion
    BY <2>2, <2>3, OrderCoversAll DEF Restored, Link
  <2>5. \A l \in Link : ptr[l] = install.links[l]
    BY <2>2, <2>3, OrderCoversAll DEF Restored
  <2>6. install.links \in Pointers /\ ptr \in Pointers
    BY <1>2 DEF InstallJournal, IInv, TypeInv, TypeOK
  <2>7. ptr = install.links
    BY <2>5, <2>6 DEF Pointers
  <2> QED BY <2>4, <2>7 DEF InstallRecovered, PutBack
<1>7. Moves(q)
  BY <1>1, <1>3, <1>4, <1>6 DEF Moves, After, InstallRecovered
<1> QED BY <1>3, <1>4, <1>5, <1>7, AfterStep DEF InstallRecovered, IInv, TypeInv, TypeOK

-----------------------------------------------------------------------------
\* begin() records everything while nobody else is at work.
LEMMA BeginStep == ASSUME IInv, NEW q \in Proc, Begin(q) PROVE IInv' /\ Moves(q)
<1>1. /\ pc[q] = "begin" /\ Installer(q) /\ ProcInv(q) /\ reg[q] \in Registers
      /\ reg[q].cmd \in Commands /\ InLine(reg[q], "install", 4) /\ ~reg[q].trap
  BY InstallerSteps DEF Begin, IInv, TypeInv, ProcInv, Position, Recovering
<1>2. PICK r : r = [reg[q] EXCEPT !.token = TRUE]
  OBVIOUS
<1>3. /\ r \in Registers /\ r.token /\ r.cmd = reg[q].cmd /\ r.at = reg[q].at /\ r.trap = reg[q].trap
  BY <1>1, <1>2 DEF Registers
<1>4. After(q)
  <2>1. DoneWith(q, r)
    BY <1>2 DEF Begin
  <2> QED BY <1>1, <1>3, <2>1, DoneStep DEF InLine
<1>5. reg[q].shell \in Shell /\ reg[q].helpers \in Helpers
  BY <1>1, StoreAssumption DEF Begin, BeginAllowed, Intact, Exists, Registers
<1>6. ASSUME NEW c \in System \cup {None}, NEW h \in Helpers \cup {None}
      PROVE  BeginJournal(q, c, h) \in InstallJournal /\ BeginJournal(q, c, h).phase = "PREPARED"
  BY <1>5 DEF BeginJournal, InstallJournal, IInv, TypeInv, TypeOK
<1>7. /\ install' \in InstallJournal /\ install'.phase = "PREPARED"
      /\ disk' \in Disk /\ fresh' \subseteq Generation
  <2>1. CASE NeedsCheckpoint
    <3>1. PICK c \in Checkpoints :
            /\ install' = BeginJournal(q, c, Manifest[c].helpers)
            /\ disk' = [disk EXCEPT ![c] = "intact", ![Manifest[c].helpers] = "intact"]
            /\ fresh' = fresh \ {c, Manifest[c].helpers}
      BY <2>1 DEF Begin
    <3>2. c \in System /\ Manifest[c].helpers \in Helpers \cup {None}
      BY StoreAssumption DEF Checkpoints, SystemMeta
    <3>3. disk' \in Disk /\ fresh' \subseteq Generation
      BY <3>1 DEF Disk, IInv, TypeInv, TypeOK
    <3> QED BY <1>6, <3>1, <3>2, <3>3
  <2>2. CASE ~NeedsCheckpoint
    BY <1>6, <2>2 DEF Begin, IInv, TypeInv, TypeOK
  <2> QED BY <2>1, <2>2
<1>8. Moves(q)
  BY <1>1, <1>4, <1>7 DEF Moves, After, Begin
<1> QED BY <1>4, <1>7, <1>8, AfterStep DEF Begin, InstallPending, IInv, TypeInv, TypeOK

\* activate(): its ACTIVE record.
LEMMA ActivateStep == ASSUME IInv, NEW q \in Proc, Activate(q) PROVE IInv' /\ Moves(q)
<1>1. pc[q] = "activate" /\ Installer(q) /\ InstallPending /\ ProcInv(q)
  BY InstallerSteps DEF Activate, IInv
<1>2. install \in InstallJournal
  BY <1>1, JournalsAre DEF InstallPending, IInv, TypeInv, TypeOK
<1>3. install' \in InstallJournal /\ InstallPending' /\ install'.phase = "ACTIVE"
  BY <1>2, PhaseTyped DEF Activate, InstallPending
<1>4. pc' = [pc EXCEPT ![q] = "activateLinks"] /\ UNCHANGED <<reg, lock, ptr, apply, promotion>>
  BY DEF Activate, Goto
<1>5. TypeInv'
  BY <1>3, <1>4 DEF Activate, IInv, TypeInv, TypeOK, Location
<1>6. ProcInv(q)'
  <2>1. pc'[q] = "activateLinks" /\ reg'[q] = reg[q]
    BY <1>4 DEF IInv, TypeInv
  <2>2. Position("activateLinks", reg[q]) /\ Count("activateLinks", reg[q].i)
    BY <1>1 DEF ProcInv, Position, Count, Recovering, ApplyWork, RollbackWork, Restoring, InLine
  <2>3. "activateLinks" \notin DotfilesHeld \cup SystemHeld \cup Working
    BY DEF DotfilesHeld, SystemHeld, Working, ApplyWork, RollbackWork, PromotionWork
  <2> QED BY <1>1, <1>3, <1>4, <2>1, <2>2, <2>3
        DEF ProcInv, Installer, Working, DotfilesHeld, SystemHeld
<1>7. Moves(q)
  BY <1>1, <1>3, <1>4 DEF Moves, IInv, TypeInv
<1> QED BY <1>5, <1>6, <1>7, OneStep

\* Every link activate() moves stays in its layer.
LEMMA ActivateValuesTyped ==
    ASSUME IInv, InstallPending, NEW i \in 1 .. 5
    PROVE  /\ ActivateOrder[i] \in Link
           /\ ActivateValues(ActivateOrder[i]) \subseteq Builds(ActivateOrder[i]) \cup {None}
<1>1. install \in InstallJournal
  BY JournalsAre DEF InstallPending, IInv, TypeInv, TypeOK
<1>2. /\ install.checkpoint \in System \cup {None} /\ install.legacyHelpers \in Helpers \cup {None}
      /\ install.helpers \in Helpers /\ install.shell \in Shell
  BY <1>1 DEF InstallJournal
<1>3. /\ ActivateOrder[1] = "system/current" /\ ActivateOrder[2] = "helpers/previous"
      /\ ActivateOrder[3] = "helpers/current" /\ ActivateOrder[4] = "shell/previous"
      /\ ActivateOrder[5] = "shell/current"
  BY DEF ActivateOrder
<1>4. /\ ActivateValues("system/current") \subseteq System \cup {None}
      /\ ActivateValues("helpers/previous") \subseteq Helpers \cup {None}
      /\ ActivateValues("helpers/current") \subseteq Helpers \cup {None}
      /\ ActivateValues("shell/previous") \subseteq Shell \cup {None}
      /\ ActivateValues("shell/current") \subseteq Shell \cup {None}
  BY <1>2, LinksTyped DEF ActivateValues, ShellsKept
<1>5. /\ Builds("system/current") = System /\ Builds("helpers/previous") = Helpers
      /\ Builds("helpers/current") = Helpers /\ Builds("shell/previous") = Shell
      /\ Builds("shell/current") = Shell
  BY DEF Builds
<1>6. i = 1 \/ i = 2 \/ i = 3 \/ i = 4 \/ i = 5
  OBVIOUS
<1> QED BY <1>3, <1>4, <1>5, <1>6 DEF Link

LEMMA ActivateLinkStep == ASSUME IInv, NEW q \in Proc, ActivateLink(q) PROVE IInv' /\ Moves(q)
<1>1. /\ pc[q] = "activateLinks" /\ Installer(q) /\ InstallPending /\ ProcInv(q)
      /\ reg[q] \in Registers /\ reg[q].i \in 1 .. 5
  BY InstallerSteps DEF ActivateLink, IInv, TypeInv, ProcInv, Count
<1>2. ptr' \in Pointers
  BY <1>1, ActivateValuesTyped, SetLinkTyped DEF ActivateLink, IInv, TypeInv, TypeOK
<1>3. UNCHANGED <<disk, fresh, journals, faults>>
  BY DEF ActivateLink
<1>4. Len(ActivateOrder) = 5
  BY DEF ActivateOrder
<1>5. CASE reg[q].i = 5
  <2>1. After(q) /\ (reg'[q].token => reg[q].token)
    BY <1>1, <1>4, <1>5, DoneFrom DEF ActivateLink
  <2>2. Moves(q)
    BY <1>1, <1>3, <2>1 DEF Moves, After, journals
  <2> QED BY <1>1, <1>2, <1>3, <2>1, <2>2, AfterStep DEF journals, InstallPending, IInv, TypeInv, TypeOK
<1>6. CASE reg[q].i # 5
  <2>1. reg' = [reg EXCEPT ![q].i = reg[q].i + 1] /\ UNCHANGED <<lock, pc>> /\ reg[q].i + 1 \in 1 .. 5
    BY <1>1, <1>4, <1>6 DEF ActivateLink
  <2>2. PICK n, r : n = reg[q].i + 1 /\ r = [reg[q] EXCEPT !.i = n]
    OBVIOUS
  <2>3. /\ r \in Registers /\ r.i \in 1 .. 5 /\ r.cmd = reg[q].cmd /\ r.at = reg[q].at
        /\ r.token = reg[q].token /\ r.trap = reg[q].trap
    <3>1. n \in 1 .. 11 /\ n \in 1 .. 5
      BY <1>1, <2>1, <2>2
    <3> QED BY <1>1, <2>2, <3>1, CountTyped
  <2>4. /\ reg' \in [Proc -> Registers] /\ reg'[q] = r /\ \A p \in Proc \ {q} : reg'[p] = reg[p]
    BY <2>1, <2>2, <2>3 DEF IInv, TypeInv
  <2>5. Goto(q, "activateLinks")
    BY <1>1, <2>1 DEF Goto, IInv, TypeInv
  <2>6. Position("activateLinks", reg[q]) /\ Count("activateLinks", r.i)
    BY <1>1, <2>3 DEF ProcInv, Count, Restoring
  <2>7. "activateLinks" \in Location
             \ (DotfilesHeld \cup SystemHeld \cup Working \cup ApplyWork \cup PromotionWork)
    BY DEF Location, DotfilesHeld, SystemHeld, Working, ApplyWork, RollbackWork, PromotionWork
  <2> QED BY <1>1, <1>2, <1>3, <2>1, <2>3, <2>4, <2>5, <2>6, <2>7, GotoStep
        DEF journals, IInv, TypeInv, TypeOK
<1> QED BY <1>5, <1>6

\* cortetsu verify, and the commit.
LEMMA VerifyStep == ASSUME IInv, NEW q \in Proc, VerifyInstalled(q) PROVE IInv' /\ Moves(q)
<1>1. pc[q] = "verify" /\ (Done(q) \/ Fail(q)) /\ UNCHANGED <<ptr, disk, fresh, journals, faults>>
  BY DEF VerifyInstalled
<1> QED BY <1>1, DoneFrom, FailStep, LeaveStep DEF IInv, TypeInv, TypeOK

LEMMA CommitStep == ASSUME IInv, NEW q \in Proc, Commit(q) PROVE IInv' /\ Moves(q)
<1>1. pc[q] = "commit" /\ Installer(q) /\ InstallPending /\ Quit(q)
  BY InstallerSteps DEF Commit
<1>2. install \in InstallJournal
  BY <1>1, JournalsAre DEF InstallPending, IInv, TypeInv, TypeOK
<1>3. install' \in InstallJournal /\ ~InstallPending' /\ install'.phase = "COMMITTED"
  BY <1>2, PhaseTyped DEF Commit, InstallPending
<1>4. Moves(q)
  BY <1>1, <1>3, QuitStep DEF Moves, After, Commit
<1> QED BY <1>1, <1>3, <1>4, QuitStep, AfterStep DEF Commit, IInv, TypeInv, TypeOK

-----------------------------------------------------------------------------
\* build-runtime.sh by hand.
LEMMA BuildPreviousStep == ASSUME IInv, NEW q \in Proc, BuildPrevious(q) PROVE IInv' /\ Moves(q)
<1>1. /\ pc[q] = "buildRuntime" /\ ProcInv(q) /\ reg[q] \in Registers /\ ~NoBuild
      /\ UNCHANGED <<journals, lock, faults>> /\ Goto(q, "buildCurrent")
  BY DEF BuildPrevious, IInv, TypeInv, ProcInv, Position, InLine, NoBuild
<1>2. PICK s \in fresh \cap Shell :
        Create(s) /\ reg' = [reg EXCEPT ![q].shell = s]
  BY DEF BuildPrevious
<1>3. PICK r : r = [reg[q] EXCEPT !.shell = s]
  OBVIOUS
<1>4. /\ r \in Registers /\ r.i = reg[q].i /\ r.cmd = reg[q].cmd /\ r.at = reg[q].at
      /\ r.token = reg[q].token /\ r.trap = reg[q].trap
  BY <1>1, <1>3 DEF Registers
<1>5. /\ reg' \in [Proc -> Registers] /\ reg'[q] = r /\ \A p \in Proc \ {q} : reg'[p] = reg[p]
  BY <1>2, <1>3, <1>4 DEF IInv, TypeInv
<1>6. ptr' \in Pointers
  <2>1. "shell/previous" \in Link /\ Builds("shell/previous") = Shell
    BY DEF Link, Builds
  <2> QED BY <2>1, LinksTyped, SetLinkTyped DEF BuildPrevious, IInv, TypeInv, TypeOK
<1>7. disk' \in Disk /\ fresh' \subseteq Generation
  BY <1>2 DEF Create, Disk, IInv, TypeInv, TypeOK
<1>8. Position("buildCurrent", reg[q]) /\ Count("buildCurrent", r.i)
  BY <1>1, <1>4 DEF ProcInv, Position, Count, Recovering, ApplyWork, RollbackWork, Restoring, InLine
<1>9. "buildCurrent" \in Location
           \ (DotfilesHeld \cup SystemHeld \cup Working \cup ApplyWork \cup PromotionWork)
  BY DEF Location, DotfilesHeld, SystemHeld, Working, ApplyWork, RollbackWork, PromotionWork
<1>10. Guarded' = Guarded
  BY <1>1 DEF BuildPrevious, SetLink, Guarded, journals, Pointers, Link, IInv, TypeInv, TypeOK
<1> QED BY <1>1, <1>4, <1>5, <1>6, <1>7, <1>8, <1>9, <1>10, GotoStep
      DEF journals, IInv, TypeInv, TypeOK

LEMMA BuildCurrentStep == ASSUME IInv, NEW q \in Proc, BuildCurrent(q) PROVE IInv' /\ Moves(q)
<1>1. pc[q] = "buildCurrent" /\ ~NoBuild /\ reg[q].shell \in Shell \cup {None}
  BY DEF BuildCurrent, IInv, TypeInv, ProcInv, Position, InLine, NoBuild, Registers
<1>2. ptr' \in Pointers
  <2>1. "shell/current" \in Link /\ Builds("shell/current") = Shell
    BY DEF Link, Builds
  <2> QED BY <1>1, <2>1, SetLinkTyped DEF BuildCurrent, IInv, TypeInv, TypeOK
<1>3. Guarded' = Guarded
  BY DEF BuildCurrent, SetLink, Guarded, journals, Pointers, Link, IInv, TypeInv, TypeOK
<1>4. Moves(q)
  BY <1>1, <1>3, QuitStep DEF BuildCurrent, Moves, After, journals
<1> QED BY <1>2, <1>4, QuitStep, AfterStep DEF BuildCurrent, journals, IInv, TypeInv, TypeOK

-----------------------------------------------------------------------------
\* What check_mutation() lets through while an installation is pending.
LEMMA Checked ==
    ASSUME IInv, NEW q \in Proc, CheckMutation(q)
    PROVE  InstallPending => Installer(q)
<1>1. ProcInv(q) /\ reg[q].at \in 1 .. 9
  BY DEF IInv, TypeInv, TypeOK
<1> QED BY <1>1 DEF CheckMutation, ProcInv, Position, UnderInstallLock

\* A command at work goes on.
LEMMA WorkStep ==
    ASSUME IInv, NEW q \in Proc, NEW step \in Location, step # "idle", step # "restoreInstall",
           pc[q] \in Working, Goto(q, step), UNCHANGED <<install, lock, disk, fresh>>,
           reg' \in [Proc -> Registers], \A p \in Proc \ {q} : reg'[p] = reg[p],
           reg'[q].cmd = reg[q].cmd, reg'[q].at = reg[q].at,
           reg'[q].token = reg[q].token, reg'[q].trap = reg[q].trap,
           Position(step, reg[q]), Count(step, reg'[q].i),
           step \in DotfilesHeld => pc[q] \in DotfilesHeld,
           step \in SystemHeld => pc[q] \in SystemHeld,
           step \in ApplyWork \ {"applyPlan"} => apply' # NoJournal,
           step \in PromotionWork => promotion' # NoJournal,
           apply' # apply => pc[q] \in DotfilesHeld,
           promotion' # promotion => pc[q] \in SystemHeld,
           ptr' \in Pointers, apply' \in ApplyJournal \cup {NoJournal},
           promotion' \in PromotionJournal \cup {NoJournal}, faults' \in 0 .. MaxFaults
    PROVE  IInv' /\ Moves(q)
<1>1. ProcInv(q)
  BY DEF IInv
<1>2. /\ InstallPending => Installer(q)
      /\ pc[q] \in DotfilesHeld => lock["dotfiles"] = q
      /\ pc[q] \in SystemHeld => lock["system"] = q
  BY <1>1 DEF ProcInv
<1> QED BY <1>2, GotoStep DEF IInv, TypeInv, TypeOK

\* From one step of a working command to the next, or to its undo.
Followed ==
    {<<"applyPrevious", "applyCurrent">>, <<"applyCurrent", "applyVerify">>,
     <<"applyVerify", "applyCommit">>, <<"applyCommit", "applyQuarantine">>,
     <<"applyPrevious", "applyUndo">>, <<"applyCurrent", "applyUndo">>, <<"applyVerify", "applyUndo">>,
     <<"rollbackPrevious", "rollbackVerify">>,
     <<"rollbackPrevious", "rollbackUndo">>, <<"rollbackVerify", "rollbackUndo">>,
     <<"promotePrevious", "promoteCurrent">>, <<"promoteCurrent", "promoteVerify">>,
     <<"promoteVerify", "promoteCommit">>,
     <<"promotePrevious", "promoteUndo">>, <<"promoteCurrent", "promoteUndo">>,
     <<"promoteVerify", "promoteUndo">>, <<"promoteCommit", "promoteUndo">>,
     <<"recoverPrevious", "recoverCurrent">>, <<"recoverCurrent", "recoverVerify">>}

\* Which leaves its place in the command line, its locks and its counter.
LEMMA FollowedIs ==
    ASSUME IInv, NEW q \in Proc, NEW step, <<pc[q], step>> \in Followed
    PROVE  /\ step \in Location /\ step # "idle" /\ step # "restoreInstall" /\ pc[q] \in Working
           /\ Position(step, reg[q]) /\ Count(step, reg[q].i)
           /\ step \in DotfilesHeld => pc[q] \in DotfilesHeld
           /\ step \in SystemHeld => pc[q] \in SystemHeld
           /\ step \in ApplyWork => pc[q] \in ApplyWork \ {"applyPlan"}
           /\ step \in PromotionWork => pc[q] \in PromotionWork
<1>1. ProcInv(q)
  BY DEF IInv
<1>2. /\ step \in Location /\ step # "idle" /\ step # "restoreInstall" /\ pc[q] \in Working
      /\ step \in DotfilesHeld => pc[q] \in DotfilesHeld
      /\ step \in SystemHeld => pc[q] \in SystemHeld
      /\ step \in ApplyWork => pc[q] \in ApplyWork \ {"applyPlan"}
      /\ step \in PromotionWork => pc[q] \in PromotionWork
  BY DEF Followed, Location, DotfilesHeld, SystemHeld, Working, ApplyWork, RollbackWork, PromotionWork
<1>3. Position(step, reg[q])
  BY <1>1 DEF Followed, ProcInv, Position, Recovering, ApplyWork, RollbackWork
<1>4. Count(step, reg[q].i)
  BY <1>1 DEF Followed, ProcInv, Count, Restoring
<1> QED BY <1>2, <1>3, <1>4

LEMMA FollowStep ==
    ASSUME IInv, NEW q \in Proc, NEW step, <<pc[q], step>> \in Followed, Goto(q, step),
           UNCHANGED <<install, lock, reg, disk, fresh>>,
           apply' = apply \/ (pc[q] \in DotfilesHeld /\ apply' \in ApplyJournal),
           promotion' = promotion \/ (pc[q] \in SystemHeld /\ promotion' \in PromotionJournal),
           ptr' \in Pointers, faults' \in 0 .. MaxFaults
    PROVE  IInv' /\ Moves(q)
<1>1. ProcInv(q) /\ reg \in [Proc -> Registers]
  BY DEF IInv, TypeInv
<1>2. /\ step \in ApplyWork => apply' # NoJournal
      /\ step \in PromotionWork => promotion' # NoJournal
  BY <1>1, FollowedIs, JournalsAre DEF ProcInv
<1>3. /\ apply' \in ApplyJournal \cup {NoJournal} /\ promotion' \in PromotionJournal \cup {NoJournal}
  BY DEF IInv, TypeInv, TypeOK
<1> QED BY <1>1, <1>2, <1>3, FollowedIs, WorkStep

\* A command at work ends with its last write.
LEMMA LastWriteStep ==
    ASSUME IInv, NEW q \in Proc, pc[q] \in Working, After(q), reg'[q].token => reg[q].token,
           UNCHANGED <<install, disk, fresh, faults>>,
           apply' = apply \/ (pc[q] \in DotfilesHeld /\ apply' \in ApplyJournal),
           promotion' = promotion \/ (pc[q] \in SystemHeld /\ promotion' \in PromotionJournal),
           ptr' \in Pointers
    PROVE  IInv' /\ Moves(q)
<1>1. ProcInv(q)
  BY DEF IInv
<1>2. Moves(q)
  BY <1>1 DEF Moves, After, ProcInv
<1>3. reg'[q].token => InstallPending'
  BY <1>1 DEF ProcInv, InstallPending
<1> QED BY <1>2, <1>3, AfterStep DEF IInv, TypeInv, TypeOK

\* A link is written with what the command or a journal remembers.
LEMMA LinkBuilds ==
    /\ {"dotfiles/current", "dotfiles/previous", "system/current", "system/previous"} \subseteq Link
    /\ Builds("dotfiles/current") = Dotfiles /\ Builds("dotfiles/previous") = Dotfiles
    /\ Builds("system/current") = System /\ Builds("system/previous") = System
BY DEF Link, Builds

\* The journals that working commands rely on.
LEMMA WorkJournals ==
    ASSUME IInv, NEW q \in Proc
    PROVE  /\ pc[q] \in ApplyWork \ {"applyPlan"} =>
                /\ apply \in ApplyJournal
                /\ apply.current \in Dotfiles \cup {None} /\ apply.previous \in Dotfiles \cup {None}
           /\ pc[q] \in PromotionWork =>
                /\ promotion \in PromotionJournal /\ promotion.target \in System \cup {None}
                /\ promotion.beforeCurrent \in System \cup {None}
                /\ promotion.beforePrevious \in System \cup {None}
           /\ reg[q].old \in Dotfiles \cup {None} /\ reg[q].previous \in Dotfiles \cup {None}
           /\ reg[q].gen \in Dotfiles \cup {None}
<1>1. ProcInv(q) /\ reg[q] \in Registers
  BY DEF IInv, TypeInv
<1>2. pc[q] \in ApplyWork \ {"applyPlan"} => apply \in ApplyJournal
  BY <1>1 DEF ProcInv, IInv, TypeInv, TypeOK
<1>3. pc[q] \in PromotionWork => promotion \in PromotionJournal
  BY <1>1 DEF ProcInv, IInv, TypeInv, TypeOK
<1> QED BY <1>1, <1>2, <1>3 DEF ApplyJournal, PromotionJournal, Registers

-----------------------------------------------------------------------------
\* recover_apply_locked(), for apply, for its undo and for `dotfiles recover'.
LEMMA RecoverApplyStep ==
    ASSUME IInv, NEW q \in Proc, ApplyCheck(q) \/ ApplyUndo(q) \/ RecoverApply(q)
    PROVE  IInv' /\ Moves(q)
<1>1. PICK from, back :
        /\ RecoverApplyLocked(q, from, back)
        /\ <<from, back>> \in {<<"applyCheck", "applyPlan">>, <<"applyUndo", "fail">>,
                               <<"recoverApplyCheck", "done">>}
        /\ from # "applyUndo" => CheckMutation(q)
  BY DEF ApplyCheck, ApplyUndo, RecoverApply
<1>2. /\ pc[q] = from /\ ProcInv(q) /\ reg[q] \in Registers
      /\ UNCHANGED <<ptr, disk, fresh, install, promotion, faults>>
  BY <1>1 DEF RecoverApplyLocked, IInv, TypeInv
<1>3. from \in DotfilesHeld /\ (from = "applyUndo" => from \in Working) /\ from \notin Recovering
  BY <1>1 DEF DotfilesHeld, Working, ApplyWork, Recovering
<1>4. /\ InstallPending => Installer(q)
      /\ lock["dotfiles"] = q
  BY <1>1, <1>2, <1>3, Checked DEF ProcInv
<1>5. reg[q].i = 1
  BY <1>1, <1>2 DEF ProcInv, Count, Restoring
<1>6. CASE ApplyPending
  <2>1. PICK step : step = [applyPlan |-> "restoreThenPlan", fail |-> "restoreThenFail",
                            done |-> "restoreThenDone"][back]
    OBVIOUS
  <2>2. /\ from = "applyCheck" => step = "restoreThenPlan"
        /\ from = "applyUndo" => step = "restoreThenFail"
        /\ from = "recoverApplyCheck" => step = "restoreThenDone"
    BY <1>1, <2>1
  <2>3. /\ apply' = [apply EXCEPT !.phase = "RECOVERING"] /\ Goto(q, step)
        /\ UNCHANGED <<lock, reg>>
    BY <1>1, <1>6, <2>1 DEF RecoverApplyLocked
  <2>4. apply \in ApplyJournal /\ apply' \in ApplyJournal
    BY <1>6, <2>3, JournalsAre, PhaseTyped DEF ApplyPending, IInv, TypeInv, TypeOK
  <2>5. Position(step, reg[q])
    BY <1>1, <1>2, <2>2 DEF ProcInv, Position, Recovering, ApplyWork, RollbackWork
  <2>6. Count(step, reg[q].i)
    BY <1>1, <1>5, <2>2 DEF Count, Restoring
  <2>7. /\ step \in Location /\ step # "idle" /\ step # "restoreInstall"
        /\ step \notin SystemHeld \cup PromotionWork
    BY <1>1, <2>2 DEF Location, DotfilesHeld, SystemHeld, ApplyWork, PromotionWork
  <2> QED BY <1>2, <1>4, <2>3, <2>4, <2>5, <2>6, <2>7, JournalsAre, GotoStep
        DEF IInv, TypeInv, TypeOK
<1>7. CASE ~ApplyPending
  <2>1. CASE back = "applyPlan"
    <3>1. Goto(q, "applyPlan") /\ UNCHANGED <<lock, reg, apply>>
      BY <1>1, <1>7, <2>1 DEF RecoverApplyLocked
    <3>2. Position("applyPlan", reg[q]) /\ Count("applyPlan", reg[q].i)
      BY <1>1, <1>2, <1>5, <2>1
         DEF ProcInv, Position, Count, Recovering, ApplyWork, RollbackWork, Restoring
    <3>3. "applyPlan" \in Location \ (SystemHeld \cup PromotionWork)
      BY DEF Location, DotfilesHeld, SystemHeld, ApplyWork, PromotionWork
    <3> QED BY <1>2, <1>4, <3>1, <3>2, <3>3, GotoStep DEF IInv, TypeInv, TypeOK
  <2>2. CASE back = "fail"
    <3>1. Fail(q) /\ UNCHANGED apply
      BY <1>1, <1>7, <2>2 DEF RecoverApplyLocked
    <3> QED BY <1>1, <1>2, <3>1, FailStep, LeaveStep DEF journals, IInv, TypeInv, TypeOK
  <2>3. CASE back = "done"
    <3>1. Done(q) /\ UNCHANGED apply /\ pc[q] = "recoverApplyCheck"
      BY <1>1, <1>2, <1>7, <2>3 DEF RecoverApplyLocked
    <3> QED BY <1>2, <3>1, DoneFrom, LeaveStep DEF journals, IInv, TypeInv, TypeOK
  <2> QED BY <1>1, <2>1, <2>2, <2>3
<1> QED BY <1>6, <1>7

\* The undo of an apply puts a link back.
LEMMA RestoreDotfilesLinkStep == ASSUME IInv, NEW q \in Proc, RestoreDotfilesLink(q) PROVE IInv' /\ Moves(q)
<1>1. /\ pc[q] \in Restoring /\ ProcInv(q) /\ reg[q] \in Registers /\ reg[q].i \in {1, 2}
      /\ UNCHANGED <<disk, fresh, journals, lock, pc, faults>>
  BY DEF RestoreDotfilesLink, IInv, TypeInv
<1>2. PICK n, r : n = reg[q].i + 1 /\ r = [reg[q] EXCEPT !.i = n]
  OBVIOUS
<1>3. /\ r \in Registers /\ r.i \in 1 .. 3 /\ r.cmd = reg[q].cmd /\ r.at = reg[q].at
      /\ r.token = reg[q].token /\ r.trap = reg[q].trap
  <2>1. n \in 1 .. 11 /\ n \in 1 .. 3
    BY <1>1, <1>2
  <2> QED BY <1>1, <1>2, <2>1, CountTyped
<1>4. /\ reg' \in [Proc -> Registers] /\ reg'[q] = r /\ \A p \in Proc \ {q} : reg'[p] = reg[p]
  BY <1>2, <1>3 DEF RestoreDotfilesLink, IInv, TypeInv
<1>5. pc[q] \in ApplyWork \ {"applyPlan"} /\ pc[q] \in Working
  BY <1>1 DEF Restoring, ApplyWork, Working
<1>6. ptr' \in Pointers
  BY <1>5, WorkJournals, LinkBuilds, SetLinkTyped DEF RestoreDotfilesLink, IInv, TypeInv, TypeOK
<1>7. Goto(q, pc[q]) /\ pc[q] \in Location
  BY <1>1 DEF Goto, IInv, TypeInv
<1>8. Position(pc[q], reg[q]) /\ Count(pc[q], r.i)
  BY <1>1, <1>3 DEF ProcInv, Count, Restoring
<1>9. pc[q] # "idle" /\ pc[q] # "restoreInstall" /\ pc[q] \notin PromotionWork /\ apply # NoJournal
  BY <1>1, <1>5 DEF Restoring, PromotionWork, ProcInv
<1> QED BY <1>1, <1>3, <1>4, <1>5, <1>6, <1>7, <1>8, <1>9, WorkStep
      DEF journals, IInv, TypeInv, TypeOK

LEMMA ApplyRecoveredStep == ASSUME IInv, NEW q \in Proc, ApplyRecovered(q) PROVE IInv' /\ Moves(q)
<1>1. /\ pc[q] \in Restoring /\ ProcInv(q) /\ reg[q] \in Registers
      /\ UNCHANGED <<ptr, disk, fresh, install, promotion, faults>>
  BY DEF ApplyRecovered, IInv, TypeInv
<1>2. pc[q] \in ApplyWork \ {"applyPlan"} /\ pc[q] \in Working /\ pc[q] \in DotfilesHeld
  BY <1>1 DEF Restoring, ApplyWork, Working, DotfilesHeld
<1>3. apply' \in ApplyJournal
  BY <1>2, WorkJournals, PhaseTyped DEF ApplyRecovered
<1>4. CASE pc[q] = "restoreThenPlan"
  <2>1. Goto(q, "applyPlan") /\ reg' = [reg EXCEPT ![q].i = 1] /\ UNCHANGED lock
    BY <1>4 DEF ApplyRecovered
  <2>2. PICK r : r = [reg[q] EXCEPT !.i = 1]
    OBVIOUS
  <2>3. /\ r \in Registers /\ r.i = 1 /\ r.cmd = reg[q].cmd /\ r.at = reg[q].at
        /\ r.token = reg[q].token /\ r.trap = reg[q].trap
    <3>1. 1 \in 1 .. 11
      OBVIOUS
    <3> QED BY <1>1, <2>2, <3>1, CountTyped
  <2>4. /\ reg' \in [Proc -> Registers] /\ reg'[q] = r /\ \A p \in Proc \ {q} : reg'[p] = reg[p]
    BY <2>1, <2>2, <2>3 DEF IInv, TypeInv
  <2>5. Position("applyPlan", reg[q]) /\ Count("applyPlan", r.i)
    BY <1>1, <1>4, <2>3 DEF ProcInv, Position, Count, Recovering, ApplyWork, RollbackWork, Restoring
  <2>6. "applyPlan" \in Location \ (SystemHeld \cup PromotionWork)
    BY DEF Location, DotfilesHeld, SystemHeld, ApplyWork, PromotionWork
  <2> QED BY <1>1, <1>2, <1>3, <2>1, <2>3, <2>4, <2>5, <2>6, WorkStep
        DEF IInv, TypeInv, TypeOK
<1>5. CASE pc[q] # "restoreThenPlan"
  <2>1. Fail(q) \/ (Done(q) /\ pc[q] = "restoreThenDone")
    BY <1>1, <1>5 DEF ApplyRecovered, Restoring
  <2>2. After(q) /\ (reg'[q].token => reg[q].token)
    BY <1>1, <2>1, DoneFrom, FailStep DEF Restoring
  <2> QED BY <1>1, <1>2, <1>3, <2>2, LastWriteStep DEF IInv, TypeInv, TypeOK
<1> QED BY <1>4, <1>5

\* apply builds its generation and makes PREPARED durable.
LEMMA ApplyPlanStep == ASSUME IInv, NEW q \in Proc, ApplyPlan(q) PROVE IInv' /\ Moves(q)
<1>1. /\ pc[q] = "applyPlan" /\ ProcInv(q) /\ reg[q] \in Registers
      /\ Goto(q, "applyPrevious") /\ UNCHANGED <<ptr, install, promotion, lock, faults>>
  BY DEF ApplyPlan, IInv, TypeInv
<1>2. PICK g \in fresh \cap Dotfiles :
        /\ Create(g)
        /\ apply' = [phase |-> "PREPARED", generation |-> g,
                     current |-> ptr["dotfiles/current"], previous |-> ptr["dotfiles/previous"]]
        /\ reg' = [reg EXCEPT ![q].gen = g, ![q].old = Resolved("dotfiles/current"),
                              ![q].valid = Intact(disk, ptr["dotfiles/current"])]
  BY DEF ApplyPlan
<1>3. PICK r : r = [reg[q] EXCEPT !.gen = g, !.old = Resolved("dotfiles/current"),
                                  !.valid = Intact(disk, ptr["dotfiles/current"])]
  OBVIOUS
<1>4. /\ r \in Registers /\ r.i = reg[q].i /\ r.cmd = reg[q].cmd /\ r.at = reg[q].at
      /\ r.token = reg[q].token /\ r.trap = reg[q].trap
  <2>1. Resolved("dotfiles/current") \in Dotfiles \cup {None}
    BY LinksTyped DEF Resolved
  <2>2. Intact(disk, ptr["dotfiles/current"]) \in BOOLEAN
    BY DEF Intact
  <2>3. PICK old, valid : old = Resolved("dotfiles/current") /\ valid = Intact(disk, ptr["dotfiles/current"])
    OBVIOUS
  <2>4. old \in Dotfiles \cup {None} /\ valid \in BOOLEAN /\ g \in Dotfiles \cup {None}
    BY <2>1, <2>2, <2>3
  <2>5. r = [reg[q] EXCEPT !.gen = g, !.old = old, !.valid = valid]
    BY <1>3, <2>3
  <2> QED BY <1>1, <2>4, <2>5 DEF Registers
<1>5. /\ reg' \in [Proc -> Registers] /\ reg'[q] = r /\ \A p \in Proc \ {q} : reg'[p] = reg[p]
  BY <1>2, <1>3, <1>4 DEF IInv, TypeInv
<1>6. apply' \in ApplyJournal
  BY <1>2, LinksTyped DEF ApplyJournal
<1>7. disk' \in Disk /\ fresh' \subseteq Generation
  BY <1>2 DEF Create, Disk, IInv, TypeInv, TypeOK
<1>8. lock["dotfiles"] = q /\ (InstallPending => Installer(q))
  BY <1>1 DEF ProcInv, DotfilesHeld, Working, ApplyWork
<1>9. Position("applyPrevious", reg[q]) /\ Count("applyPrevious", r.i)
  BY <1>1, <1>4 DEF ProcInv, Position, Count, Recovering, ApplyWork, RollbackWork, Restoring
<1>10. "applyPrevious" \in Location \ (SystemHeld \cup PromotionWork)
  BY DEF Location, DotfilesHeld, SystemHeld, ApplyWork, PromotionWork
<1> QED BY <1>1, <1>4, <1>5, <1>6, <1>7, <1>8, <1>9, <1>10, JournalsAre, GotoStep
      DEF IInv, TypeInv, TypeOK

\* apply moves its two links, verifies and commits.
LEMMA ApplyLinksStep ==
    ASSUME IInv, NEW q \in Proc,
           ApplyPrevious(q) \/ ApplyCurrent(q) \/ ApplyVerify(q) \/ ApplyCommit(q)
    PROVE  IInv' /\ Moves(q)
<1>1. PICK step : <<pc[q], step>> \in Followed /\ Goto(q, step)
  BY DEF ApplyPrevious, ApplyCurrent, ApplyVerify, ApplyCommit, Followed
<1>2. UNCHANGED <<install, promotion, lock, reg, disk, fresh, faults>>
  BY DEF ApplyPrevious, ApplyCurrent, ApplyVerify, ApplyCommit, journals
<1>3. pc[q] \in ApplyWork \ {"applyPlan"} /\ pc[q] \in DotfilesHeld
  BY DEF ApplyPrevious, ApplyCurrent, ApplyVerify, ApplyCommit, ApplyWork, DotfilesHeld
<1>4. apply' = apply \/ apply' \in ApplyJournal
  BY <1>3, WorkJournals, PhaseTyped DEF ApplyPrevious, ApplyCurrent, ApplyVerify, ApplyCommit, journals
<1>5. ptr' \in Pointers
  <2>1. ptr \in Pointers
    BY DEF IInv, TypeInv, TypeOK
  <2>2. CASE ApplyPrevious(q)
    BY <2>1, <2>2, WorkJournals, LinkBuilds, SetLinkTyped DEF ApplyPrevious
  <2>3. CASE ApplyCurrent(q)
    BY <2>1, <2>3, WorkJournals, LinkBuilds, SetLinkTyped DEF ApplyCurrent
  <2>4. CASE ApplyVerify(q) \/ ApplyCommit(q)
    BY <2>1, <2>4 DEF ApplyVerify, ApplyCommit
  <2> QED BY <2>2, <2>3, <2>4
<1> QED BY <1>1, <1>2, <1>3, <1>4, <1>5, FollowStep DEF IInv, TypeInv, TypeOK

LEMMA ApplyQuarantineStep == ASSUME IInv, NEW q \in Proc, ApplyQuarantine(q) PROVE IInv' /\ Moves(q)
<1>1. pc[q] = "applyQuarantine" /\ Done(q) /\ UNCHANGED <<ptr, fresh, journals, faults>>
  BY DEF ApplyQuarantine
<1>2. disk' \in Disk
  BY DEF ApplyQuarantine, Disk, IInv, TypeInv, TypeOK
<1> QED BY <1>1, <1>2, DoneFrom, LeaveStep DEF IInv, TypeInv, TypeOK

-----------------------------------------------------------------------------
\* dotfiles rollback: the first rename, the second and the check, the undo.
LEMMA RollbackCurrentStep == ASSUME IInv, NEW q \in Proc, RollbackCurrent(q) PROVE IInv' /\ Moves(q)
<1>1. /\ pc[q] = "rollbackCheck" /\ ProcInv(q) /\ reg[q] \in Registers
      /\ Goto(q, "rollbackPrevious") /\ UNCHANGED <<disk, fresh, journals, lock, faults>>
  BY DEF RollbackCurrent, IInv, TypeInv
<1>2. PICK r : r = [reg[q] EXCEPT !.old = ptr["dotfiles/current"], !.previous = ptr["dotfiles/previous"]]
  OBVIOUS
<1>3. /\ r \in Registers /\ r.i = reg[q].i /\ r.cmd = reg[q].cmd /\ r.at = reg[q].at
      /\ r.token = reg[q].token /\ r.trap = reg[q].trap
  <2>1. PICK old, other : old = ptr["dotfiles/current"] /\ other = ptr["dotfiles/previous"]
    OBVIOUS
  <2>2. old \in Dotfiles \cup {None} /\ other \in Dotfiles \cup {None}
    BY <2>1, LinksTyped
  <2>3. r = [reg[q] EXCEPT !.old = old, !.previous = other]
    BY <1>2, <2>1
  <2> QED BY <1>1, <2>2, <2>3 DEF Registers
<1>4. /\ reg' \in [Proc -> Registers] /\ reg'[q] = r /\ \A p \in Proc \ {q} : reg'[p] = reg[p]
  BY <1>2, <1>3 DEF RollbackCurrent, IInv, TypeInv
<1>5. ptr' \in Pointers
  BY LinksTyped, LinkBuilds, SetLinkTyped DEF RollbackCurrent, IInv, TypeInv, TypeOK
<1>6. lock["dotfiles"] = q /\ (InstallPending => Installer(q))
  BY <1>1, Checked DEF RollbackCurrent, RollbackAllowed, ProcInv, DotfilesHeld
<1>7. Position("rollbackPrevious", reg[q]) /\ Count("rollbackPrevious", r.i)
  BY <1>1, <1>3 DEF ProcInv, Position, Count, Recovering, ApplyWork, RollbackWork, Restoring
<1>8. "rollbackPrevious" \in Location \ (SystemHeld \cup PromotionWork \cup ApplyWork)
  BY DEF Location, DotfilesHeld, SystemHeld, ApplyWork, RollbackWork, PromotionWork
<1> QED BY <1>1, <1>3, <1>4, <1>5, <1>6, <1>7, <1>8, GotoStep DEF journals, IInv, TypeInv, TypeOK

LEMMA RollbackPreviousStep == ASSUME IInv, NEW q \in Proc, RollbackPrevious(q) PROVE IInv' /\ Moves(q)
<1>1. <<pc[q], "rollbackVerify">> \in Followed /\ Goto(q, "rollbackVerify")
  BY DEF RollbackPrevious, Followed
<1>2. ptr' \in Pointers
  BY WorkJournals, LinkBuilds, SetLinkTyped DEF RollbackPrevious, IInv, TypeInv, TypeOK
<1> QED BY <1>1, <1>2, FollowStep DEF RollbackPrevious, journals, IInv, TypeInv, TypeOK

LEMMA RollbackVerifyStep == ASSUME IInv, NEW q \in Proc, RollbackVerify(q) PROVE IInv' /\ Moves(q)
<1>1. pc[q] = "rollbackVerify" /\ UNCHANGED <<ptr, disk, fresh, journals, faults>>
  BY DEF RollbackVerify
<1>2. CASE DotfilesVerify(q)
  BY <1>1, <1>2, DoneFrom, LeaveStep DEF RollbackVerify, IInv, TypeInv, TypeOK
<1>3. CASE ~DotfilesVerify(q)
  <2>1. <<pc[q], "rollbackUndo">> \in Followed
    BY <1>1 DEF Followed
  <2> QED BY <1>1, <1>3, <2>1, FollowStep DEF RollbackVerify, journals, IInv, TypeInv, TypeOK
<1> QED BY <1>2, <1>3

LEMMA RollbackUndoStep == ASSUME IInv, NEW q \in Proc, RollbackUndo(q) PROVE IInv' /\ Moves(q)
<1>1. /\ pc[q] = "rollbackUndo" /\ ProcInv(q) /\ reg[q] \in Registers
      /\ UNCHANGED <<disk, fresh, journals, faults>>
  BY DEF RollbackUndo, IInv, TypeInv
<1>2. pc[q] \in Working /\ pc[q] \notin PromotionWork \cup ApplyWork
  BY <1>1 DEF Working, ApplyWork, RollbackWork, PromotionWork
<1>3. ptr' \in Pointers
  BY WorkJournals, LinkBuilds, SetLinkTyped DEF RollbackUndo, IInv, TypeInv, TypeOK
<1>4. CASE reg[q].i = 1
  <2>1. PICK r : r = [reg[q] EXCEPT !.i = 2]
    OBVIOUS
  <2>2. /\ r \in Registers /\ r.i = 2 /\ r.cmd = reg[q].cmd /\ r.at = reg[q].at
        /\ r.token = reg[q].token /\ r.trap = reg[q].trap
    <3>1. 2 \in 1 .. 11
      OBVIOUS
    <3> QED BY <1>1, <2>1, <3>1, CountTyped
  <2>3. /\ reg' \in [Proc -> Registers] /\ reg'[q] = r /\ \A p \in Proc \ {q} : reg'[p] = reg[p]
    BY <1>4, <2>1, <2>2 DEF RollbackUndo, IInv, TypeInv
  <2>4. Goto(q, pc[q]) /\ pc[q] \in Location /\ UNCHANGED lock
    BY <1>1, <1>4 DEF RollbackUndo, Goto, IInv, TypeInv
  <2>5. Position(pc[q], reg[q]) /\ Count(pc[q], r.i)
    BY <1>1, <2>2 DEF ProcInv, Count, Restoring
  <2> QED BY <1>1, <1>2, <1>3, <2>2, <2>3, <2>4, <2>5, WorkStep DEF journals, IInv, TypeInv, TypeOK
<1>5. CASE reg[q].i # 1
  <2>1. Fail(q)
    BY <1>5 DEF RollbackUndo
  <2> QED BY <1>1, <1>2, <1>3, <2>1, FailStep, LastWriteStep DEF journals
<1> QED BY <1>4, <1>5

-----------------------------------------------------------------------------
\* A promotion starts, or resumes, when check_mutation() lets it.
LEMMA PlanStep ==
    ASSUME IInv, NEW q \in Proc, NEW valid \in BOOLEAN, NEW step,
           \/ pc[q] = "promoteCheck" /\ step = "promotePrevious"
           \/ pc[q] = "recoverPromotionCheck" /\ step = "recoverPrevious",
           CheckMutation(q), reg' = [reg EXCEPT ![q].valid = valid], Goto(q, step),
           UNCHANGED <<ptr, install, apply, lock, faults>>,
           promotion' \in PromotionJournal, disk' \in Disk, fresh' \subseteq Generation
    PROVE  IInv' /\ Moves(q)
<1>1. ProcInv(q) /\ reg[q] \in Registers
  BY DEF IInv, TypeInv
<1>2. PICK r : r = [reg[q] EXCEPT !.valid = valid]
  OBVIOUS
<1>3. /\ r \in Registers /\ r.i = reg[q].i /\ r.cmd = reg[q].cmd /\ r.at = reg[q].at
      /\ r.token = reg[q].token /\ r.trap = reg[q].trap
  BY <1>1, <1>2 DEF Registers
<1>4. /\ reg' \in [Proc -> Registers] /\ reg'[q] = r /\ \A p \in Proc \ {q} : reg'[p] = reg[p]
  BY <1>2, <1>3 DEF IInv, TypeInv
<1>5. lock["system"] = q /\ (InstallPending => Installer(q))
  BY <1>1, Checked DEF ProcInv, SystemHeld
<1>6. Position(step, reg[q]) /\ Count(step, r.i)
  BY <1>1, <1>3 DEF ProcInv, Position, Count, Recovering, ApplyWork, RollbackWork, Restoring
<1>7. step \in Location \ (DotfilesHeld \cup ApplyWork) /\ step # "idle" /\ step # "restoreInstall"
  BY DEF Location, DotfilesHeld, SystemHeld, ApplyWork, RollbackWork, PromotionWork
<1> QED BY <1>3, <1>4, <1>5, <1>6, <1>7, JournalsAre, GotoStep DEF IInv, TypeInv, TypeOK

LEMMA PromotePlanStep == ASSUME IInv, NEW q \in Proc, PromotePlan(q) PROVE IInv' /\ Moves(q)
<1>1. /\ pc[q] = "promoteCheck" /\ CheckMutation(q) /\ Goto(q, "promotePrevious")
      /\ UNCHANGED <<ptr, install, apply, lock, faults>>
  BY DEF PromotePlan, PromoteAllowed
<1>2. PICK valid : valid = VerifySystemPath(disk, ptr["system/current"])
  OBVIOUS
<1>3. valid \in BOOLEAN
  BY <1>2 DEF VerifySystemPath
<1>4. reg' = [reg EXCEPT ![q].valid = valid]
  BY <1>2 DEF PromotePlan
<1>5. PICK s \in Seals(q) :
        /\ Create(s)
        /\ promotion' = [phase |-> "PREPARED", target |-> s,
                         beforeCurrent |-> Resolved("system/current"),
                         beforePrevious |-> Resolved("system/previous")]
  BY DEF PromotePlan
<1>6. promotion' \in PromotionJournal
  BY <1>5, LinksTyped DEF Resolved, Seals, PromotionJournal
<1>7. disk' \in Disk /\ fresh' \subseteq Generation
  BY <1>5 DEF Create, Disk, IInv, TypeInv, TypeOK
<1> QED BY <1>1, <1>3, <1>4, <1>6, <1>7, PlanStep

LEMMA RecoverPromotionPlanStep ==
    ASSUME IInv, NEW q \in Proc, RecoverPromotionPlan(q)
    PROVE  IInv' /\ Moves(q)
<1>1. /\ pc[q] = "recoverPromotionCheck" /\ CheckMutation(q) /\ Goto(q, "recoverPrevious")
      /\ PromotionPending /\ UNCHANGED <<ptr, disk, fresh, journals, lock, faults>>
  BY DEF RecoverPromotionPlan
<1>2. PICK valid : valid = VerifySystemPath(disk, promotion.beforeCurrent)
  OBVIOUS
<1>3. valid \in BOOLEAN
  BY <1>2 DEF VerifySystemPath
<1>4. reg' = [reg EXCEPT ![q].valid = valid]
  BY <1>2 DEF RecoverPromotionPlan
<1>5. promotion' \in PromotionJournal
  BY <1>1, JournalsAre DEF PromotionPending, journals, IInv, TypeInv, TypeOK
<1> QED BY <1>1, <1>3, <1>4, <1>5, PlanStep DEF journals, IInv, TypeInv, TypeOK

\* A promotion, or its recovery, moves its links and verifies.
LEMMA PromotionLinksStep ==
    ASSUME IInv, NEW q \in Proc,
           \/ PromotePrevious(q) \/ PromoteCurrent(q) \/ PromoteVerify(q)
           \/ RecoverPrevious(q) \/ RecoverCurrent(q)
    PROVE  IInv' /\ Moves(q)
<1>1. PICK step : <<pc[q], step>> \in Followed /\ Goto(q, step)
  BY DEF PromotePrevious, PromoteCurrent, PromoteVerify, RecoverPrevious, RecoverCurrent, Followed
<1>2. UNCHANGED <<journals, lock, reg, disk, fresh, faults>>
  BY DEF PromotePrevious, PromoteCurrent, PromoteVerify, RecoverPrevious, RecoverCurrent
<1>3. pc[q] \in PromotionWork
  BY DEF PromotePrevious, PromoteCurrent, PromoteVerify, RecoverPrevious, RecoverCurrent, PromotionWork
<1>4. ptr' \in Pointers
  <2>1. ptr \in Pointers
    BY DEF IInv, TypeInv, TypeOK
  <2>2. CASE PromotePrevious(q) \/ RecoverPrevious(q)
    BY <1>3, <2>1, <2>2, WorkJournals, LinkBuilds, SetLinkTyped DEF PromotePrevious, RecoverPrevious
  <2>3. CASE PromoteCurrent(q) \/ RecoverCurrent(q)
    BY <1>3, <2>1, <2>3, WorkJournals, LinkBuilds, SetLinkTyped DEF PromoteCurrent, RecoverCurrent
  <2>4. CASE PromoteVerify(q)
    BY <2>1, <2>4 DEF PromoteVerify
  <2> QED BY <2>2, <2>3, <2>4
<1> QED BY <1>1, <1>2, <1>4, FollowStep DEF journals, IInv, TypeInv, TypeOK

LEMMA PromotionCommitStep ==
    ASSUME IInv, NEW q \in Proc, PromoteCommit(q) \/ RecoverPromotionCommit(q)
    PROVE  IInv' /\ Moves(q)
<1>1. /\ pc[q] \in {"promoteCommit", "recoverVerify"} /\ Done(q)
      /\ promotion' = [promotion EXCEPT !.phase = "COMMITTED"]
      /\ UNCHANGED <<ptr, disk, fresh, install, apply, faults>>
  BY DEF PromoteCommit, RecoverPromotionCommit
<1>2. pc[q] \in PromotionWork /\ pc[q] \in Working /\ pc[q] \in SystemHeld
  BY <1>1 DEF PromotionWork, Working, SystemHeld
<1>3. promotion' \in PromotionJournal
  BY <1>1, <1>2, WorkJournals, PhaseTyped
<1> QED BY <1>1, <1>2, <1>3, DoneFrom, LastWriteStep DEF IInv, TypeInv, TypeOK

LEMMA PromoteCommitFailsStep ==
    ASSUME IInv, NEW q \in Proc, PromoteCommitFails(q)
    PROVE  IInv' /\ Moves(q)
<1>1. <<pc[q], "promoteUndo">> \in Followed /\ pc[q] \in PromotionWork /\ pc[q] \in SystemHeld
  BY DEF PromoteCommitFails, Followed, PromotionWork, SystemHeld
<1>2. promotion' \in PromotionJournal
  BY <1>1, WorkJournals, PhaseTyped DEF PromoteCommitFails
<1>3. faults' \in 0 .. MaxFaults
  BY PlatformAssumption DEF PromoteCommitFails, IInv, TypeInv, TypeOK
<1> QED BY <1>1, <1>2, <1>3, FollowStep DEF PromoteCommitFails, IInv, TypeInv, TypeOK

LEMMA PromoteUndoStep == ASSUME IInv, NEW q \in Proc, PromoteUndo(q) PROVE IInv' /\ Moves(q)
<1>1. /\ pc[q] = "promoteUndo" /\ ProcInv(q) /\ reg[q] \in Registers /\ reg[q].i \in 1 .. 3
      /\ UNCHANGED <<disk, fresh, install, apply, faults>>
  BY DEF PromoteUndo, IInv, TypeInv, ProcInv, Count
<1>2. pc[q] \in PromotionWork /\ pc[q] \in Working /\ pc[q] \in SystemHeld /\ pc[q] \notin ApplyWork
  BY <1>1 DEF PromotionWork, Working, SystemHeld, ApplyWork
<1>3. ptr' \in Pointers
  BY <1>2, WorkJournals, LinkBuilds, SetLinkTyped DEF PromoteUndo, IInv, TypeInv, TypeOK
<1>4. CASE reg[q].i = 3
  <2>1. Fail(q) /\ promotion' = [promotion EXCEPT !.phase = "RECOVERED"]
    BY <1>4 DEF PromoteUndo
  <2>2. promotion' \in PromotionJournal
    BY <1>2, <2>1, WorkJournals, PhaseTyped
  <2> QED BY <1>1, <1>2, <1>3, <2>1, <2>2, FailStep, LastWriteStep
<1>5. CASE reg[q].i # 3
  <2>1. PICK n, r : n = reg[q].i + 1 /\ r = [reg[q] EXCEPT !.i = n]
    OBVIOUS
  <2>2. n \in 1 .. 11 /\ n \in 1 .. 3
    BY <1>1, <1>5, <2>1
  <2>3. /\ r \in Registers /\ r.i \in 1 .. 3 /\ r.cmd = reg[q].cmd /\ r.at = reg[q].at
        /\ r.token = reg[q].token /\ r.trap = reg[q].trap
    BY <1>1, <2>1, <2>2, CountTyped
  <2>4. /\ reg' \in [Proc -> Registers] /\ reg'[q] = r /\ \A p \in Proc \ {q} : reg'[p] = reg[p]
    BY <1>5, <2>1, <2>3 DEF PromoteUndo, IInv, TypeInv
  <2>5. Goto(q, pc[q]) /\ pc[q] \in Location /\ UNCHANGED <<lock, promotion>>
    BY <1>1, <1>5 DEF PromoteUndo, Goto, IInv, TypeInv
  <2>6. Position(pc[q], reg[q]) /\ Count(pc[q], r.i)
    BY <1>1, <2>3 DEF ProcInv, Count, Restoring
  <2>7. promotion # NoJournal
    BY <1>1, <1>2 DEF ProcInv
  <2> QED BY <1>1, <1>2, <1>3, <2>3, <2>4, <2>5, <2>6, <2>7, WorkStep DEF IInv, TypeInv, TypeOK
<1> QED BY <1>4, <1>5

LEMMA RecoverPromotionNothingStep ==
    ASSUME IInv, NEW q \in Proc, RecoverPromotionNothing(q)
    PROVE  IInv' /\ Moves(q)
<1>1. /\ pc[q] = "recoverPromotionCheck" /\ Done(q)
      /\ UNCHANGED <<ptr, disk, fresh, journals, faults>>
  BY DEF RecoverPromotionNothing
<1> QED BY <1>1, DoneFrom, LeaveStep DEF IInv, TypeInv, TypeOK

\* An I/O error ends the call, or sends it to its undo.
LEMMA StepFailsStep == ASSUME IInv, NEW q \in Proc, StepFails(q) PROVE IInv' /\ Moves(q)
<1>1. /\ pc[q] # "idle" /\ faults' \in 0 .. MaxFaults
      /\ UNCHANGED <<ptr, disk, fresh, journals>>
  BY PlatformAssumption DEF StepFails, IInv, TypeInv, TypeOK
<1>2. CASE ErrorPath(pc[q]) = "fail"
  BY <1>1, <1>2, FailStep, LeaveStep DEF StepFails, IInv, TypeInv, TypeOK
<1>3. CASE ErrorPath(pc[q]) # "fail"
  <2>1. PICK step : step = ErrorPath(pc[q])
    OBVIOUS
  <2>2. <<pc[q], step>> \in Followed
    BY <1>3, <2>1 DEF ErrorPath, DotfilesErrorPath, PromotionErrorPath, Followed
  <2>3. Goto(q, step) /\ UNCHANGED <<lock, reg>>
    BY <1>3, <2>1 DEF StepFails
  <2> QED BY <1>1, <2>2, <2>3, FollowStep DEF journals, IInv, TypeInv, TypeOK
<1> QED BY <1>2, <1>3

\* Damage touches no link, no journal and no process.
LEMMA DamageStep ==
    ASSUME IInv, NEW g \in Generation, Damage(g)
    PROVE  IInv' /\ UNCHANGED <<ptr, journals, local>>
<1>1. UNCHANGED <<ptr, install, apply, promotion, lock, pc, reg, fresh, faults>> /\ disk' \in Disk
  BY DEF Damage, Disk, journals, local, IInv, TypeInv, TypeOK
<1>2. TypeInv'
  BY <1>1 DEF IInv, TypeInv, TypeOK
<1>3. ASSUME NEW p \in Proc PROVE ProcInv(p)'
  BY <1>1 DEF IInv, ProcInv, Installer, InstallPending, Restored
<1> QED BY <1>1, <1>2, <1>3 DEF IInv, journals, local

-----------------------------------------------------------------------------
\* Every step of every command.
LEMMA InstallStepKeeps ==
    ASSUME IInv, NEW q \in Proc, InstallStep(q)
    PROVE  IInv' /\ Moves(q)
BY RefusedStep, StageStep, TryInstallLockStep, RecoverInstallStep, RestoreTargetStep,
   InstallRecoveredStep, BeginStep, ActivateStep, ActivateLinkStep, VerifyStep, CommitStep,
   BuildPreviousStep, BuildCurrentStep DEF InstallStep

LEMMA DotfilesStepKeeps ==
    ASSUME IInv, NEW q \in Proc, DotfilesStep(q)
    PROVE  IInv' /\ Moves(q)
BY RefusedStep, LockStep, RecoverApplyStep, ApplyPlanStep, ApplyLinksStep, ApplyQuarantineStep,
   RestoreDotfilesLinkStep, ApplyRecoveredStep, RollbackCurrentStep, RollbackPreviousStep,
   RollbackVerifyStep, RollbackUndoStep DEF DotfilesStep

LEMMA PromotionStepKeeps ==
    ASSUME IInv, NEW q \in Proc, PromotionStep(q)
    PROVE  IInv' /\ Moves(q)
BY RefusedStep, LockStep, PromotePlanStep, PromotionLinksStep, PromotionCommitStep,
   PromoteCommitFailsStep, PromoteUndoStep, RecoverPromotionPlanStep, RecoverPromotionNothingStep
   DEF PromotionStep

\* A step is one process's, or changes no link, journal or process.
LEMMA NextIInv ==
    ASSUME IInv, [Next]_vars
    PROVE  IInv' /\ ((\E q \in Proc : Moves(q)) \/ UNCHANGED <<ptr, journals, local>>)
<1>1. ASSUME NEW q \in Proc, NEW cmd \in Commands, Start(q, cmd) PROVE IInv' /\ Moves(q)
  BY <1>1, StartStep
<1>2. ASSUME NEW q \in Proc,
             InstallStep(q) \/ DotfilesStep(q) \/ PromotionStep(q) \/ Crash(q) \/ StepFails(q)
      PROVE  IInv' /\ Moves(q)
  BY <1>2, InstallStepKeeps, DotfilesStepKeeps, PromotionStepKeeps, CrashStep, StepFailsStep
<1>3. ASSUME NEW g \in Generation, Damage(g) PROVE IInv' /\ UNCHANGED <<ptr, journals, local>>
  BY <1>3, DamageStep
<1>4. CASE UNCHANGED vars
  <2>1. UNCHANGED <<ptr, install, apply, promotion, lock, pc, reg, disk, fresh, faults>>
    BY <1>4 DEF vars, journals, local
  <2>2. IInv'
    BY <2>1 DEF IInv, TypeInv, TypeOK, ProcInv, Installer, InstallPending, Restored
  <2> QED BY <2>1, <2>2 DEF journals, local
<1> QED BY <1>1, <1>2, <1>3, <1>4 DEF Next

-----------------------------------------------------------------------------
\* The inductive invariant, of every instance: each process is where its
\* command line allows, holds the locks its step stands for, and works on links
\* while an installation is pending only if it is the installer.
THEOREM InductiveInvariant == Spec => []IInv
<1>1. InitState => IInv
  BY InitIInv
<1>2. IInv /\ [Next]_vars => IInv'
  BY NextIInv
<1> QED BY <1>1, <1>2, PTL DEF Spec

\* From the durable PREPARED record to COMMITTED or RECOVERED only the process
\* under install.lock moves a link, if nobody runs build-runtime.sh by hand.
THEOREM InstallationExcludesOthers == ASSUME NoBuild PROVE Spec => InstallBlocksOthers
<1>1. ASSUME IInv, [Next]_vars
      PROVE  [\A p \in Proc :
                InstallPending /\ ptr' # ptr /\ <<pc[p], reg[p]>>' # <<pc[p], reg[p]>> =>
                  Installer(p)]_vars
  <2> SUFFICES ASSUME NEW p \in Proc, InstallPending, ptr' # ptr,
                      <<pc[p], reg[p]>>' # <<pc[p], reg[p]>>
               PROVE  Installer(p)
    OBVIOUS
  <2>1. PICK q \in Proc : Moves(q)
    BY <1>1, NextIInv
  <2>2. p = q
    BY <2>1 DEF Moves
  <2> QED BY <1>1, <2>1, <2>2 DEF Moves
<1> QED BY <1>1, InductiveInvariant, PTL DEF Spec, InstallBlocksOthers

\* A recovery that ends has put back all eight links and both journals, however
\* often the installation and its recovery were interrupted.
THEOREM RecoveryIsExact == ASSUME NoBuild PROVE Spec => RecoveredIsBefore
<1>1. ASSUME IInv, [Next]_vars
      PROVE  [install.phase = "RECOVERING" /\ install'.phase = "RECOVERED"
                => /\ ptr' = install.links
                   /\ apply' = install.apply
                   /\ promotion' = install.promotion]_vars
  <2> SUFFICES ASSUME install.phase = "RECOVERING", install'.phase = "RECOVERED"
               PROVE  PutBack
    BY DEF PutBack
  <2>1. install' # install
    OBVIOUS
  <2>2. PICK q \in Proc : Moves(q)
    BY <1>1, <2>1, NextIInv DEF journals
  <2> QED BY <1>1, <2>1, <2>2 DEF Moves
<1> QED BY <1>1, InductiveInvariant, PTL DEF Spec, RecoveredIsBefore

-----------------------------------------------------------------------------
(***************************************************************************)
(* A pending promotion and the system links.  Every system generation that *)
(* a link or a journal names exists, so that what promote() resolves is    *)
(* what the link holds; the links are covered by the promotion journal, or *)
(* by the installation that saved both.                                    *)
(***************************************************************************)
Live(g) == g = None \/ Exists(disk, g)

LiveLinks(links) == Live(links["system/current"]) /\ Live(links["system/previous"])

LiveJournal(j) ==
    j # NoJournal => Live(j.target) /\ Live(j.beforeCurrent) /\ Live(j.beforePrevious)

SystemLive ==
    /\ LiveLinks(ptr) /\ LiveJournal(promotion)
    /\ InstallPending => /\ LiveLinks(install.links) /\ LiveJournal(install.promotion)
                         /\ Live(install.checkpoint)

Covers(links, j) ==
    j.phase = "PREPARED" => /\ links["system/current"] \in {j.beforeCurrent, j.target}
                            /\ links["system/previous"] \in {j.beforePrevious, j.beforeCurrent}

SavedCovered == InstallPending => Covers(install.links, install.promotion)

LinksCovered == (InstallPending /\ promotion = install.promotion) \/ Covers(ptr, promotion)

\* Where the installer has not promoted yet, where it has, and what recover()
\* has put back of the system.
CoverStep(p) ==
    /\ pc[p] \in {"activate", "activateLinks"} => promotion = install.promotion
    /\ pc[p] \in {"verify", "commit"} => promotion.phase = "COMMITTED"
    /\ pc[p] = "restoreInstall" =>
         /\ reg[p].i > 1 => promotion = install.promotion
         /\ reg[p].i > 2 => ptr["system/previous"] = install.links["system/previous"]
         /\ reg[p].i > 3 => ptr["system/current"] = install.links["system/current"]

CoverInv == SystemLive /\ SavedCovered /\ LinksCovered /\ \A p \in Proc : CoverStep(p)

\* No system generation is removed.
KeepsSystem == \A s \in System : disk[s] # "absent" => disk'[s] # "absent"

\* What the journals name, where there are any.
LEMMA SystemTyped ==
    ASSUME IInv
    PROVE  /\ promotion # NoJournal =>
                /\ promotion.target \in System /\ promotion.beforeCurrent \in System \cup {None}
                /\ promotion.beforePrevious \in System \cup {None}
           /\ InstallPending =>
                /\ install \in InstallJournal
                /\ install.links["system/current"] \in System \cup {None}
                /\ install.links["system/previous"] \in System \cup {None}
                /\ install.checkpoint \in System \cup {None}
                /\ install.promotion # NoJournal =>
                     /\ install.promotion.target \in System
                     /\ install.promotion.beforeCurrent \in System \cup {None}
                     /\ install.promotion.beforePrevious \in System \cup {None}
<1>1. \A j \in PromotionJournal :
        /\ j.target \in System /\ j.beforeCurrent \in System \cup {None}
        /\ j.beforePrevious \in System \cup {None}
  BY DEF PromotionJournal
<1>2. promotion # NoJournal => promotion \in PromotionJournal
  BY DEF IInv, TypeInv, TypeOK
<1>3. InstallPending => install \in InstallJournal
  BY JournalsAre DEF InstallPending, IInv, TypeInv, TypeOK
<1>4. \A j \in InstallJournal :
        /\ j.links \in Pointers /\ j.checkpoint \in System \cup {None}
        /\ j.promotion # NoJournal => j.promotion \in PromotionJournal
  BY DEF InstallJournal
<1>5. \A links \in Pointers : /\ links["system/current"] \in System \cup {None}
                              /\ links["system/previous"] \in System \cup {None}
  BY DEF Pointers, Link, Builds
<1> QED BY <1>1, <1>2, <1>3, <1>4, <1>5

LEMMA LiveStays ==
    ASSUME KeepsSystem, NEW g \in System \cup {None}, Live(g)
    PROVE  g = None \/ Exists(disk', g)
BY StoreAssumption DEF KeepsSystem, Live, Exists, Generation

\* Whatever the links of the system were set to existed before.
LEMMA LiveStep ==
    ASSUME IInv, SystemLive, KeepsSystem, UNCHANGED <<install, promotion>>,
           ptr'["system/current"] \in System \cup {None}, Live(ptr'["system/current"]),
           ptr'["system/previous"] \in System \cup {None}, Live(ptr'["system/previous"])
    PROVE  SystemLive'
<1>1. LiveLinks(ptr)'
  BY LiveStays DEF LiveLinks, Live
<1>2. LiveJournal(promotion)'
  BY SystemTyped, LiveStays DEF SystemLive, LiveJournal, Live
<1>3. (InstallPending => /\ LiveLinks(install.links) /\ LiveJournal(install.promotion)
                         /\ Live(install.checkpoint))'
  <2> SUFFICES ASSUME InstallPending
               PROVE  (/\ LiveLinks(install.links) /\ LiveJournal(install.promotion)
                       /\ Live(install.checkpoint))'
    BY DEF InstallPending
  <2>1. /\ LiveLinks(install.links) /\ LiveJournal(install.promotion) /\ Live(install.checkpoint)
    BY DEF SystemLive
  <2>2. LiveLinks(install.links)'
    BY <2>1, SystemTyped, LiveStays DEF LiveLinks, Live
  <2>3. LiveJournal(install.promotion)'
    BY <2>1, SystemTyped, LiveStays DEF LiveJournal, Live
  <2>4. Live(install.checkpoint)'
    BY <2>1, SystemTyped, LiveStays DEF Live
  <2> QED BY <2>2, <2>3, <2>4
<1> QED BY <1>1, <1>2, <1>3 DEF SystemLive

\* The steps CoverStep is about are the installer's.
Special == {"activate", "activateLinks", "verify", "commit", "restoreInstall"}

\* The installer's knowledge of the system is disturbed by nobody else.
LEMMA CoverOthers ==
    ASSUME IInv, CoverInv, NEW q \in Proc, Moves(q), NEW p \in Proc \ {q}
    PROVE  CoverStep(p)'
<1>1. pc'[p] = pc[p] /\ reg'[p] = reg[p] /\ CoverStep(p) /\ p # None
  BY PlatformAssumption DEF Moves, CoverInv
<1>2. CASE pc[p] \notin Special
  BY <1>1, <1>2 DEF CoverStep, Special
<1>3. CASE pc[p] \in Special
  <2>1. Installer(p) /\ InstallPending
    BY <1>3, InstallerSteps DEF Special
  <2>2. ~Installer(q)
    BY <2>1 DEF Installer
  <2>3. install' = install /\ Guarded' = Guarded
    BY <2>1, <2>2 DEF Moves
  <2> QED BY <1>1, <2>3 DEF CoverStep, Guarded
<1> QED BY <1>2, <1>3

\* A step of q that leaves both journals of the system alone.
LEMMA LinksStep ==
    ASSUME IInv, CoverInv, NEW q \in Proc, Moves(q), KeepsSystem, UNCHANGED <<install, promotion>>,
           ptr'["system/current"] \in System \cup {None}, Live(ptr'["system/current"]),
           ptr'["system/previous"] \in System \cup {None}, Live(ptr'["system/previous"]),
           LinksCovered', CoverStep(q)'
    PROVE  CoverInv'
<1>1. SavedCovered'
  BY DEF CoverInv, SavedCovered, InstallPending, Covers
<1> QED BY <1>1, LiveStep, CoverOthers DEF CoverInv

\* Most steps have nothing to do with the system.
Quiet(q) ==
    /\ KeepsSystem
    /\ UNCHANGED <<install, promotion, ptr["system/current"], ptr["system/previous"]>>
    /\ pc'[q] \notin Special

LEMMA QuietStep ==
    ASSUME IInv, CoverInv, NEW q \in Proc, Moves(q), Quiet(q)
    PROVE  CoverInv'
<1>1. LinksCovered'
  BY DEF CoverInv, Quiet, LinksCovered, InstallPending, Covers
<1>2. CoverStep(q)'
  BY DEF Quiet, CoverStep, Special
<1>3. /\ ptr'["system/current"] \in System \cup {None} /\ Live(ptr'["system/current"])
      /\ ptr'["system/previous"] \in System \cup {None} /\ Live(ptr'["system/previous"])
  BY LinksTyped DEF Quiet, CoverInv, SystemLive, LiveLinks
<1> QED BY <1>1, <1>2, <1>3, LinksStep DEF Quiet

LEMMA FailQuiet ==
    ASSUME IInv, NEW q \in Proc, Fail(q) \/ Quit(q)
    PROVE  pc'[q] \notin Special
BY DEF Fail, Quit, Enter, Goto, Special, IInv, TypeInv

LEMMA DoneQuiet ==
    ASSUME IInv, NEW q \in Proc, Done(q),
           pc[q] \in {"recoverInstall", "restoreInstall", "activateLinks", "applyQuarantine",
                      "recoverApplyCheck", "restoreThenDone", "rollbackVerify",
                      "recoverPromotionCheck", "recoverVerify"}
    PROVE  pc'[q] \notin Special
<1>1. ProcInv(q) /\ reg[q].at \in 1 .. 9
  BY DEF IInv, TypeInv, TypeOK
<1>2. CASE Quit(q)
  BY <1>2, FailQuiet
<1>3. CASE ~Quit(q)
  <2>1. PICK n : n = reg[q].at + 1
    OBVIOUS
  <2>2. ~reg[q].trap /\ ~(n > Len(Program[reg[q].cmd]))
    BY <1>3, <2>1 DEF Done, DoneWith
  <2>3. pc'[q] = Program[reg[q].cmd][n]
    BY <1>3, <2>1 DEF Done, DoneWith, Enter, Goto, IInv, TypeInv
  <2>4. \/ reg[q].cmd = "install" /\ reg[q].at \in {3, 5, 6}
        \/ reg[q].cmd = "recover" /\ reg[q].at \in {2, 3, 4}
        \/ reg[q].cmd \in {"apply", "rollback", "recoverDotfiles", "recoverSystem"} /\ reg[q].at = 1
    BY <1>1, <2>2 DEF ProcInv, Position, InLine, Recovering, ApplyWork, RollbackWork
  <2>5. \/ reg[q].cmd = "install" /\ n \in {4, 6, 7}
        \/ reg[q].cmd = "recover" /\ n \in {3, 4}
    <3>1. CASE reg[q].cmd = "install"
      BY <2>1, <2>4, <3>1
    <3>2. CASE reg[q].cmd = "recover"
      <4>1. Len(Program[reg[q].cmd]) = 4
        BY <3>2, Programs
      <4> QED BY <2>1, <2>2, <2>4, <3>2, <4>1
    <3>3. CASE reg[q].cmd \in {"apply", "rollback", "recoverDotfiles", "recoverSystem"}
      <4>1. Len(Program[reg[q].cmd]) = 1
        BY <3>3, Programs
      <4> QED BY <2>1, <2>2, <2>4, <3>3, <4>1
    <3> QED BY <2>4, <3>1, <3>2, <3>3
  <2>6. pc'[q] \in {"begin", "applyDotfiles", "promote", "recoverApply", "recoverPromotion"}
    BY <2>3, <2>5, Programs
  <2> QED BY <2>6 DEF Special
<1> QED BY <1>2, <1>3

\* The commands that only touch dotfiles or shells, or nothing.
LEMMA RefusedQuiet ==
    ASSUME IInv, NEW q \in Proc,
           \/ StageFails(q) \/ BeginRefused(q) \/ ActivateRefused(q) \/ CommitRefused(q)
           \/ BuildRefused(q) \/ ApplyRefused(q) \/ ApplyBuildFails(q) \/ RecoverApplyRefused(q)
           \/ RollbackRefused(q) \/ PromoteRefused(q) \/ RecoverPromotionRefused(q)
           \/ RecoverPromotionUnverified(q) \/ Crash(q) \/ (StepFails(q) /\ ErrorPath(pc[q]) = "fail")
    PROVE  Quiet(q)
<1>1. (Fail(q) \/ Quit(q)) /\ UNCHANGED <<ptr, disk, fresh, journals>>
  BY DEF StageFails, BeginRefused, ActivateRefused, CommitRefused, BuildRefused, ApplyRefused,
         ApplyBuildFails, RecoverApplyRefused, RollbackRefused, PromoteRefused,
         RecoverPromotionRefused, RecoverPromotionUnverified, Crash, StepFails
<1> QED BY <1>1, FailQuiet DEF Quiet, KeepsSystem, journals

\* A step to a place that is not special, past the system's links and journals.
LEMMA GotoQuiet ==
    ASSUME IInv, NEW q \in Proc, NEW step, Goto(q, step), step \notin Special, KeepsSystem,
           UNCHANGED <<install, promotion>>,
           \/ ptr' = ptr
           \/ \E l \in Link \ {"system/current", "system/previous"} : \E value : SetLink(l, value)
    PROVE  Quiet(q)
<1>1. pc'[q] = step
  BY DEF Goto, IInv, TypeInv
<1>2. UNCHANGED <<ptr["system/current"], ptr["system/previous"]>>
  BY DEF SetLink, Pointers, Link, IInv, TypeInv, TypeOK
<1> QED BY <1>1, <1>2 DEF Quiet

LEMMA StartQuiet == ASSUME IInv, NEW q \in Proc, NEW cmd \in Commands, Start(q, cmd) PROVE Quiet(q)
<1>1. cmd \in DOMAIN Program
  BY PlatformAssumption
<1>2. Program[cmd][1] \notin Special
  BY <1>1, Programs DEF Special
<1> QED BY <1>2, GotoQuiet DEF Start, KeepsSystem, journals

LEMMA InstallQuiet ==
    ASSUME IInv, NEW q \in Proc,
           Stage(q) \/ TryInstallLock(q) \/ BuildPrevious(q) \/ BuildCurrent(q)
    PROVE  Quiet(q)
<1>1. {"shell/current", "shell/previous"} \subseteq Link \ {"system/current", "system/previous"}
  BY DEF Link
<1>2. CASE Stage(q)
  <2>1. KeepsSystem
    BY <1>2 DEF Stage, KeepsSystem, Disk, Generation, IInv, TypeInv, TypeOK
  <2>2. Goto(q, "tryInstallLock") /\ UNCHANGED <<install, promotion, ptr>>
    BY <1>2 DEF Stage, journals
  <2> QED BY <2>1, <2>2, GotoQuiet DEF Special
<1>3. CASE TryInstallLock(q)
  <2>1. UNCHANGED <<ptr, disk, install, promotion>> /\ KeepsSystem
    BY <1>3 DEF TryInstallLock, journals, KeepsSystem
  <2>2. CASE Quit(q)
    BY <2>1, <2>2, FailQuiet DEF Quiet
  <2>3. CASE ~Quit(q)
    <3>1. ProcInv(q) /\ pc[q] = "tryInstallLock"
      BY <1>3 DEF TryInstallLock, IInv
    <3>2. InLine(reg[q], "install", 2) \/ InLine(reg[q], "recover", 1)
      BY <3>1 DEF ProcInv, Position
    <3>3. Program[reg[q].cmd][reg[q].at + 1] = "recoverInstall"
      BY <3>2, Programs DEF InLine
    <3>4. Goto(q, "recoverInstall")
      BY <1>3, <2>3, <3>3 DEF TryInstallLock
    <3> QED BY <2>1, <3>4, GotoQuiet DEF Special
  <2> QED BY <2>2, <2>3
<1>4. CASE BuildPrevious(q)
  <2>1. KeepsSystem
    BY <1>4 DEF BuildPrevious, Create, KeepsSystem, Disk, Generation, IInv, TypeInv, TypeOK
  <2> QED BY <1>1, <1>4, <2>1, GotoQuiet DEF BuildPrevious, journals, Special
<1>5. CASE BuildCurrent(q)
  <2>1. KeepsSystem
    BY <1>5 DEF BuildCurrent, KeepsSystem
  <2>2. Goto(q, "idle")
    BY <1>5 DEF BuildCurrent, Quit
  <2> QED BY <1>1, <1>5, <2>1, <2>2, GotoQuiet DEF BuildCurrent, journals, Special
<1> QED BY <1>2, <1>3, <1>4, <1>5

LEMMA LockQuiet ==
    ASSUME IInv, NEW q \in Proc,
           ApplyLock(q) \/ RecoverApplyLock(q) \/ RollbackLock(q) \/ PromoteLock(q) \/ RecoverPromotionLock(q)
    PROVE  Quiet(q)
<1>1. PICK step : /\ Goto(q, step) /\ UNCHANGED <<ptr, disk, fresh, journals>>
                  /\ step \in {"applyCheck", "recoverApplyCheck", "rollbackCheck", "promoteCheck",
                               "recoverPromotionCheck"}
  BY DEF ApplyLock, RecoverApplyLock, RollbackLock, PromoteLock, RecoverPromotionLock, TakeLock
<1> QED BY <1>1, GotoQuiet DEF Special, KeepsSystem, journals

\* recover_apply_locked() and the apply, in all their steps.
LEMMA DotfilesQuiet ==
    ASSUME IInv, NEW q \in Proc, DotfilesStep(q)
    PROVE  Quiet(q)
<1>1. {"dotfiles/current", "dotfiles/previous"} \subseteq Link \ {"system/current", "system/previous"}
  BY DEF Link
<1>2. disk' = disk => KeepsSystem
  BY DEF KeepsSystem
<1>3. CASE ApplyCheck(q) \/ ApplyUndo(q) \/ RecoverApply(q)
  <2>1. UNCHANGED <<ptr, disk, install, promotion>> /\ KeepsSystem
    BY <1>2, <1>3 DEF ApplyCheck, ApplyUndo, RecoverApply, RecoverApplyLocked
  <2>2. CASE ApplyPending
    <3>1. PICK back \in {"applyPlan", "fail", "done"} :
            Goto(q, [applyPlan |-> "restoreThenPlan", fail |-> "restoreThenFail",
                     done |-> "restoreThenDone"][back])
      BY <1>3, <2>2 DEF ApplyCheck, ApplyUndo, RecoverApply, RecoverApplyLocked
    <3>2. [applyPlan |-> "restoreThenPlan", fail |-> "restoreThenFail",
           done |-> "restoreThenDone"][back] \notin Special
      BY DEF Special
    <3> QED BY <2>1, <3>1, <3>2, GotoQuiet
  <2>3. CASE ~ApplyPending
    <3>1. \/ Goto(q, "applyPlan") \/ Fail(q) \/ (Done(q) /\ pc[q] = "recoverApplyCheck")
      BY <1>3, <2>3 DEF ApplyCheck, ApplyUndo, RecoverApply, RecoverApplyLocked
    <3>2. CASE Goto(q, "applyPlan")
      BY <2>1, <3>2, GotoQuiet DEF Special
    <3>3. CASE ~Goto(q, "applyPlan")
      BY <2>1, <3>1, <3>3, FailQuiet, DoneQuiet DEF Quiet
    <3> QED BY <3>2, <3>3
  <2> QED BY <2>2, <2>3
<1>4. CASE ApplyPlan(q)
  <2>1. KeepsSystem
    BY <1>4 DEF ApplyPlan, Create, KeepsSystem, Disk, Generation, IInv, TypeInv, TypeOK
  <2> QED BY <1>4, <2>1, GotoQuiet DEF ApplyPlan, Special
<1>5. CASE ApplyPrevious(q) \/ ApplyCurrent(q) \/ ApplyVerify(q) \/ ApplyCommit(q)
  <2>1. PICK step : Goto(q, step) /\ step \in {"applyCurrent", "applyVerify", "applyCommit",
                                               "applyUndo", "applyQuarantine"}
    BY <1>5 DEF ApplyPrevious, ApplyCurrent, ApplyVerify, ApplyCommit
  <2>2. UNCHANGED <<install, promotion, disk>>
    BY <1>5 DEF ApplyPrevious, ApplyCurrent, ApplyVerify, ApplyCommit, journals
  <2>3. \/ ptr' = ptr
        \/ \E l \in Link \ {"system/current", "system/previous"} : \E value : SetLink(l, value)
    BY <1>1, <1>5 DEF ApplyPrevious, ApplyCurrent, ApplyVerify, ApplyCommit
  <2> QED BY <1>2, <2>1, <2>2, <2>3, GotoQuiet DEF Special
<1>6. CASE ApplyQuarantine(q)
  <2>1. KeepsSystem
    <3>1. reg[q].old \in Dotfiles \cup {None} /\ disk \in Disk
      BY DEF IInv, TypeInv, TypeOK, Registers
    <3>2. \A s \in System : s \in Generation /\ (reg[q].old # None => s # reg[q].old)
      BY <3>1, StoreAssumption DEF Generation
    <3> QED BY <1>6, <3>1, <3>2 DEF ApplyQuarantine, KeepsSystem, Disk
  <2> QED BY <1>6, <2>1, DoneQuiet DEF ApplyQuarantine, Quiet, journals
<1>7. CASE RestoreDotfilesLink(q)
  <2>1. Goto(q, pc[q]) /\ pc[q] \notin Special
    BY <1>7 DEF RestoreDotfilesLink, Goto, Restoring, Special, IInv, TypeInv
  <2>2. \E l \in Link \ {"system/current", "system/previous"} : \E value : SetLink(l, value)
    BY <1>1, <1>7 DEF RestoreDotfilesLink
  <2> QED BY <1>2, <1>7, <2>1, <2>2, GotoQuiet DEF RestoreDotfilesLink, journals
<1>8. CASE ApplyRecovered(q)
  <2>1. \/ Goto(q, "applyPlan") \/ Fail(q) \/ (Done(q) /\ pc[q] = "restoreThenDone")
    BY <1>8 DEF ApplyRecovered, Restoring
  <2>2. UNCHANGED <<ptr, disk, install, promotion>> /\ KeepsSystem
    BY <1>2, <1>8 DEF ApplyRecovered
  <2>3. CASE Goto(q, "applyPlan")
    BY <2>2, <2>3, GotoQuiet DEF Special
  <2>4. CASE ~Goto(q, "applyPlan")
    BY <2>1, <2>2, <2>4, FailQuiet, DoneQuiet DEF Quiet
  <2> QED BY <2>3, <2>4
<1>9. CASE RollbackCurrent(q) \/ RollbackPrevious(q)
  <2>1. PICK step : Goto(q, step) /\ step \in {"rollbackPrevious", "rollbackVerify"}
    BY <1>9 DEF RollbackCurrent, RollbackPrevious
  <2>2. \E l \in Link \ {"system/current", "system/previous"} : \E value : SetLink(l, value)
    BY <1>1, <1>9 DEF RollbackCurrent, RollbackPrevious
  <2>3. UNCHANGED <<install, promotion, disk>>
    BY <1>9 DEF RollbackCurrent, RollbackPrevious, journals
  <2> QED BY <1>2, <2>1, <2>2, <2>3, GotoQuiet DEF Special
<1>10. CASE RollbackVerify(q)
  <2>1. UNCHANGED <<ptr, disk, install, promotion>> /\ KeepsSystem
    BY <1>2, <1>10 DEF RollbackVerify, journals
  <2>2. CASE Goto(q, "rollbackUndo")
    BY <2>1, <2>2, GotoQuiet DEF Special
  <2>3. CASE ~Goto(q, "rollbackUndo")
    BY <1>10, <2>1, <2>3, DoneQuiet DEF RollbackVerify, Quiet
  <2> QED BY <2>2, <2>3
<1>11. CASE RollbackUndo(q)
  <2>1. PICK step : Goto(q, step) /\ step \notin Special
    <3>1. CASE reg[q].i = 1
      BY <1>11, <3>1 DEF RollbackUndo, Goto, Special, IInv, TypeInv
    <3>2. CASE reg[q].i # 1
      BY <1>11, <3>2 DEF RollbackUndo, Fail, Quit, Enter, Goto, Special
    <3> QED BY <3>1, <3>2
  <2>2. \E l \in Link \ {"system/current", "system/previous"} : \E value : SetLink(l, value)
    BY <1>1, <1>11 DEF RollbackUndo
  <2> QED BY <1>2, <1>11, <2>1, <2>2, GotoQuiet DEF RollbackUndo, journals
<1>12. CASE \/ ApplyLock(q) \/ RecoverApplyLock(q) \/ RollbackLock(q)
            \/ ApplyRefused(q) \/ ApplyBuildFails(q) \/ RecoverApplyRefused(q) \/ RollbackRefused(q)
  BY <1>12, LockQuiet, RefusedQuiet
<1> QED BY <1>3, <1>4, <1>5, <1>6, <1>7, <1>8, <1>9, <1>10, <1>11, <1>12 DEF DotfilesStep

-----------------------------------------------------------------------------
\* A promotion starts from what the links hold.
LEMMA PromotePlanCovers ==
    ASSUME IInv, CoverInv, NEW q \in Proc, Moves(q), PromotePlan(q)
    PROVE  CoverInv'
<1>1. UNCHANGED <<ptr, install>> /\ pc' = [pc EXCEPT ![q] = "promotePrevious"]
  BY DEF PromotePlan, Goto
<1>2. PICK s \in Seals(q) :
        /\ Create(s)
        /\ promotion' = [phase |-> "PREPARED", target |-> s,
                         beforeCurrent |-> Resolved("system/current"),
                         beforePrevious |-> Resolved("system/previous")]
  BY DEF PromotePlan
<1>3. s \in System /\ disk' = [disk EXCEPT ![s] = "intact"] /\ disk \in Disk
  BY <1>2 DEF Seals, Create, IInv, TypeInv, TypeOK
<1>4. KeepsSystem /\ Exists(disk', s)
  BY <1>3 DEF KeepsSystem, Exists, Disk, Generation
<1>5. LiveLinks(ptr)
  BY DEF CoverInv, SystemLive
<1>6. /\ Resolved("system/current") = ptr["system/current"]
      /\ Resolved("system/previous") = ptr["system/previous"]
  BY <1>5 DEF LiveLinks, Live, Resolved
<1>7. SystemLive'
  <2>1. LiveLinks(ptr)'
    BY <1>1, <1>4, <1>5, LinksTyped, LiveStays DEF LiveLinks, Live
  <2>2. LiveJournal(promotion)'
    BY <1>1, <1>2, <1>4, <1>6, <2>1 DEF LiveJournal, LiveLinks, Live
  <2>3. (InstallPending => /\ LiveLinks(install.links) /\ LiveJournal(install.promotion)
                           /\ Live(install.checkpoint))'
    <3> SUFFICES ASSUME InstallPending
                 PROVE  (/\ LiveLinks(install.links) /\ LiveJournal(install.promotion)
                         /\ Live(install.checkpoint))'
      BY <1>1 DEF InstallPending
    <3>1. LiveLinks(install.links) /\ LiveJournal(install.promotion) /\ Live(install.checkpoint)
      BY DEF CoverInv, SystemLive
    <3> QED BY <1>1, <1>4, <3>1, SystemTyped, LiveStays DEF LiveLinks, LiveJournal, Live
  <2> QED BY <2>1, <2>2, <2>3 DEF SystemLive
<1>8. SavedCovered'
  BY <1>1 DEF CoverInv, SavedCovered, InstallPending, Covers
<1>9. LinksCovered'
  BY <1>1, <1>2, <1>6 DEF LinksCovered, Covers
<1>10. CoverStep(q)'
  BY <1>1 DEF CoverStep, IInv, TypeInv
<1> QED BY <1>7, <1>8, <1>9, <1>10, CoverOthers DEF CoverInv

\* Its links go where the journal says.
LEMMA PromotionLinksCover ==
    ASSUME IInv, CoverInv, NEW q \in Proc, Moves(q),
           \/ PromotePrevious(q) \/ PromoteCurrent(q) \/ RecoverPrevious(q) \/ RecoverCurrent(q)
           \/ PromoteUndo(q) /\ reg[q].i # 3
    PROVE  CoverInv'
<1>1. UNCHANGED <<install, promotion, disk>> /\ pc[q] \in PromotionWork
  BY DEF PromotePrevious, PromoteCurrent, RecoverPrevious, RecoverCurrent, PromoteUndo, journals,
         PromotionWork
<1>2. pc'[q] \notin Special
  BY DEF PromotePrevious, PromoteCurrent, RecoverPrevious, RecoverCurrent, PromoteUndo, Goto, Special,
         IInv, TypeInv
<1>3. promotion # NoJournal
  BY <1>1 DEF IInv, ProcInv
<1>4. /\ ptr'["system/current"] \in {ptr["system/current"], promotion.beforeCurrent, promotion.target}
      /\ ptr'["system/previous"] \in {ptr["system/previous"], promotion.beforeCurrent,
                                       promotion.beforePrevious}
  BY DEF PromotePrevious, PromoteCurrent, RecoverPrevious, RecoverCurrent, PromoteUndo, SetLink,
         Pointers, Link, IInv, TypeInv, TypeOK
<1>5. /\ Live(promotion.target) /\ Live(promotion.beforeCurrent) /\ Live(promotion.beforePrevious)
      /\ Live(ptr["system/current"]) /\ Live(ptr["system/previous"])
  BY <1>3 DEF CoverInv, SystemLive, LiveJournal, LiveLinks
<1>6. /\ ptr'["system/current"] \in System \cup {None} /\ Live(ptr'["system/current"])
      /\ ptr'["system/previous"] \in System \cup {None} /\ Live(ptr'["system/previous"])
  BY <1>3, <1>4, <1>5, LinksTyped, SystemTyped
<1>7. LinksCovered'
  BY <1>1, <1>4 DEF CoverInv, LinksCovered, InstallPending, Covers
<1>8. CoverStep(q)'
  BY <1>2 DEF CoverStep, Special
<1> QED BY <1>1, <1>6, <1>7, <1>8, LinksStep DEF KeepsSystem

\* A promotion that is over covers whatever is selected next.
LEMMA PromotionEndCovers ==
    ASSUME IInv, CoverInv, NEW q \in Proc, Moves(q),
           \/ PromoteCommit(q) \/ PromoteCommitFails(q) \/ RecoverPromotionCommit(q)
           \/ PromoteUndo(q) /\ reg[q].i = 3
    PROVE  CoverInv'
<1>1. PICK x \in {"COMMITTED", "RECOVERED"} : promotion' = [promotion EXCEPT !.phase = x]
  BY DEF PromoteCommit, PromoteCommitFails, RecoverPromotionCommit, PromoteUndo
<1>2. UNCHANGED <<ptr, disk, install>> /\ pc[q] \in PromotionWork
  BY DEF PromoteCommit, PromoteCommitFails, RecoverPromotionCommit, PromoteUndo, PromotionWork
<1>3. promotion \in PromotionJournal
  BY <1>2, WorkJournals
<1>4. /\ promotion'.phase = x /\ promotion'.target = promotion.target
      /\ promotion'.beforeCurrent = promotion.beforeCurrent
      /\ promotion'.beforePrevious = promotion.beforePrevious /\ promotion # NoJournal
  BY <1>1, <1>3, JournalsAre DEF PromotionJournal
<1>5. SystemLive'
  BY <1>2, <1>4 DEF CoverInv, SystemLive, LiveLinks, LiveJournal, Live, InstallPending
<1>6. SavedCovered' /\ LinksCovered'
  BY <1>2, <1>4 DEF CoverInv, SavedCovered, LinksCovered, InstallPending, Covers
<1>7. CoverStep(q)'
  <2>1. CASE PromoteCommit(q)
    <3>1. promotion'.phase = "COMMITTED" /\ Done(q) /\ pc[q] = "promoteCommit"
      BY <1>3, <2>1 DEF PromoteCommit, PromotionJournal
    <3>2. ProcInv(q) /\ reg[q].at \in 1 .. 9
      BY DEF IInv, TypeInv, TypeOK
    <3>3. InLine(reg[q], "install", 7) \/ InLine(reg[q], "promote", 1)
      BY <3>1, <3>2 DEF ProcInv, Position
    <3>4. PICK n : n = reg[q].at + 1
      OBVIOUS
    <3>5. CASE Quit(q)
      BY <3>5, FailQuiet DEF CoverStep, Special
    <3>6. CASE ~Quit(q)
      <4>1. pc'[q] = Program[reg[q].cmd][n] /\ ~(n > Len(Program[reg[q].cmd]))
        BY <3>1, <3>4, <3>6 DEF Done, DoneWith, Enter, Goto, IInv, TypeInv
      <4>2. InLine(reg[q], "install", 7)
        <5>1. ASSUME InLine(reg[q], "promote", 1) PROVE FALSE
          <6>1. Len(Program[reg[q].cmd]) = 1 /\ n = 2
            BY <3>4, <5>1, Programs DEF InLine
          <6> QED BY <4>1, <6>1
        <5> QED BY <3>3, <5>1
      <4>3. pc'[q] = "verify"
        BY <3>4, <4>1, <4>2, Programs DEF InLine
      <4> QED BY <3>1, <4>3 DEF CoverStep
    <3> QED BY <3>5, <3>6
  <2>2. CASE PromoteCommitFails(q)
    BY <2>2 DEF PromoteCommitFails, Goto, CoverStep, IInv, TypeInv
  <2>3. CASE RecoverPromotionCommit(q)
    BY <2>3, DoneQuiet DEF RecoverPromotionCommit, CoverStep, Special
  <2>4. CASE PromoteUndo(q) /\ reg[q].i = 3
    BY <2>4, FailQuiet DEF PromoteUndo, CoverStep, Special
  <2> QED BY <2>1, <2>2, <2>3, <2>4
<1> QED BY <1>5, <1>6, <1>7, CoverOthers DEF CoverInv

LEMMA PromotionCovers ==
    ASSUME IInv, CoverInv, NEW q \in Proc, Moves(q), PromotionStep(q)
    PROVE  CoverInv'
<1>1. CASE PromoteVerify(q)
  <2>1. PICK step : Goto(q, step) /\ step \in {"promoteCommit", "promoteUndo"}
    BY <1>1 DEF PromoteVerify
  <2>2. KeepsSystem /\ UNCHANGED <<ptr, install, promotion>>
    BY <1>1 DEF PromoteVerify, journals, KeepsSystem
  <2> QED BY <2>1, <2>2, GotoQuiet, QuietStep DEF Special
<1>2. CASE RecoverPromotionPlan(q)
  <2>1. KeepsSystem /\ UNCHANGED <<ptr, install, promotion>> /\ Goto(q, "recoverPrevious")
    BY <1>2 DEF RecoverPromotionPlan, journals, KeepsSystem
  <2> QED BY <2>1, GotoQuiet, QuietStep DEF Special
<1>3. CASE RecoverPromotionNothing(q)
  BY <1>3, DoneQuiet, QuietStep DEF RecoverPromotionNothing, Quiet, KeepsSystem, journals
<1>4. CASE PromoteLock(q) \/ RecoverPromotionLock(q) \/ PromoteRefused(q)
           \/ RecoverPromotionRefused(q) \/ RecoverPromotionUnverified(q)
  BY <1>4, LockQuiet, RefusedQuiet, QuietStep
<1> QED BY <1>1, <1>2, <1>3, <1>4, PromotePlanCovers, PromotionLinksCover, PromotionEndCovers
       DEF PromotionStep

-----------------------------------------------------------------------------
\* begin() saves links that are covered.
LEMMA BeginCovers ==
    ASSUME IInv, CoverInv, NEW q \in Proc, Moves(q), Begin(q)
    PROVE  CoverInv'
<1>1. /\ ~InstallPending /\ UNCHANGED <<ptr, apply, promotion>> /\ disk \in Disk
      /\ LiveLinks(ptr) /\ LiveJournal(promotion) /\ Covers(ptr, promotion)
  BY DEF Begin, BeginAllowed, CoverInv, SystemLive, LinksCovered, IInv, TypeInv, TypeOK
<1>2. PICK c \in System \cup {None} :
        /\ \E h : install' = BeginJournal(q, c, h)
        /\ KeepsSystem
        /\ c = None \/ Exists(disk', c)
  <2>1. CASE NeedsCheckpoint
    <3>1. PICK c \in Checkpoints :
            /\ install' = BeginJournal(q, c, Manifest[c].helpers)
            /\ disk' = [disk EXCEPT ![c] = "intact", ![Manifest[c].helpers] = "intact"]
      BY <2>1 DEF Begin
    <3>2. c \in System
      BY <3>1 DEF Checkpoints
    <3>3. KeepsSystem /\ Exists(disk', c)
      BY <1>1, <3>1, <3>2 DEF KeepsSystem, Exists, Disk, Generation
    <3> QED BY <3>1, <3>2, <3>3
  <2>2. CASE ~NeedsCheckpoint
    BY <2>2 DEF Begin, KeepsSystem
  <2> QED BY <2>1, <2>2
<1>3. /\ install'.links = ptr /\ install'.promotion = promotion /\ install'.checkpoint = c
  BY <1>2 DEF BeginJournal
<1>4. /\ LiveLinks(ptr)' /\ LiveJournal(promotion)'
  BY <1>1, <1>2, LinksTyped, SystemTyped, LiveStays DEF LiveLinks, LiveJournal, Live
<1>5. SystemLive'
  BY <1>1, <1>2, <1>3, <1>4 DEF SystemLive, LiveLinks, LiveJournal, Live
<1>6. SavedCovered' /\ LinksCovered'
  BY <1>1, <1>3 DEF SavedCovered, LinksCovered, Covers
<1>7. CoverStep(q)'
  <2>1. InLine(reg[q], "install", 4)
    BY DEF Begin, IInv, ProcInv, Position
  <2>2. pc'[q] \in {"idle", "activate"}
    <3>1. reg[q] \in Registers
      BY DEF IInv, TypeInv
    <3>2. PICK r : r = [reg[q] EXCEPT !.token = TRUE]
      OBVIOUS
    <3>3. r.cmd = "install" /\ r.at + 1 = 5 /\ DoneWith(q, r)
      BY <2>1, <3>1, <3>2 DEF InLine, Registers, Begin
    <3>4. Program[r.cmd][r.at + 1] = "activate"
      BY <3>3, Programs
    <3> QED BY <3>3, <3>4 DEF DoneWith, Quit, Enter, Goto, IInv, TypeInv
  <2> QED BY <1>1, <1>3, <2>2 DEF CoverStep
<1> QED BY <1>5, <1>6, <1>7, CoverOthers DEF CoverInv

\* A new phase of the installation is all that changes.
LEMMA PhaseCovers ==
    ASSUME IInv, CoverInv, NEW q \in Proc, Moves(q), InstallPending,
           NEW x \in {"PREPARED", "ACTIVE", "RECOVERING", "RECOVERED", "COMMITTED"},
           install' = [install EXCEPT !.phase = x], UNCHANGED <<ptr, disk, promotion>>,
           LinksCovered', CoverStep(q)'
    PROVE  CoverInv'
<1>1. /\ install'.links = install.links /\ install'.promotion = install.promotion
      /\ install'.checkpoint = install.checkpoint
  BY SystemTyped DEF InstallJournal
<1>2. SystemLive'
  BY <1>1 DEF CoverInv, SystemLive, LiveLinks, LiveJournal, Live
<1>3. SavedCovered'
  BY <1>1 DEF CoverInv, SavedCovered, Covers
<1> QED BY <1>2, <1>3, CoverOthers DEF CoverInv

LEMMA InstallPhaseCovers ==
    ASSUME IInv, CoverInv, NEW q \in Proc, Moves(q),
           RecoverInstall(q) \/ InstallRecovered(q) \/ Activate(q) \/ Commit(q)
    PROVE  CoverInv'
<1>1. CASE RecoverInstall(q) /\ ~InstallPending
  BY <1>1, DoneQuiet, QuietStep DEF RecoverInstall, Quiet, KeepsSystem
<1>2. CASE RecoverInstall(q) /\ InstallPending
  <2>1. /\ install' = [install EXCEPT !.phase = "RECOVERING"] /\ UNCHANGED <<ptr, disk, promotion, reg>>
        /\ pc' = [pc EXCEPT ![q] = "restoreInstall"] /\ pc[q] = "recoverInstall"
    BY <1>2 DEF RecoverInstall, Goto
  <2>2. install'.promotion = install.promotion /\ InstallPending'
    BY <1>2, <2>1, SystemTyped DEF InstallJournal, InstallPending
  <2>3. LinksCovered'
    BY <1>2, <2>1, <2>2 DEF CoverInv, LinksCovered, Covers
  <2>4. reg[q].i = 1
    BY <2>1 DEF IInv, ProcInv, Count, Restoring
  <2>5. CoverStep(q)'
    BY <2>1, <2>4 DEF CoverStep, IInv, TypeInv
  <2> QED BY <1>2, <2>1, <2>3, <2>5, PhaseCovers
<1>3. CASE InstallRecovered(q)
  <2>1. /\ install' = [install EXCEPT !.phase = "RECOVERED"] /\ UNCHANGED <<ptr, disk, promotion>>
        /\ Done(q) /\ pc[q] = "restoreInstall" /\ InstallPending
    BY <1>3, InstallerSteps DEF InstallRecovered
  <2>2. reg[q] \in Registers /\ reg[q].i > 3
    BY <1>3, OrderCoversAll DEF InstallRecovered, IInv, TypeInv, Registers
  <2>3. /\ promotion = install.promotion
        /\ ptr["system/current"] = install.links["system/current"]
        /\ ptr["system/previous"] = install.links["system/previous"]
    <3>1. reg[q].i > 1 /\ reg[q].i > 2
      BY <2>2 DEF Registers
    <3> QED BY <2>1, <2>2, <3>1 DEF CoverInv, CoverStep
  <2>4. LinksCovered'
    BY <2>1, <2>3 DEF CoverInv, SavedCovered, LinksCovered, Covers
  <2>5. CoverStep(q)'
    BY <2>1, DoneQuiet DEF CoverStep, Special
  <2> QED BY <2>1, <2>4, <2>5, PhaseCovers
<1>4. CASE Activate(q)
  <2>1. /\ install' = [install EXCEPT !.phase = "ACTIVE"] /\ UNCHANGED <<ptr, disk, promotion>>
        /\ pc' = [pc EXCEPT ![q] = "activateLinks"] /\ pc[q] = "activate" /\ InstallPending
    BY <1>4, InstallerSteps DEF Activate, Goto
  <2>2. install'.promotion = install.promotion /\ promotion = install.promotion /\ InstallPending'
    BY <2>1, SystemTyped DEF InstallJournal, InstallPending, CoverInv, CoverStep
  <2>3. LinksCovered' /\ CoverStep(q)'
    BY <2>1, <2>2 DEF LinksCovered, CoverStep, IInv, TypeInv
  <2> QED BY <2>1, <2>3, PhaseCovers
<1>5. CASE Commit(q)
  <2>1. /\ install' = [install EXCEPT !.phase = "COMMITTED"] /\ UNCHANGED <<ptr, disk, promotion>>
        /\ Quit(q) /\ pc[q] = "commit" /\ InstallPending
    BY <1>5, InstallerSteps DEF Commit
  <2>2. promotion.phase = "COMMITTED"
    BY <2>1 DEF CoverInv, CoverStep
  <2>3. LinksCovered'
    BY <2>1, <2>2 DEF LinksCovered, Covers
  <2>4. CoverStep(q)'
    BY <2>1, FailQuiet DEF CoverStep, Special
  <2> QED BY <2>1, <2>3, <2>4, PhaseCovers
<1> QED BY <1>1, <1>2, <1>3, <1>4, <1>5

\* activate() selects its checkpoint before anything is promoted.
LEMMA ActivateCovers ==
    ASSUME IInv, CoverInv, NEW q \in Proc, Moves(q), ActivateLink(q)
    PROVE  CoverInv'
<1>1. pc[q] = "activateLinks" /\ InstallPending /\ UNCHANGED <<disk, install, promotion>>
  BY InstallerSteps DEF ActivateLink, journals
<1>2. promotion = install.promotion
  BY <1>1 DEF CoverInv, CoverStep
<1>3. LinksCovered'
  BY <1>1, <1>2 DEF LinksCovered, InstallPending
<1>4. CoverStep(q)'
  <2>1. pc'[q] = "activateLinks" \/ pc'[q] \notin Special
    BY <1>1, DoneQuiet DEF ActivateLink
  <2> QED BY <1>1, <1>2, <2>1 DEF CoverStep, Special
<1>5. /\ ptr'["system/current"] \in {ptr["system/current"], install.checkpoint}
      /\ ptr'["system/current"] # ptr["system/current"] => install.checkpoint # None
      /\ ptr'["system/previous"] = ptr["system/previous"]
  <2>1. PICK i \in 1 .. 5 : \E v \in ActivateValues(ActivateOrder[i]) : SetLink(ActivateOrder[i], v)
    BY <1>1 DEF ActivateLink, IInv, ProcInv, Count
  <2>2. /\ ActivateOrder[1] = "system/current" /\ ActivateOrder[2] = "helpers/previous"
        /\ ActivateOrder[3] = "helpers/current" /\ ActivateOrder[4] = "shell/previous"
        /\ ActivateOrder[5] = "shell/current"
    BY DEF ActivateOrder
  <2>3. PICK l, value : l = ActivateOrder[i] /\ value \in ActivateValues(l) /\ SetLink(l, value)
    BY <2>1
  <2>4. ptr' = [ptr EXCEPT ![l] = value] /\ l \in Link \ {"system/previous"}
    <3>1. i = 1 \/ i = 2 \/ i = 3 \/ i = 4 \/ i = 5
      OBVIOUS
    <3> QED BY <2>1, <2>2, <2>3, <3>1 DEF SetLink, Link
  <2>5. l = "system/current" =>
          value = IF install.checkpoint # None THEN install.checkpoint ELSE ptr["system/current"]
    BY <2>3 DEF ActivateValues
  <2> QED BY <2>4, <2>5 DEF Pointers, Link, IInv, TypeInv, TypeOK
<1>6. /\ Live(install.checkpoint) /\ Live(ptr["system/current"]) /\ Live(ptr["system/previous"])
  BY <1>1 DEF CoverInv, SystemLive, LiveLinks
<1>7. /\ ptr'["system/current"] \in System \cup {None} /\ Live(ptr'["system/current"])
      /\ ptr'["system/previous"] \in System \cup {None} /\ Live(ptr'["system/previous"])
  BY <1>1, <1>5, <1>6, LinksTyped, SystemTyped
<1> QED BY <1>1, <1>3, <1>4, <1>7, LinksStep DEF KeepsSystem

\* recover() puts the promotion journal back first, then the system links.
LEMMA RestoreCovers ==
    ASSUME IInv, CoverInv, NEW q \in Proc, Moves(q), RestoreTarget(q)
    PROVE  CoverInv'
<1>1. /\ pc[q] = "restoreInstall" /\ InstallPending /\ UNCHANGED <<disk, install, pc>>
      /\ reg[q] \in Registers /\ ptr \in Pointers
  BY InstallerSteps DEF RestoreTarget, IInv, TypeInv, TypeOK
<1>2. PICK n : n = reg[q].i
  OBVIOUS
<1>3. n \in 1 .. 10 /\ reg'[q].i = n + 1
  BY <1>1, <1>2, OrderCoversAll DEF RestoreTarget, Registers, IInv, TypeInv
<1>4. PICK target : target = RestoreOrder[n]
  OBVIOUS
<1>5. /\ ptr' = IF target \in Link THEN [ptr EXCEPT ![target] = install.links[target]] ELSE ptr
      /\ promotion' = IF target = "promotion-journal" THEN install.promotion ELSE promotion
  BY <1>2, <1>4 DEF RestoreTarget
<1>6. /\ n = 1 => target = "promotion-journal"
      /\ n = 2 => target = "system/previous"
      /\ n = 3 => target = "system/current"
      /\ n > 3 => target \notin {"promotion-journal", "system/previous", "system/current"}
  <2>1. /\ RestoreOrder[1] = "promotion-journal" /\ RestoreOrder[2] = "system/previous"
        /\ RestoreOrder[3] = "system/current" /\ RestoreOrder[4] = "helpers/previous"
        /\ RestoreOrder[5] = "helpers/current" /\ RestoreOrder[6] = "dotfiles/previous"
        /\ RestoreOrder[7] = "dotfiles/current" /\ RestoreOrder[8] = "apply-journal"
        /\ RestoreOrder[9] = "shell/previous" /\ RestoreOrder[10] = "shell/current"
    BY DEF RestoreOrder
  <2>2. n > 3 => n \in {4, 5, 6, 7, 8, 9, 10}
    BY <1>3
  <2> QED BY <1>4, <2>1, <2>2
<1>7. /\ n > 1 => promotion = install.promotion
      /\ n > 2 => ptr["system/previous"] = install.links["system/previous"]
      /\ n > 3 => ptr["system/current"] = install.links["system/current"]
  BY <1>1, <1>2 DEF CoverInv, CoverStep
<1>8. promotion' = install.promotion
  BY <1>3, <1>5, <1>6, <1>7 DEF Link
<1>9. /\ ptr'["system/previous"] \in {ptr["system/previous"], install.links["system/previous"]}
      /\ ptr'["system/current"] \in {ptr["system/current"], install.links["system/current"]}
      /\ n > 1 => ptr'["system/previous"] = install.links["system/previous"]
      /\ n > 2 => ptr'["system/current"] = install.links["system/current"]
  <2>1. CASE n = 1
    BY <1>5, <1>6, <2>1 DEF Link
  <2>2. CASE n = 2
    BY <1>1, <1>5, <1>6, <2>2 DEF Link, Pointers
  <2>3. CASE n = 3
    BY <1>1, <1>5, <1>6, <1>7, <2>3 DEF Link, Pointers
  <2>4. CASE n > 3
    BY <1>1, <1>3, <1>5, <1>6, <1>7, <2>4 DEF Link, Pointers
  <2> QED BY <1>3, <2>1, <2>2, <2>3, <2>4
<1>10. LinksCovered' /\ SavedCovered'
  BY <1>1, <1>8 DEF LinksCovered, CoverInv, SavedCovered, InstallPending, Covers
<1>11. CoverStep(q)'
  <2>1. (n + 1 > 2 => n > 1) /\ (n + 1 > 3 => n > 2)
    BY <1>3
  <2> QED BY <1>1, <1>3, <1>8, <1>9, <2>1 DEF CoverStep, InstallPending
<1>12. SystemLive'
  <2>1. /\ LiveLinks(ptr) /\ LiveLinks(install.links) /\ LiveJournal(install.promotion)
        /\ Live(install.checkpoint)
    BY <1>1 DEF CoverInv, SystemLive
  <2> QED BY <1>1, <1>8, <1>9, <2>1 DEF SystemLive, LiveLinks, LiveJournal, Live, InstallPending
<1> QED BY <1>10, <1>11, <1>12, CoverOthers DEF CoverInv

\* cortetsu verify leads to the commit of what was promoted.
LEMMA VerifyCovers ==
    ASSUME IInv, CoverInv, NEW q \in Proc, Moves(q), VerifyInstalled(q)
    PROVE  CoverInv'
<1>1. pc[q] = "verify" /\ UNCHANGED <<ptr, disk, fresh, journals>>
  BY DEF VerifyInstalled
<1>2. promotion'.phase = "COMMITTED"
  BY <1>1 DEF CoverInv, CoverStep, journals
<1>3. CASE Fail(q) \/ Quit(q)
  BY <1>1, <1>3, FailQuiet, QuietStep DEF Quiet, KeepsSystem, journals
<1>4. CASE ~(Fail(q) \/ Quit(q))
  <2>1. Done(q) /\ InLine(reg[q], "install", 8)
    BY <1>1, <1>4 DEF VerifyInstalled, IInv, ProcInv, Position
  <2>2. Program[reg[q].cmd][reg[q].at + 1] = "commit"
    BY <2>1, Programs DEF InLine
  <2>3. pc'[q] = "commit"
    BY <1>4, <2>1, <2>2 DEF Done, DoneWith, Enter, Goto, IInv, TypeInv
  <2>4. CoverStep(q)'
    BY <1>2, <2>3 DEF CoverStep
  <2>5. LinksCovered'
    BY <1>1 DEF CoverInv, LinksCovered, InstallPending, Covers, journals
  <2>6. /\ ptr'["system/current"] \in System \cup {None} /\ Live(ptr'["system/current"])
        /\ ptr'["system/previous"] \in System \cup {None} /\ Live(ptr'["system/previous"])
    BY <1>1, LinksTyped DEF CoverInv, SystemLive, LiveLinks
  <2> QED BY <1>1, <2>4, <2>5, <2>6, LinksStep DEF KeepsSystem, journals
<1> QED BY <1>3, <1>4

LEMMA StepFailsCovers ==
    ASSUME IInv, CoverInv, NEW q \in Proc, Moves(q), StepFails(q)
    PROVE  CoverInv'
<1>1. CASE ErrorPath(pc[q]) = "fail"
  BY <1>1, RefusedQuiet, QuietStep
<1>2. CASE ErrorPath(pc[q]) # "fail"
  <2>1. PICK step : step = ErrorPath(pc[q])
    OBVIOUS
  <2>2. step \notin Special
    BY <1>2, <2>1 DEF ErrorPath, DotfilesErrorPath, PromotionErrorPath, Special
  <2>3. Goto(q, step) /\ KeepsSystem /\ UNCHANGED <<ptr, install, promotion>>
    BY <1>2, <2>1 DEF StepFails, KeepsSystem, journals
  <2> QED BY <2>2, <2>3, GotoQuiet, QuietStep
<1> QED BY <1>1, <1>2

\* Every step.
LEMMA NextCovers == ASSUME IInv, CoverInv, [Next]_vars PROVE CoverInv'
<1>1. ASSUME NEW q \in Proc, NEW cmd \in Commands, Start(q, cmd) PROVE CoverInv'
  BY <1>1, StartStep, StartQuiet, QuietStep
<1>2. ASSUME NEW q \in Proc, InstallStep(q) PROVE CoverInv'
  <2>1. Moves(q)
    BY <1>2, InstallStepKeeps
  <2>2. CASE \/ StageFails(q) \/ BeginRefused(q) \/ ActivateRefused(q) \/ CommitRefused(q)
             \/ BuildRefused(q) \/ Stage(q) \/ TryInstallLock(q) \/ BuildPrevious(q) \/ BuildCurrent(q)
    BY <2>1, <2>2, RefusedQuiet, InstallQuiet, QuietStep
  <2> QED BY <1>2, <2>1, <2>2, BeginCovers, InstallPhaseCovers, ActivateCovers, RestoreCovers,
             VerifyCovers DEF InstallStep
<1>3. ASSUME NEW q \in Proc, DotfilesStep(q) PROVE CoverInv'
  BY <1>3, DotfilesStepKeeps, DotfilesQuiet, QuietStep
<1>4. ASSUME NEW q \in Proc, PromotionStep(q) PROVE CoverInv'
  BY <1>4, PromotionStepKeeps, PromotionCovers
<1>5. ASSUME NEW q \in Proc, Crash(q) PROVE CoverInv'
  BY <1>5, CrashStep, RefusedQuiet, QuietStep
<1>6. ASSUME NEW q \in Proc, StepFails(q) PROVE CoverInv'
  BY <1>6, StepFailsStep, StepFailsCovers
<1>7. ASSUME KeepsSystem, UNCHANGED <<ptr, install, promotion, pc, reg>> PROVE CoverInv'
  <2>1. /\ ptr'["system/current"] \in System \cup {None} /\ Live(ptr'["system/current"])
        /\ ptr'["system/previous"] \in System \cup {None} /\ Live(ptr'["system/previous"])
    BY <1>7, LinksTyped DEF CoverInv, SystemLive, LiveLinks
  <2>2. SystemLive'
    BY <1>7, <2>1, LiveStep DEF CoverInv
  <2> QED BY <1>7, <2>2 DEF CoverInv, SavedCovered, LinksCovered, Covers, CoverStep, InstallPending
<1>8. ASSUME NEW g \in Generation, Damage(g) PROVE CoverInv'
  <2>1. KeepsSystem
    BY <1>8 DEF Damage, KeepsSystem, Disk, Generation, IInv, TypeInv, TypeOK
  <2> QED BY <1>7, <1>8, <2>1 DEF Damage, journals, local
<1>9. CASE UNCHANGED vars
  BY <1>7, <1>9 DEF vars, journals, local, KeepsSystem
<1> QED BY <1>1, <1>2, <1>3, <1>4, <1>5, <1>6, <1>8, <1>9 DEF Next

LEMMA InitCovers == InitState => CoverInv
<1> SUFFICES ASSUME InitState PROVE CoverInv
  OBVIOUS
<1>1. ptr \in Pointers /\ install = NoJournal /\ promotion = NoJournal /\ ~InstallPending
  BY PlatformAssumption DEF InitState, InstallPending, NoJournal
<1>2. ASSUME NEW l \in {"system/current", "system/previous"} PROVE Live(ptr[l])
  <2>1. l \in Link /\ ptr[l] \in System \cup {None}
    BY <1>1 DEF Pointers, Link, Builds
  <2>2. ptr[l] \notin fresh
    BY <2>1 DEF InitState
  <2> QED BY <2>1, <2>2 DEF InitState, Live, Exists, Generation
<1>3. SystemLive
  BY <1>1, <1>2 DEF SystemLive, LiveLinks, LiveJournal
<1>4. SavedCovered /\ LinksCovered
  BY <1>1 DEF SavedCovered, LinksCovered, Covers, NoJournal
<1>5. ASSUME NEW p \in Proc PROVE CoverStep(p)
  BY DEF InitState, CoverStep
<1> QED BY <1>3, <1>4, <1>5 DEF CoverInv

\* Types, and a pending promotion whose system links can be told from a later
\* selection: for every installation, crash and recovery beside it.
THEOREM PromotionsStayCovered == Spec => []InstallInv
<1>1. InitState => IInv /\ CoverInv
  BY InitIInv, InitCovers
<1>2. (IInv /\ CoverInv) /\ [Next]_vars => (IInv /\ CoverInv)'
  BY NextIInv, NextCovers
<1>3. IInv /\ CoverInv => InstallInv
  BY DEF IInv, TypeInv, CoverInv, SavedCovered, LinksCovered, Covers, InstallInv,
         PromotionJournalCovers, PromotionPending
<1> QED BY <1>1, <1>2, <1>3, PTL DEF Spec

-----------------------------------------------------------------------------
(***************************************************************************)
(* The dotfiles an apply selects.  Now is the pair as `dotfiles recover'   *)
(* would leave it, Base the pair as recovering a pending installation      *)
(* first would.  The installer finds Base until its own apply commits; then*)
(* the links name its choice, which becomes the selection as the           *)
(* installation commits.                                                   *)
(***************************************************************************)
\* dotfiles rollback swaps the links without a journal, and selects nothing new.
NoRollback == "rollback" \notin Commands

DotfilesLinks == <<ptr["dotfiles/current"], ptr["dotfiles/previous"]>>

Saved(j, links) ==
    IF j.phase \in {"PREPARED", "RECOVERING"} THEN <<j.current, j.previous>>
    ELSE <<links["dotfiles/current"], links["dotfiles/previous"]>>

Now == Saved(apply, ptr)

Base == IF InstallPending THEN Saved(install.apply, install.links) ELSE Now

\* An installer that has begun and not failed.
Child(p) == reg[p].token /\ ~reg[p].trap

Chose(links) ==
    \E g \in Dotfiles \ {Base[1], Base[2]} : links \in {<<g, Base[1]>>, <<g, Base[2]>>}

Moving == {"applyPrevious", "applyCurrent", "applyVerify", "applyCommit"}

HasApplied(p) == reg[p].at >= 7 \/ pc[p] = "applyQuarantine"

\* What a process knows of the dotfiles where it is.
AppliesInv(p) ==
    /\ Child(p) => IF HasApplied(p) THEN ~ApplyPending /\ Chose(DotfilesLinks) ELSE Now = Base
    /\ pc[p] \in ApplyWork =>
         /\ InstallPending => Child(p)
         /\ pc[p] = "applyPlan" <=> ~ApplyPending
    /\ pc[p] \in Restoring =>
         /\ reg[p].i > 1 => ptr["dotfiles/previous"] = apply.previous
         /\ reg[p].i > 2 => ptr["dotfiles/current"] = apply.current
    /\ pc[p] \in Moving =>
         /\ reg[p].gen = apply.generation /\ reg[p].gen \in Dotfiles \ {apply.current, apply.previous}
         /\ reg[p].valid => reg[p].old = apply.current
         /\ ptr["dotfiles/previous"] \in {apply.current, apply.previous}
         /\ pc[p] = "applyPrevious" => ptr["dotfiles/previous"] = apply.previous
         /\ pc[p] \in {"applyVerify", "applyCommit"} => ptr["dotfiles/current"] = reg[p].gen
    /\ pc[p] = "restoreInstall" =>
         /\ reg[p].i > 6 => ptr["dotfiles/previous"] = install.links["dotfiles/previous"]
         /\ reg[p].i > 7 => ptr["dotfiles/current"] = install.links["dotfiles/current"]
         /\ reg[p].i > 8 => apply = install.apply

\* No id is given out again while a link or a journal names it.
GivenPair(j) == j \in ApplyJournal => {j.current, j.previous, j.generation} \cap fresh = {}

GivenLinks(links) == links["dotfiles/current"] \notin fresh /\ links["dotfiles/previous"] \notin fresh

GivenInv ==
    /\ GivenLinks(ptr) /\ GivenPair(apply)
    /\ InstallPending => GivenLinks(install.links) /\ GivenPair(install.apply)

SelectionInv == GivenInv /\ \A p \in Proc : AppliesInv(p)

\* The links and journals that say what is selected.
Selecting == <<ptr["dotfiles/current"], ptr["dotfiles/previous"], apply, install>>

\* What the journals name, where there are any.
LEMMA DotfilesTyped ==
    ASSUME IInv
    PROVE  /\ apply # NoJournal => apply \in ApplyJournal
           /\ ApplyPending => apply \in ApplyJournal
           /\ InstallPending => /\ install \in InstallJournal /\ install.links \in Pointers
                                /\ install.apply \in ApplyJournal \cup {NoJournal}
<1>1. apply # NoJournal => apply \in ApplyJournal
  BY DEF IInv, TypeInv, TypeOK
<1>2. ApplyPending => apply # NoJournal
  BY DEF ApplyPending, NoJournal
<1>3. InstallPending => install \in InstallJournal
  BY JournalsAre DEF InstallPending, IInv, TypeInv, TypeOK
<1> QED BY <1>1, <1>2, <1>3 DEF InstallJournal

\* Where rollback is not among the commands, nobody is in the middle of one.
LEMMA NoSwap ==
    ASSUME IInv, NoRollback
    PROVE  /\ \A p \in Proc : pc[p] \notin RollbackWork \cup {"rollbackDotfiles", "rollbackCheck"}
           /\ DotfilesSelected = Base
<1>1. ASSUME NEW p \in Proc PROVE pc[p] \notin RollbackWork \cup {"rollbackDotfiles", "rollbackCheck"}
  <2> SUFFICES ASSUME pc[p] \in RollbackWork \cup {"rollbackDotfiles", "rollbackCheck"} PROVE FALSE
    OBVIOUS
  <2>1. Position(pc[p], reg[p])
    BY DEF IInv, ProcInv
  <2>2. InLine(reg[p], "rollback", 1) /\ pc[p] # "idle"
    BY <2>1 DEF Position, RollbackWork
  <2> QED BY <2>1, <2>2 DEF Position, InLine, NoRollback
<1>2. \A p \in Proc : pc[p] \notin {"rollbackPrevious", "rollbackVerify", "rollbackUndo"}
  BY <1>1 DEF RollbackWork
<1>3. ASSUME InstallPending PROVE DotfilesSelected = Base
  <2>1. install.phase \in {"PREPARED", "ACTIVE", "RECOVERING"}
    BY <1>3 DEF InstallPending
  <2> QED BY <1>2, <1>3, <2>1 DEF DotfilesSelected, Base, Saved
<1>4. ASSUME ~InstallPending PROVE DotfilesSelected = Base
  <2>1. install.phase \notin {"PREPARED", "ACTIVE", "RECOVERING"}
    BY <1>4 DEF InstallPending
  <2> QED BY <1>2, <1>4, <2>1 DEF DotfilesSelected, Base, Now, Saved
<1> QED BY <1>1, <1>3, <1>4

LEMMA BaseStays ==
    ASSUME UNCHANGED Selecting
    PROVE  Base' = Base /\ Now' = Now /\ DotfilesLinks' = DotfilesLinks /\ (ApplyPending' <=> ApplyPending)
BY DEF Selecting, Base, Now, Saved, DotfilesLinks, InstallPending, ApplyPending

LEMMA GivenStays ==
    ASSUME IInv, GivenInv, UNCHANGED Selecting, fresh' \subseteq fresh
    PROVE  GivenInv'
BY DEF GivenInv, GivenLinks, GivenPair, Selecting, InstallPending

\* What a process knows of the dotfiles is disturbed by nobody else.
LEMMA AppliesOthers ==
    ASSUME IInv, SelectionInv, NEW q \in Proc, Moves(q), NEW p \in Proc \ {q},
           DotfilesLinks' = DotfilesLinks \/ pc[q] \in ApplyWork \cup {"restoreInstall"}
    PROVE  AppliesInv(p)'
<1>1. pc'[p] = pc[p] /\ reg'[p] = reg[p] /\ AppliesInv(p) /\ ProcInv(p) /\ ProcInv(q)
  BY DEF Moves, SelectionInv, IInv
<1>2. DotfilesLinks' = DotfilesLinks <=> UNCHANGED <<ptr["dotfiles/current"], ptr["dotfiles/previous"]>>
  BY DEF DotfilesLinks
<1>3. CASE ~Child(p) /\ pc[p] \notin ApplyWork \cup {"restoreInstall"}
  BY <1>1, <1>3 DEF AppliesInv, Child, ApplyWork, Restoring, Moving
<1>4. CASE Child(p) \/ pc[p] = "restoreInstall"
  <2>1. Installer(p) /\ InstallPending
    <3>1. CASE Child(p)
      <4>1. reg[p].at \in 1 .. 9
        BY DEF IInv, TypeInv, TypeOK
      <4> QED BY <1>1, <3>1, <4>1 DEF Child, ProcInv, Position, UnderInstallLock
    <3>2. CASE pc[p] = "restoreInstall"
      BY <3>2, InstallerSteps
    <3> QED BY <1>4, <3>1, <3>2
  <2>2. ~Installer(q)
    BY <2>1 DEF Installer
  <2>3. install' = install /\ Guarded' = Guarded
    BY <2>1, <2>2 DEF Moves
  <2>4. pc[q] \notin ApplyWork \cup {"restoreInstall"}
    BY <1>1, <2>1, <2>2, InstallerSteps DEF ProcInv, Working
  <2>5. UNCHANGED Selecting
    BY <1>2, <2>3, <2>4 DEF Selecting, Guarded
  <2>6. AppliesInv(p)' <=> AppliesInv(p)
    BY <1>1, <2>5, BaseStays DEF AppliesInv, Child, HasApplied, Chose, Selecting, InstallPending
  <2> QED BY <1>1, <2>6
<1>5. CASE ~Child(p) /\ pc[p] \in ApplyWork
  <2>1. ~InstallPending /\ lock["dotfiles"] = p
    BY <1>1, <1>5 DEF AppliesInv, ProcInv, DotfilesHeld
  <2>2. apply' = apply
    BY <2>1 DEF Moves
  <2>3. pc[q] \notin ApplyWork \cup {"restoreInstall"}
    BY <1>1, <2>1, InstallerSteps DEF ProcInv, DotfilesHeld
  <2>4. ~InstallPending'
    BY <2>1, PlatformAssumption DEF Moves, InstallPending
  <2>5. AppliesInv(p)'
    BY <1>1, <1>2, <1>5, <2>2, <2>3, <2>4
       DEF AppliesInv, Child, Restoring, Moving, ApplyWork, ApplyPending
  <2> QED BY <2>5
<1> QED BY <1>3, <1>4, <1>5

\* A step of q that selects nothing and forgets nothing.
LEMMA SelectingStays ==
    ASSUME IInv, SelectionInv, NEW q \in Proc, Moves(q), UNCHANGED Selecting, fresh' \subseteq fresh,
           AppliesInv(q)'
    PROVE  SelectionInv' /\ Base' = Base
<1>1. DotfilesLinks' = DotfilesLinks
  BY DEF Selecting, DotfilesLinks
<1> QED BY <1>1, BaseStays, GivenStays, AppliesOthers DEF SelectionInv

\* Where a process has nothing to know of the dotfiles.
Aside(p) == ~Child(p) /\ pc[p] \notin ApplyWork \cup {"restoreInstall"}

LEMMA AsideKnows == ASSUME NEW p, Aside(p)' PROVE AppliesInv(p)'
BY DEF Aside, AppliesInv, ApplyWork, Restoring, Moving

LEMMA FailAside == ASSUME IInv, NEW q \in Proc, Fail(q) \/ Quit(q) PROVE Aside(q)'
<1>1. CASE Quit(q)
  BY <1>1 DEF Quit, Goto, NoReg, Aside, Child, ApplyWork, IInv, TypeInv
<1>2. CASE ~Quit(q)
  <2>1. Enter(q, "recoverInstall", [reg[q] EXCEPT !.trap = TRUE])
    BY <1>2 DEF Fail
  <2>2. PICK r : r = [reg[q] EXCEPT !.trap = TRUE]
    OBVIOUS
  <2>3. reg[q] \in Registers
    BY DEF IInv, TypeInv
  <2>4. r.trap = TRUE
    BY <2>2, <2>3 DEF Registers
  <2>5. pc'[q] = "recoverInstall" /\ reg'[q].trap = r.trap
    BY <2>1, <2>2 DEF Enter, Goto, NoReg, IInv, TypeInv
  <2> QED BY <2>4, <2>5 DEF Aside, Child, ApplyWork
<1> QED BY <1>1, <1>2

\* The next subcommand: the same installer, one place further.
LEMMA DoneNext ==
    ASSUME IInv, NEW q \in Proc, Done(q), Child(q)'
    PROVE  Child(q) /\ reg'[q].at = reg[q].at + 1
<1>1. reg[q] \in Registers /\ reg \in [Proc -> Registers]
  BY DEF IInv, TypeInv
<1>2. ~Quit(q)
  BY FailAside DEF Aside
<1>3. PICK n : n = reg[q].at + 1
  OBVIOUS
<1>4. PICK r : r = [reg[q] EXCEPT !.at = n]
  OBVIOUS
<1>5. r.at = n /\ r.token = reg[q].token /\ r.trap = reg[q].trap
  BY <1>1, <1>4 DEF Registers
<1>6. Enter(q, Program[reg[q].cmd][n], r)
  BY <1>2, <1>3, <1>4 DEF Done, DoneWith
<1>7. reg'[q].at = r.at /\ reg'[q].token = r.token /\ reg'[q].trap = r.trap
  BY <1>1, <1>6 DEF Enter, NoReg
<1> QED BY <1>3, <1>5, <1>7 DEF Child

\* A subcommand is over, or was never begun.
LEMMA AsideStep ==
    ASSUME IInv, SelectionInv, NEW q \in Proc, Moves(q), Aside(q)',
           UNCHANGED Selecting, fresh' \subseteq fresh
    PROVE  SelectionInv' /\ Base' = Base
BY AsideKnows, SelectingStays

LEMMA RefusedSelection ==
    ASSUME IInv, SelectionInv, NEW q \in Proc, Moves(q),
           \/ StageFails(q) \/ BeginRefused(q) \/ ActivateRefused(q) \/ CommitRefused(q)
           \/ BuildRefused(q) \/ ApplyRefused(q) \/ ApplyBuildFails(q) \/ RecoverApplyRefused(q)
           \/ RollbackRefused(q) \/ PromoteRefused(q) \/ RecoverPromotionRefused(q)
           \/ RecoverPromotionUnverified(q) \/ Crash(q) \/ (StepFails(q) /\ ErrorPath(pc[q]) = "fail")
    PROVE  SelectionInv' /\ Base' = Base
<1>1. (Fail(q) \/ Quit(q)) /\ UNCHANGED <<ptr, fresh, journals>>
  BY DEF StageFails, BeginRefused, ActivateRefused, CommitRefused, BuildRefused, ApplyRefused,
         ApplyBuildFails, RecoverApplyRefused, RollbackRefused, PromoteRefused,
         RecoverPromotionRefused, RecoverPromotionUnverified, Crash, StepFails
<1>2. UNCHANGED Selecting
  BY <1>1 DEF Selecting, journals
<1> QED BY <1>1, <1>2, FailAside, AsideStep

LEMMA StartAside ==
    ASSUME IInv, NEW q \in Proc, NEW cmd \in Commands, Start(q, cmd)
    PROVE  Aside(q)'
<1>1. cmd \in DOMAIN Program
  BY PlatformAssumption
<1>2. Program[cmd][1] \notin ApplyWork \cup {"restoreInstall"}
  BY <1>1, Programs DEF ApplyWork
<1>3. reg[q] = NoReg /\ reg \in [Proc -> Registers]
  BY DEF Start, IInv, TypeInv, ProcInv, Position
<1>4. reg'[q].token = FALSE
  BY <1>3 DEF Start, NoReg
<1> QED BY <1>2, <1>4 DEF Start, Goto, Aside, Child, IInv, TypeInv

LEMMA StartSelection ==
    ASSUME IInv, SelectionInv, NEW q \in Proc, Moves(q), NEW cmd \in Commands, Start(q, cmd)
    PROVE  SelectionInv' /\ Base' = Base
<1>1. UNCHANGED Selecting /\ fresh' = fresh
  BY DEF Start, Selecting, journals
<1> QED BY <1>1, StartAside, AsideStep

\* What comes before an installation begins, and building a shell by hand.
LEMMA StageAside ==
    ASSUME IInv, NEW q \in Proc, Stage(q) \/ TryInstallLock(q) \/ BuildPrevious(q) \/ BuildCurrent(q)
    PROVE  Aside(q)'
<1>1. /\ ProcInv(q) /\ reg[q] \in Registers /\ reg \in [Proc -> Registers]
      /\ pc \in [Proc -> Location]
  BY DEF IInv, TypeInv, TypeOK
<1>2. ~reg[q].token
  <2>1. pc[q] \in {"stage", "tryInstallLock", "buildRuntime", "buildCurrent"}
    BY DEF Stage, TryInstallLock, BuildPrevious, BuildCurrent
  <2>2. reg[q].cmd # "install" \/ reg[q].at = 1 \/ reg[q].at = 2
    BY <1>1, <2>1 DEF ProcInv, Position, InLine
  <2>3. reg[q].token => reg[q].cmd = "install" /\ reg[q].at >= 5
    BY <1>1 DEF ProcInv, Position
  <2> QED BY <2>2, <2>3
<1>3. CASE Quit(q)
  BY <1>3, FailAside
<1>4. CASE Stage(q) \/ BuildPrevious(q)
  <2>1. pc'[q] \notin ApplyWork \cup {"restoreInstall"}
    BY <1>1, <1>4 DEF Stage, BuildPrevious, Goto, ApplyWork
  <2>2. reg'[q].token = reg[q].token
    <3>1. CASE Stage(q)
      <4>1. PICK s, h : reg' = [reg EXCEPT ![q].shell = s, ![q].helpers = h, ![q].at = 2]
        BY <3>1 DEF Stage
      <4> QED BY <1>1, <4>1 DEF Registers
    <3>2. CASE BuildPrevious(q)
      <4>1. PICK s : reg' = [reg EXCEPT ![q].shell = s]
        BY <3>2 DEF BuildPrevious
      <4> QED BY <1>1, <4>1 DEF Registers
    <3> QED BY <1>4, <3>1, <3>2
  <2> QED BY <1>2, <2>1, <2>2 DEF Aside, Child
<1>5. CASE TryInstallLock(q) /\ ~Quit(q)
  <2>1. InLine(reg[q], "install", 2) \/ InLine(reg[q], "recover", 1)
    BY <1>1, <1>5 DEF TryInstallLock, ProcInv, Position
  <2>2. Program[reg[q].cmd][reg[q].at + 1] = "recoverInstall"
    BY <2>1, Programs DEF InLine
  <2>3. pc'[q] = "recoverInstall"
    BY <1>1, <1>5, <2>2 DEF TryInstallLock, Goto
  <2>4. reg'[q].token = reg[q].token
    BY <1>1, <1>5 DEF TryInstallLock, Registers
  <2> QED BY <1>2, <2>3, <2>4 DEF Aside, Child, ApplyWork
<1> QED BY <1>3, <1>4, <1>5 DEF BuildCurrent

LEMMA StageSelection ==
    ASSUME IInv, SelectionInv, NEW q \in Proc, Moves(q),
           Stage(q) \/ TryInstallLock(q) \/ BuildPrevious(q) \/ BuildCurrent(q)
    PROVE  SelectionInv' /\ Base' = Base
<1>1. ptr \in Pointers
  BY DEF IInv, TypeInv, TypeOK
<1>2. UNCHANGED Selecting /\ fresh' \subseteq fresh
  <2>1. CASE Stage(q) \/ TryInstallLock(q)
    BY <2>1 DEF Stage, TryInstallLock, Selecting, journals
  <2>2. CASE BuildPrevious(q) \/ BuildCurrent(q)
    <3>1. PICK l \in {"shell/previous", "shell/current"} : \E value : SetLink(l, value)
      BY <2>2 DEF BuildPrevious, BuildCurrent
    <3>2. UNCHANGED <<ptr["dotfiles/current"], ptr["dotfiles/previous"]>>
      BY <1>1, <3>1 DEF SetLink, Pointers, Link
    <3> QED BY <2>2, <3>2 DEF BuildPrevious, BuildCurrent, Create, Selecting, journals
  <2> QED BY <2>1, <2>2
<1> QED BY <1>2, StageAside, AsideStep

\* A step to a place that knows of the dotfiles what the one before it knew.
LEMMA GotoSelection ==
    ASSUME IInv, SelectionInv, NEW q \in Proc, Moves(q), NEW step, Goto(q, step),
           {step, pc[q]} \cap {"restoreInstall", "applyQuarantine"} = {}, step \notin ApplyWork,
           reg'[q].at = reg[q].at, reg'[q].token = reg[q].token, reg'[q].trap = reg[q].trap,
           UNCHANGED Selecting, fresh' \subseteq fresh
    PROVE  SelectionInv' /\ Base' = Base
<1>1. pc'[q] = step /\ AppliesInv(q)
  BY DEF Goto, IInv, TypeInv, SelectionInv
<1>2. AppliesInv(q)'
  BY <1>1, BaseStays DEF AppliesInv, Child, HasApplied, Chose, ApplyWork, Restoring, Moving
<1> QED BY <1>2, SelectingStays

\* The installer goes on to its next subcommand.
LEMMA DoneSelection ==
    ASSUME IInv, SelectionInv, NEW q \in Proc, Moves(q), Done(q),
           pc[q] \in {"recoverInstall", "activateLinks", "verify", "applyQuarantine",
                      "promoteCommit", "recoverApplyCheck", "recoverPromotionCheck", "recoverVerify"},
           UNCHANGED Selecting, fresh' \subseteq fresh
    PROVE  SelectionInv' /\ Base' = Base
<1>1. pc'[q] \notin ApplyWork \cup {"restoreInstall", "applyQuarantine"}
  BY DoneFrom DEF After, DotfilesHeld
<1>2. CASE ~Child(q)'
  BY <1>1, <1>2, AsideStep DEF Aside
<1>3. CASE Child(q)'
  <2>1. Child(q) /\ reg'[q].at = reg[q].at + 1 /\ AppliesInv(q) /\ ProcInv(q) /\ reg[q].at \in 1 .. 9
    BY <1>3, DoneNext DEF SelectionInv, IInv, TypeInv, TypeOK
  <2>2. /\ reg[q].cmd = "install" /\ reg[q].at >= 5
        /\ pc[q] = "applyQuarantine" => reg[q].at = 6
        /\ pc[q] # "applyQuarantine" => reg[q].at \in {5, 7, 8}
    BY <2>1 DEF Child, ProcInv, Position, InLine, Recovering, ApplyWork
  <2>3. HasApplied(q)' <=> HasApplied(q)
    BY <1>1, <2>1, <2>2 DEF HasApplied
  <2>4. AppliesInv(q)'
    BY <1>1, <2>1, <2>3, BaseStays DEF AppliesInv, Child, Chose, ApplyWork, Restoring, Moving
  <2> QED BY <2>4, SelectingStays
<1> QED BY <1>2, <1>3

\* A step of q after which the pair is as it was or q has moved a link of it.
LEMMA SelectionStep ==
    ASSUME IInv, SelectionInv, NEW q \in Proc, Moves(q), GivenInv', AppliesInv(q)',
           DotfilesLinks' = DotfilesLinks \/ pc[q] \in ApplyWork \cup {"restoreInstall"}
    PROVE  SelectionInv'
BY AppliesOthers DEF SelectionInv

\* begin() saves the pair as it finds it.
LEMMA BeginSelection ==
    ASSUME IInv, SelectionInv, NEW q \in Proc, Moves(q), Begin(q)
    PROVE  SelectionInv' /\ Base' = Base
<1>1. ~InstallPending /\ UNCHANGED <<ptr, apply>> /\ fresh' \subseteq fresh
  BY DEF Begin, BeginAllowed
<1>2. install'.links = ptr /\ install'.apply = apply /\ install'.phase = "PREPARED"
  <2>1. PICK c, h : install' = BeginJournal(q, c, h)
    BY DEF Begin
  <2> QED BY <2>1 DEF BeginJournal
<1>3. Base' = Base /\ Now' = Base'
  BY <1>1, <1>2 DEF Base, Now, Saved, InstallPending
<1>4. GivenInv'
  BY <1>1, <1>2 DEF SelectionInv, GivenInv, GivenLinks, GivenPair
<1>5. InLine(reg[q], "install", 4) /\ reg[q] \in Registers
  BY DEF Begin, IInv, ProcInv, Position, TypeInv
<1>6. pc'[q] \in {"idle", "activate"}
  <2>1. PICK r : r = [reg[q] EXCEPT !.token = TRUE]
    OBVIOUS
  <2>2. r.cmd = "install" /\ r.at + 1 = 5 /\ DoneWith(q, r)
    BY <1>5, <2>1 DEF InLine, Registers, Begin
  <2>3. Program[r.cmd][r.at + 1] = "activate"
    BY <2>2, Programs
  <2> QED BY <2>2, <2>3 DEF DoneWith, Quit, Enter, Goto, IInv, TypeInv
<1>7. Position(pc[q], reg[q])'
  BY BeginStep DEF IInv, ProcInv
<1>8. CASE pc'[q] = "idle"
  <2>1. ~Child(q)'
    BY <1>7, <1>8 DEF Position, NoReg, Child
  <2>2. AppliesInv(q)'
    BY <1>8, <2>1, AsideKnows DEF Aside, ApplyWork
  <2> QED BY <1>1, <1>3, <1>4, <2>2, SelectionStep DEF DotfilesLinks
<1>9. CASE pc'[q] = "activate"
  <2>1. reg'[q].at = 5
    BY <1>7, <1>9 DEF Position, InLine
  <2>2. AppliesInv(q)'
    BY <1>3, <1>9, <2>1 DEF AppliesInv, HasApplied, ApplyWork, Restoring, Moving
  <2> QED BY <1>1, <1>3, <1>4, <2>2, SelectionStep DEF DotfilesLinks
<1> QED BY <1>6, <1>8, <1>9

\* The journal of a pending installation keeps what it saved.
LEMMA InstallPhase ==
    ASSUME IInv, InstallPending, NEW x \in {"PREPARED", "ACTIVE", "RECOVERING", "RECOVERED", "COMMITTED"},
           install' = [install EXCEPT !.phase = x]
    PROVE  install'.links = install.links /\ install'.apply = install.apply /\ install'.phase = x
BY DotfilesTyped, PhaseTyped

\* An installer that traps, or recovers before it begins, is aside.
LEMMA RecovererAside ==
    ASSUME IInv, NEW q \in Proc, pc[q] \in Recovering
    PROVE  ~Child(q)
<1>1. ProcInv(q)
  BY DEF IInv
<1> QED BY <1>1 DEF ProcInv, Position, InLine, Child

LEMMA InstallPhaseSelection ==
    ASSUME IInv, SelectionInv, NEW q \in Proc, Moves(q),
           Activate(q) \/ (RecoverInstall(q) /\ InstallPending)
    PROVE  SelectionInv' /\ Base' = Base
<1>1. PICK x \in {"ACTIVE", "RECOVERING"} : install' = [install EXCEPT !.phase = x]
  BY DEF Activate, RecoverInstall
<1>2. InstallPending /\ UNCHANGED <<ptr, apply, fresh, reg>>
  BY InstallerSteps DEF Activate, RecoverInstall
<1>3. install'.links = install.links /\ install'.apply = install.apply /\ InstallPending'
  BY <1>1, <1>2, InstallPhase DEF InstallPending
<1>4. Base' = Base /\ Now' = Now /\ GivenInv'
  BY <1>2, <1>3 DEF Base, Now, Saved, SelectionInv, GivenInv, GivenLinks, GivenPair
<1>5. AppliesInv(q) /\ ProcInv(q) /\ pc \in [Proc -> Location]
  BY DEF SelectionInv, IInv, TypeInv
<1>6. CASE Activate(q)
  <2>1. pc[q] = "activate" /\ pc'[q] = "activateLinks"
    BY <1>5, <1>6 DEF Activate, Goto
  <2>2. reg'[q].at = 5 /\ (Child(q)' <=> Child(q)) /\ reg[q].at = 5
    BY <1>2, <1>5, <2>1 DEF ProcInv, Position, InLine, Child
  <2>3. AppliesInv(q)'
    BY <1>4, <1>5, <2>1, <2>2 DEF AppliesInv, HasApplied, ApplyWork, Restoring, Moving
  <2> QED BY <1>2, <1>4, <2>3, SelectionStep DEF DotfilesLinks
<1>7. CASE RecoverInstall(q)
  <2>1. pc[q] = "recoverInstall" /\ pc'[q] = "restoreInstall" /\ ~Child(q)
    BY <1>2, <1>5, <1>7, RecovererAside DEF RecoverInstall, Goto, Recovering
  <2>2. reg[q].i = 1 /\ ~Child(q)'
    BY <1>2, <1>5, <2>1 DEF ProcInv, Count, Restoring, Child
  <2>3. AppliesInv(q)'
    BY <1>2, <2>1, <2>2 DEF AppliesInv, ApplyWork, Restoring, Moving
  <2> QED BY <1>2, <1>4, <2>3, SelectionStep DEF DotfilesLinks
<1> QED BY <1>6, <1>7

\* A recovered installation leaves what it found.
LEMMA RecoveredSelection ==
    ASSUME IInv, SelectionInv, NEW q \in Proc, Moves(q), InstallRecovered(q)
    PROVE  SelectionInv' /\ Base' = Base
<1>1. /\ pc[q] = "restoreInstall" /\ InstallPending /\ ~Child(q) /\ AppliesInv(q)
      /\ UNCHANGED <<ptr, apply, fresh>> /\ Done(q)
  BY InstallerSteps, RecovererAside DEF InstallRecovered, Recovering, SelectionInv
<1>2. reg[q].i > 6 /\ reg[q].i > 7 /\ reg[q].i > 8
  <2>1. Len(RestoreOrder) = 10 /\ reg[q].i \in 1 .. 11
    BY OrderCoversAll DEF IInv, TypeInv, TypeOK
  <2> QED BY <2>1 DEF InstallRecovered
<1>3. /\ ptr["dotfiles/previous"] = install.links["dotfiles/previous"]
      /\ ptr["dotfiles/current"] = install.links["dotfiles/current"]
      /\ apply = install.apply
  BY <1>1, <1>2 DEF AppliesInv
<1>4. ~InstallPending'
  BY <1>1, InstallPhase DEF InstallRecovered, InstallPending
<1>5. Base' = Base /\ GivenInv'
  BY <1>1, <1>3, <1>4 DEF Base, Now, Saved, SelectionInv, GivenInv, GivenLinks, GivenPair
<1>6. AppliesInv(q)'
  <2>1. ~Child(q)' /\ pc'[q] \notin ApplyWork \cup {"restoreInstall"}
    BY <1>1, DoneNext, DoneFrom DEF After, DotfilesHeld
  <2> QED BY <2>1, AsideKnows DEF Aside
<1> QED BY <1>1, <1>5, <1>6, SelectionStep DEF DotfilesLinks

\* recover() puts the links and the apply journal back one by one.
LEMMA RestoreSelection ==
    ASSUME IInv, SelectionInv, NEW q \in Proc, Moves(q), RestoreTarget(q)
    PROVE  SelectionInv' /\ Base' = Base
<1>1. /\ pc[q] = "restoreInstall" /\ InstallPending /\ ~Child(q) /\ AppliesInv(q) /\ GivenInv
      /\ UNCHANGED <<install, fresh, pc>> /\ ptr \in Pointers /\ reg[q] \in Registers
      /\ reg \in [Proc -> Registers]
  BY InstallerSteps, RecovererAside DEF RestoreTarget, Recovering, SelectionInv, IInv, TypeInv, TypeOK
<1>2. PICK n : n = reg[q].i
  OBVIOUS
<1>3. n \in 1 .. 10 /\ reg'[q].i = n + 1 /\ ~Child(q)'
  <2>1. n \in 1 .. 10 /\ reg' = [reg EXCEPT ![q].i = n + 1]
    BY <1>1, <1>2, OrderCoversAll DEF RestoreTarget, Registers
  <2>2. PICK m : m = n + 1
    OBVIOUS
  <2>3. reg'[q].i = m /\ reg'[q].token = reg[q].token /\ reg'[q].trap = reg[q].trap
    BY <1>1, <2>1, <2>2 DEF Registers
  <2> QED BY <1>1, <2>1, <2>2, <2>3 DEF Child
<1>4. PICK target : target = RestoreOrder[n]
  OBVIOUS
<1>5. /\ ptr' = IF target \in Link THEN [ptr EXCEPT ![target] = install.links[target]] ELSE ptr
      /\ apply' = IF target = "apply-journal" THEN install.apply ELSE apply
  BY <1>2, <1>4 DEF RestoreTarget
<1>6. /\ target = "dotfiles/previous" <=> n = 6
      /\ target = "dotfiles/current" <=> n = 7
      /\ target = "apply-journal" <=> n = 8
  <2>1. /\ RestoreOrder[1] = "promotion-journal" /\ RestoreOrder[2] = "system/previous"
        /\ RestoreOrder[3] = "system/current" /\ RestoreOrder[4] = "helpers/previous"
        /\ RestoreOrder[5] = "helpers/current" /\ RestoreOrder[6] = "dotfiles/previous"
        /\ RestoreOrder[7] = "dotfiles/current" /\ RestoreOrder[8] = "apply-journal"
        /\ RestoreOrder[9] = "shell/previous" /\ RestoreOrder[10] = "shell/current"
    BY DEF RestoreOrder
  <2>2. n \in {1, 2, 3, 4, 5, 6, 7, 8, 9, 10}
    BY <1>3
  <2> QED BY <1>4, <2>1, <2>2
<1>7. /\ ptr'["dotfiles/previous"] =
           IF n = 6 THEN install.links["dotfiles/previous"] ELSE ptr["dotfiles/previous"]
      /\ ptr'["dotfiles/current"] =
           IF n = 7 THEN install.links["dotfiles/current"] ELSE ptr["dotfiles/current"]
      /\ apply' = IF n = 8 THEN install.apply ELSE apply
  <2>1. {"dotfiles/previous", "dotfiles/current"} \subseteq Link /\ "apply-journal" \notin Link
    BY DEF Link
  <2> QED BY <1>1, <1>5, <1>6, <2>1 DEF Pointers
<1>8. /\ n > 6 => ptr["dotfiles/previous"] = install.links["dotfiles/previous"]
      /\ n > 7 => ptr["dotfiles/current"] = install.links["dotfiles/current"]
      /\ n > 8 => apply = install.apply
  BY <1>1, <1>2 DEF AppliesInv
<1>9. AppliesInv(q)'
  <2>1. /\ n + 1 > 6 => n = 6 \/ n > 6
        /\ n + 1 > 7 => n = 7 \/ n > 7
        /\ n + 1 > 8 => n = 8 \/ n > 8
        /\ n = 6 => ~(n > 7) /\ n # 7 /\ n # 8
        /\ n = 7 => n # 6 /\ n # 8
        /\ n = 8 => n # 6 /\ n # 7
    BY <1>3
  <2> QED BY <1>1, <1>3, <1>7, <1>8, <2>1 DEF AppliesInv, ApplyWork, Restoring, Moving
<1>10. GivenInv'
  BY <1>1, <1>7 DEF GivenInv, GivenLinks, GivenPair, InstallPending
<1>11. Base' = Base
  BY <1>1 DEF Base, InstallPending, Saved
<1> QED BY <1>1, <1>9, <1>10, <1>11, SelectionStep

\* activate() moves other links.
LEMMA ActivateSelection ==
    ASSUME IInv, SelectionInv, NEW q \in Proc, Moves(q), ActivateLink(q)
    PROVE  SelectionInv' /\ Base' = Base
<1>1. /\ pc[q] = "activateLinks" /\ ptr \in Pointers /\ reg[q] \in Registers /\ reg \in [Proc -> Registers]
      /\ pc \in [Proc -> Location] /\ UNCHANGED <<fresh, install, apply>>
  BY DEF ActivateLink, journals, IInv, TypeInv, TypeOK
<1>2. UNCHANGED <<ptr["dotfiles/current"], ptr["dotfiles/previous"]>>
  <2>1. PICK i \in 1 .. 5 : \E v \in ActivateValues(ActivateOrder[i]) : SetLink(ActivateOrder[i], v)
    BY <1>1 DEF ActivateLink, IInv, ProcInv, Count
  <2>2. PICK l, value : l = ActivateOrder[i] /\ value \in ActivateValues(l) /\ SetLink(l, value)
    BY <2>1
  <2>3. l \notin {"dotfiles/current", "dotfiles/previous"}
    <3>1. i = 1 \/ i = 2 \/ i = 3 \/ i = 4 \/ i = 5
      OBVIOUS
    <3> QED BY <2>2, <3>1 DEF ActivateOrder
  <2> QED BY <1>1, <2>1, <2>2, <2>3 DEF SetLink, Pointers, Link
<1>3. UNCHANGED Selecting
  BY <1>1, <1>2 DEF Selecting
<1>4. CASE Done(q)
  BY <1>1, <1>3, <1>4, DoneSelection
<1>5. CASE ~Done(q)
  <2>1. reg' = [reg EXCEPT ![q].i = @ + 1] /\ UNCHANGED pc
    BY <1>5 DEF ActivateLink
  <2>2. PICK m : m = reg[q].i + 1
    OBVIOUS
  <2>3. reg'[q].at = reg[q].at /\ reg'[q].token = reg[q].token /\ reg'[q].trap = reg[q].trap
    BY <1>1, <2>1, <2>2 DEF Registers
  <2>4. Goto(q, "activateLinks")
    BY <1>1, <2>1 DEF Goto
  <2> QED BY <1>1, <1>3, <2>3, <2>4, GotoSelection DEF ApplyWork
<1> QED BY <1>4, <1>5

\* The commit of an installation selects what its apply has chosen.
LEMMA CommitSelection ==
    ASSUME IInv, SelectionInv, NEW q \in Proc, Moves(q), Commit(q)
    PROVE  SelectionInv' /\ Chose(Base')
<1>1. pc[q] = "commit" /\ InstallPending /\ UNCHANGED <<ptr, apply, fresh>> /\ Quit(q) /\ AppliesInv(q)
  BY InstallerSteps DEF Commit, SelectionInv
<1>2. Child(q) /\ HasApplied(q)
  <2>1. ProcInv(q)
    BY DEF IInv
  <2> QED BY <1>1, <2>1 DEF ProcInv, Position, InLine, Recovering, Child, HasApplied
<1>3. ~ApplyPending /\ Chose(DotfilesLinks)
  BY <1>1, <1>2 DEF AppliesInv
<1>4. ~InstallPending'
  BY <1>1, InstallPhase DEF Commit, InstallPending
<1>5. Base' = DotfilesLinks
  BY <1>1, <1>3, <1>4 DEF Base, Now, Saved, ApplyPending, DotfilesLinks
<1>6. GivenInv'
  BY <1>1, <1>4 DEF SelectionInv, GivenInv, GivenLinks, GivenPair
<1>7. AppliesInv(q)'
  BY <1>1, FailAside, AsideKnows
<1> QED BY <1>1, <1>3, <1>5, <1>6, <1>7, SelectionStep DEF DotfilesLinks

\* Behind check_mutation() the pair is the one the installation found.
LEMMA ApplyingIs ==
    ASSUME IInv, SelectionInv, NEW q \in Proc,
           pc[q] \in ApplyWork \/ (pc[q] \in {"applyCheck", "recoverApplyCheck"} /\ CheckMutation(q))
    PROVE  /\ InstallPending => Child(q)
           /\ ~HasApplied(q) /\ Now = Base
           /\ reg[q] \in Registers /\ reg \in [Proc -> Registers] /\ pc \in [Proc -> Location]
           /\ ptr \in Pointers
<1>1. /\ ProcInv(q) /\ AppliesInv(q) /\ reg[q].at \in 1 .. 9
      /\ reg[q] \in Registers /\ reg \in [Proc -> Registers] /\ pc \in [Proc -> Location]
      /\ ptr \in Pointers
  BY DEF IInv, TypeInv, TypeOK, SelectionInv
<1>2. ~HasApplied(q)
  BY <1>1 DEF HasApplied, ProcInv, Position, InLine, ApplyWork
<1>3. ~reg[q].trap
  BY <1>1 DEF ProcInv, Position, Recovering, ApplyWork
<1>4. InstallPending => Child(q)
  BY <1>1, <1>3 DEF AppliesInv, CheckMutation, Child
<1>5. Now = Base
  BY <1>1, <1>2, <1>4 DEF AppliesInv, Base
<1> QED BY <1>1, <1>2, <1>4, <1>5

\* A step of an apply that leaves what recovery would leave.
LEMMA ApplyingStep ==
    ASSUME IInv, SelectionInv, NEW q \in Proc, Moves(q), install' = install, Now' = Now, GivenInv',
           Now = Base, Base' = Base => AppliesInv(q)',
           DotfilesLinks' = DotfilesLinks \/ pc[q] \in ApplyWork
    PROVE  SelectionInv' /\ Base' = Base
<1>1. Base' = Base
  BY DEF Base, Saved, InstallPending
<1> QED BY <1>1, SelectionStep

\* The apply journal changes its phase only.
LEMMA ApplyPhase ==
    ASSUME NEW j \in ApplyJournal, NEW x \in {"PREPARED", "RECOVERING", "RECOVERED", "COMMITTED"}
    PROVE  /\ [j EXCEPT !.phase = x] \in ApplyJournal /\ [j EXCEPT !.phase = x].phase = x
           /\ [j EXCEPT !.phase = x].current = j.current
           /\ [j EXCEPT !.phase = x].previous = j.previous
           /\ [j EXCEPT !.phase = x].generation = j.generation
BY DEF ApplyJournal

\* recover_apply_locked() begins, or finds nothing to do.
LEMMA RecoverApplySelection ==
    ASSUME IInv, SelectionInv, NEW q \in Proc, Moves(q), ApplyCheck(q) \/ ApplyUndo(q) \/ RecoverApply(q)
    PROVE  SelectionInv' /\ Base' = Base
<1>1. PICK from, back :
        /\ RecoverApplyLocked(q, from, back)
        /\ <<from, back>> \in {<<"applyCheck", "applyPlan">>, <<"applyUndo", "fail">>,
                               <<"recoverApplyCheck", "done">>}
        /\ from # "applyUndo" => CheckMutation(q)
  BY DEF ApplyCheck, ApplyUndo, RecoverApply
<1>2. pc[q] = from /\ UNCHANGED <<ptr, fresh, install>> /\ ProcInv(q) /\ GivenInv
  BY <1>1 DEF RecoverApplyLocked, IInv, SelectionInv
<1>3. /\ InstallPending => Child(q)
      /\ ~HasApplied(q) /\ Now = Base /\ pc \in [Proc -> Location]
  BY <1>1, <1>2, ApplyingIs DEF ApplyWork
<1>4. CASE ApplyPending
  <2>1. PICK step : step = [applyPlan |-> "restoreThenPlan", fail |-> "restoreThenFail",
                            done |-> "restoreThenDone"][back]
    OBVIOUS
  <2>2. step \in Restoring
    BY <1>1, <2>1 DEF Restoring
  <2>3. /\ apply' = [apply EXCEPT !.phase = "RECOVERING"] /\ Goto(q, step)
        /\ UNCHANGED <<lock, reg>>
    BY <1>1, <1>4, <2>1 DEF RecoverApplyLocked
  <2>4. /\ apply \in ApplyJournal /\ apply' \in ApplyJournal /\ apply'.phase = "RECOVERING"
        /\ apply'.current = apply.current /\ apply'.previous = apply.previous
        /\ apply'.generation = apply.generation
    BY <1>4, <2>3, DotfilesTyped, ApplyPhase
  <2>5. Now' = Now /\ GivenInv'
    BY <1>2, <1>4, <2>4
       DEF Now, Saved, ApplyPending, GivenInv, GivenLinks, GivenPair, InstallPending
  <2>6. pc'[q] = step /\ reg[q].i = 1
    BY <1>1, <1>2, <1>3, <2>3 DEF Goto, ProcInv, Count, Restoring
  <2>7. Base' = Base => AppliesInv(q)'
    BY <1>2, <1>3, <2>2, <2>3, <2>4, <2>5, <2>6
       DEF AppliesInv, Child, HasApplied, Restoring, Moving, ApplyPending, InstallPending
  <2> QED BY <1>2, <1>3, <2>5, <2>7, ApplyingStep DEF DotfilesLinks
<1>5. CASE ~ApplyPending
  <2>1. apply' = apply /\ UNCHANGED Selecting
    BY <1>1, <1>2, <1>5 DEF RecoverApplyLocked, Selecting
  <2>2. CASE back = "applyPlan"
    <3>1. pc'[q] = "applyPlan" /\ reg' = reg
      BY <1>1, <1>3, <1>5, <2>2 DEF RecoverApplyLocked, Goto
    <3>2. AppliesInv(q)'
      BY <1>2, <1>3, <1>5, <2>1, <3>1, BaseStays
         DEF AppliesInv, Child, HasApplied, Restoring, Moving, InstallPending
    <3> QED BY <1>2, <2>1, <3>2, SelectingStays
  <2>3. CASE back = "fail"
    <3>1. Fail(q)
      BY <1>1, <1>5, <2>3 DEF RecoverApplyLocked
    <3> QED BY <1>2, <2>1, <3>1, FailAside, AsideStep
  <2>4. CASE back = "done"
    <3>1. Done(q) /\ pc[q] = "recoverApplyCheck"
      BY <1>1, <1>2, <1>5, <2>4 DEF RecoverApplyLocked
    <3> QED BY <1>2, <2>1, <3>1, DoneSelection
  <2> QED BY <1>1, <2>2, <2>3, <2>4
<1> QED BY <1>4, <1>5

\* The undo puts a link back; its journal still speaks for both.
LEMMA RestoreLinkSelection ==
    ASSUME IInv, SelectionInv, NEW q \in Proc, Moves(q), RestoreDotfilesLink(q)
    PROVE  SelectionInv' /\ Base' = Base
<1>1. /\ pc[q] \in Restoring /\ UNCHANGED <<fresh, install, apply, pc>> /\ AppliesInv(q) /\ GivenInv
      /\ reg[q].i \in {1, 2}
  BY DEF RestoreDotfilesLink, journals, SelectionInv
<1>2. pc[q] \in ApplyWork \ {"applyPlan"} /\ ApplyPending
  BY <1>1 DEF AppliesInv, ApplyWork, Restoring
<1>3. /\ InstallPending => Child(q)
      /\ ~HasApplied(q) /\ Now = Base /\ ptr \in Pointers
      /\ reg[q] \in Registers /\ reg \in [Proc -> Registers]
  BY <1>2, ApplyingIs
<1>4. apply \in ApplyJournal
  BY <1>2, WorkJournals
<1>5. PICK n, m : n = reg[q].i /\ m = n + 1
  OBVIOUS
<1>6. reg'[q].i = m /\ reg'[q].token = reg[q].token /\ reg'[q].trap = reg[q].trap /\ reg'[q].at = reg[q].at
  <2>1. reg' = [reg EXCEPT ![q].i = m]
    BY <1>5 DEF RestoreDotfilesLink
  <2> QED BY <1>3, <2>1 DEF Registers
<1>7. /\ ptr'["dotfiles/previous"] = IF n = 1 THEN apply.previous ELSE ptr["dotfiles/previous"]
      /\ ptr'["dotfiles/current"] = IF n = 2 THEN apply.current ELSE ptr["dotfiles/current"]
  BY <1>1, <1>3, <1>5 DEF RestoreDotfilesLink, SetLink, Pointers, Link
<1>8. Now' = Now /\ GivenInv'
  BY <1>1, <1>2, <1>4, <1>7
     DEF Now, Saved, ApplyPending, GivenInv, GivenLinks, GivenPair, InstallPending
<1>9. Base' = Base => AppliesInv(q)'
  <2>1. /\ n > 1 => ptr["dotfiles/previous"] = apply.previous
        /\ n > 2 => ptr["dotfiles/current"] = apply.current
    BY <1>1, <1>5 DEF AppliesInv
  <2>2. (n = 1 /\ m = 2) \/ (n = 2 /\ m = 3)
    BY <1>1, <1>5
  <2>3. Child(q)' <=> Child(q)
    BY <1>6 DEF Child
  <2>4. ~HasApplied(q)'
    BY <1>1, <1>3, <1>6 DEF HasApplied
  <2>5. ApplyPending' /\ (InstallPending' <=> InstallPending)
    BY <1>1, <1>2 DEF ApplyPending, InstallPending
  <2>6. /\ m > 1 => ptr'["dotfiles/previous"] = apply'.previous
        /\ m > 2 => ptr'["dotfiles/current"] = apply'.current
    BY <1>1, <1>7, <2>1, <2>2
  <2> QED BY <1>1, <1>2, <1>3, <1>6, <1>8, <2>3, <2>4, <2>5, <2>6 DEF AppliesInv, Restoring, Moving
<1> QED BY <1>1, <1>2, <1>3, <1>8, <1>9, ApplyingStep

\* The undo is over: the links say what the journal said.
LEMMA ApplyRecoveredSelection ==
    ASSUME IInv, SelectionInv, NEW q \in Proc, Moves(q), ApplyRecovered(q)
    PROVE  SelectionInv' /\ Base' = Base
<1>1. /\ pc[q] \in Restoring /\ UNCHANGED <<fresh, install, ptr>> /\ AppliesInv(q) /\ GivenInv
      /\ reg[q].i = 3 /\ ProcInv(q)
  BY DEF ApplyRecovered, SelectionInv, IInv
<1>2. pc[q] \in ApplyWork \ {"applyPlan"} /\ ApplyPending
  BY <1>1 DEF AppliesInv, ApplyWork, Restoring
<1>3. /\ InstallPending => Child(q)
      /\ ~HasApplied(q) /\ Now = Base /\ pc \in [Proc -> Location]
      /\ reg[q] \in Registers /\ reg \in [Proc -> Registers]
  BY <1>2, ApplyingIs
<1>4. apply \in ApplyJournal
  BY <1>2, WorkJournals
<1>5. /\ apply' \in ApplyJournal /\ apply'.phase = "RECOVERED"
      /\ apply'.current = apply.current /\ apply'.previous = apply.previous
      /\ apply'.generation = apply.generation
  BY <1>4, ApplyPhase DEF ApplyRecovered
<1>6. ptr["dotfiles/previous"] = apply.previous /\ ptr["dotfiles/current"] = apply.current
  BY <1>1 DEF AppliesInv
<1>7. Now' = Now /\ GivenInv' /\ ~ApplyPending'
  BY <1>1, <1>2, <1>4, <1>5, <1>6
     DEF Now, Saved, ApplyPending, GivenInv, GivenLinks, GivenPair, InstallPending
<1>8. Base' = Base => AppliesInv(q)'
  <2>1. CASE pc[q] = "restoreThenPlan"
    <3>1. Goto(q, "applyPlan") /\ reg' = [reg EXCEPT ![q].i = 1]
      BY <2>1 DEF ApplyRecovered
    <3>2. pc'[q] = "applyPlan" /\ reg'[q].at = reg[q].at /\ (Child(q)' <=> Child(q))
      BY <1>3, <3>1 DEF Goto, Child, Registers
    <3> QED BY <1>1, <1>3, <1>7, <3>2
            DEF AppliesInv, HasApplied, Restoring, Moving, InstallPending
  <2>2. CASE pc[q] = "restoreThenFail"
    BY <2>2, FailAside, AsideKnows DEF ApplyRecovered
  <2>3. CASE pc[q] = "restoreThenDone"
    <3>1. Done(q)
      BY <2>3 DEF ApplyRecovered
    <3>2. ~Child(q)
      BY <1>1, <2>3 DEF ProcInv, Position, InLine, Child
    <3>3. ~Child(q)' /\ pc'[q] \notin ApplyWork \cup {"restoreInstall"}
      BY <2>3, <3>1, <3>2, DoneNext, DoneFrom DEF After, DotfilesHeld
    <3> QED BY <3>3, AsideKnows DEF Aside
  <2> QED BY <1>1, <2>1, <2>2, <2>3 DEF Restoring
<1> QED BY <1>1, <1>2, <1>3, <1>7, <1>8, ApplyingStep

\* apply saves the pair and takes an id that the pair does not name.
LEMMA ApplyPlanSelection ==
    ASSUME IInv, SelectionInv, NEW q \in Proc, Moves(q), ApplyPlan(q)
    PROVE  SelectionInv' /\ Base' = Base
<1>1. pc[q] = "applyPlan" /\ UNCHANGED <<install, ptr>> /\ AppliesInv(q) /\ GivenInv
  BY DEF ApplyPlan, SelectionInv
<1>2. pc[q] \in ApplyWork /\ ~ApplyPending
  BY <1>1 DEF AppliesInv, ApplyWork
<1>3. /\ InstallPending => Child(q)
      /\ ~HasApplied(q) /\ Now = Base /\ pc \in [Proc -> Location]
      /\ reg[q] \in Registers /\ reg \in [Proc -> Registers]
  BY <1>2, ApplyingIs
<1>4. PICK g \in fresh \cap Dotfiles :
        /\ Create(g)
        /\ apply' = [phase |-> "PREPARED", generation |-> g,
                     current |-> ptr["dotfiles/current"], previous |-> ptr["dotfiles/previous"]]
        /\ reg' = [reg EXCEPT ![q].gen = g, ![q].old = Resolved("dotfiles/current"),
                              ![q].valid = Intact(disk, ptr["dotfiles/current"])]
  BY DEF ApplyPlan
<1>5. PICK old, valid : old = Resolved("dotfiles/current") /\ valid = Intact(disk, ptr["dotfiles/current"])
  OBVIOUS
<1>6. reg' = [reg EXCEPT ![q].gen = g, ![q].old = old, ![q].valid = valid] /\ fresh' = fresh \ {g}
  BY <1>4, <1>5 DEF Create
<1>7. /\ reg'[q].gen = g /\ reg'[q].old = old /\ reg'[q].valid = valid
      /\ reg'[q].at = reg[q].at /\ (Child(q)' <=> Child(q))
  BY <1>3, <1>6 DEF Child, Registers
<1>8. valid => old = ptr["dotfiles/current"]
  BY <1>5 DEF Resolved, Exists, Intact
<1>9. /\ apply'.phase = "PREPARED" /\ apply'.current = ptr["dotfiles/current"]
      /\ apply'.previous = ptr["dotfiles/previous"] /\ apply'.generation = g
  BY <1>4
<1>10. Now' = Now /\ GivenInv' /\ ApplyPending'
  BY <1>1, <1>2, <1>4, <1>6, <1>9
     DEF Now, Saved, ApplyPending, GivenInv, GivenLinks, GivenPair, InstallPending
<1>11. g \in Dotfiles \ {apply'.current, apply'.previous}
  BY <1>1, <1>4, <1>9 DEF GivenInv, GivenLinks
<1>12. pc'[q] = "applyPrevious"
  BY <1>3 DEF ApplyPlan, Goto
<1>13. Base' = Base => AppliesInv(q)'
  <2>1. ~HasApplied(q)'
    BY <1>3, <1>7, <1>12 DEF HasApplied
  <2>2. InstallPending' => Child(q)'
    BY <1>1, <1>3, <1>7 DEF InstallPending
  <2>3. /\ reg'[q].gen = apply'.generation /\ reg'[q].gen \in Dotfiles \ {apply'.current, apply'.previous}
        /\ reg'[q].valid => reg'[q].old = apply'.current
        /\ ptr'["dotfiles/previous"] = apply'.previous
    BY <1>1, <1>7, <1>8, <1>9, <1>11
  <2> QED BY <1>3, <1>10, <1>12, <2>1, <2>2, <2>3 DEF AppliesInv, Restoring, Moving
<1> QED BY <1>1, <1>2, <1>3, <1>10, <1>13, ApplyingStep

\* apply moves its two links and verifies: the journal speaks for both.
LEMMA ApplyLinksSelection ==
    ASSUME IInv, SelectionInv, NEW q \in Proc, Moves(q), ApplyPrevious(q) \/ ApplyCurrent(q) \/ ApplyVerify(q)
    PROVE  SelectionInv' /\ Base' = Base
<1>1. /\ pc[q] \in {"applyPrevious", "applyCurrent", "applyVerify"} /\ AppliesInv(q) /\ GivenInv
      /\ UNCHANGED <<install, apply, reg, fresh>>
  BY DEF ApplyPrevious, ApplyCurrent, ApplyVerify, journals, SelectionInv
<1>2. pc[q] \in ApplyWork \ {"applyPlan"} /\ ApplyPending /\ pc[q] \in Moving
  BY <1>1 DEF AppliesInv, ApplyWork, Moving
<1>3. /\ InstallPending => Child(q)
      /\ ~HasApplied(q) /\ Now = Base /\ pc \in [Proc -> Location] /\ ptr \in Pointers
  BY <1>2, ApplyingIs
<1>4. apply \in ApplyJournal
  BY <1>2, WorkJournals
<1>5. /\ reg[q].gen = apply.generation /\ reg[q].gen \in Dotfiles \ {apply.current, apply.previous}
      /\ reg[q].valid => reg[q].old = apply.current
      /\ ptr["dotfiles/previous"] \in {apply.current, apply.previous}
  BY <1>1, <1>2 DEF AppliesInv
<1>6. Now' = Now
  BY <1>1, <1>2 DEF Now, Saved, ApplyPending
<1>7. /\ pc'[q] \in {"applyCurrent", "applyVerify", "applyCommit", "applyUndo"}
      /\ ptr'["dotfiles/previous"] \in {apply.current, apply.previous}
      /\ pc'[q] \in {"applyVerify", "applyCommit"} => ptr'["dotfiles/current"] = reg[q].gen
  <2>1. CASE ApplyPrevious(q)
    BY <1>3, <1>5, <2>1 DEF ApplyPrevious, Goto, SetLink, Pointers, Link
  <2>2. CASE ApplyCurrent(q)
    BY <1>3, <1>5, <2>2 DEF ApplyCurrent, Goto, SetLink, Pointers, Link
  <2>3. CASE ApplyVerify(q)
    <3>1. pc[q] = "applyVerify" /\ ptr' = ptr /\ pc'[q] \in {"applyCommit", "applyUndo"}
      BY <1>3, <2>3 DEF ApplyVerify, Goto
    <3>2. ptr["dotfiles/current"] = reg[q].gen
      BY <1>1, <1>2, <3>1 DEF AppliesInv
    <3> QED BY <1>5, <3>1, <3>2
  <2> QED BY <2>1, <2>2, <2>3
<1>8. Base' = Base => AppliesInv(q)'
  <2>1. ~HasApplied(q)' /\ (Child(q)' <=> Child(q))
    BY <1>1, <1>3, <1>7 DEF HasApplied, Child
  <2>2. ApplyPending' /\ (InstallPending' <=> InstallPending)
    BY <1>1, <1>2 DEF ApplyPending, InstallPending
  <2> QED BY <1>1, <1>3, <1>5, <1>6, <1>7, <2>1, <2>2 DEF AppliesInv, Restoring, Moving
<1>9. GivenInv'
  <2>1. ptr'["dotfiles/current"] \in {ptr["dotfiles/current"], apply.generation}
    BY <1>3, <1>5 DEF ApplyPrevious, ApplyCurrent, ApplyVerify, SetLink, Pointers, Link
  <2> QED BY <1>1, <1>4, <1>7, <2>1 DEF GivenInv, GivenLinks, GivenPair, InstallPending
<1> QED BY <1>1, <1>2, <1>3, <1>6, <1>8, <1>9, ApplyingStep

\* The commit of an apply: the choice of the installation that runs it, or else
\* the selection.
LEMMA ApplyCommitSelection ==
    ASSUME IInv, SelectionInv, NEW q \in Proc, Moves(q), ApplyCommit(q)
    PROVE  SelectionInv' /\ (Base' = Base \/ Chose(Base'))
<1>1. /\ pc[q] = "applyCommit" /\ AppliesInv(q) /\ GivenInv /\ UNCHANGED <<install, ptr, reg, fresh>>
      /\ apply' = [apply EXCEPT !.phase = "COMMITTED"]
  BY DEF ApplyCommit, SelectionInv
<1>2. pc[q] \in ApplyWork \ {"applyPlan"} /\ ApplyPending /\ pc[q] \in Moving
  BY <1>1 DEF AppliesInv, ApplyWork, Moving
<1>3. /\ InstallPending => Child(q)
      /\ ~HasApplied(q) /\ Now = Base /\ pc \in [Proc -> Location]
  BY <1>2, ApplyingIs
<1>4. apply \in ApplyJournal
  BY <1>2, WorkJournals
<1>5. /\ apply' \in ApplyJournal /\ apply'.phase = "COMMITTED"
      /\ apply'.current = apply.current /\ apply'.previous = apply.previous
      /\ apply'.generation = apply.generation
  BY <1>1, <1>4, ApplyPhase
<1>6. Chose(DotfilesLinks)
  <2>1. /\ reg[q].gen \in Dotfiles \ {apply.current, apply.previous}
        /\ ptr["dotfiles/previous"] \in {apply.current, apply.previous}
        /\ ptr["dotfiles/current"] = reg[q].gen
    BY <1>1, <1>2 DEF AppliesInv
  <2>2. Base[1] = apply.current /\ Base[2] = apply.previous
    BY <1>2, <1>3 DEF Now, Saved, ApplyPending
  <2> QED BY <2>1, <2>2 DEF Chose, DotfilesLinks
<1>7. DotfilesLinks' = DotfilesLinks /\ ~ApplyPending' /\ Now' = DotfilesLinks
  BY <1>1, <1>5 DEF DotfilesLinks, ApplyPending, Now, Saved
<1>8. Base' = IF InstallPending THEN Base ELSE DotfilesLinks
  BY <1>1, <1>7 DEF Base, InstallPending, Saved
<1>9. AppliesInv(q)'
  <2>1. pc'[q] = "applyQuarantine" /\ (Child(q)' <=> Child(q))
    BY <1>1, <1>3 DEF ApplyCommit, Goto, Child
  <2>2. Child(q) => InstallPending
    BY DEF IInv, ProcInv, Child
  <2>3. InstallPending => (Chose(DotfilesLinks))'
    BY <1>6, <1>7, <1>8 DEF Chose
  <2> QED BY <1>7, <2>1, <2>2, <2>3 DEF AppliesInv, HasApplied, ApplyWork, Restoring, Moving
<1>10. GivenInv'
  BY <1>1, <1>4, <1>5 DEF GivenInv, GivenLinks, GivenPair, InstallPending
<1>11. SelectionInv'
  BY <1>7, <1>9, <1>10, SelectionStep
<1> QED BY <1>6, <1>8, <1>11

\* A command takes its lock.
LEMMA LockSelection ==
    ASSUME IInv, SelectionInv, NEW q \in Proc, Moves(q),
           ApplyLock(q) \/ RecoverApplyLock(q) \/ PromoteLock(q) \/ RecoverPromotionLock(q)
    PROVE  SelectionInv' /\ Base' = Base
<1>1. PICK from, file, to :
        /\ <<from, to>> \in {<<"applyDotfiles", "applyCheck">>, <<"recoverApply", "recoverApplyCheck">>,
                             <<"promote", "promoteCheck">>, <<"recoverPromotion", "recoverPromotionCheck">>}
        /\ TakeLock(q, from, file, to)
  BY DEF ApplyLock, RecoverApplyLock, PromoteLock, RecoverPromotionLock
<1>2. pc[q] = from /\ Goto(q, to) /\ UNCHANGED <<reg, fresh>> /\ UNCHANGED Selecting
  BY <1>1 DEF TakeLock, Selecting, journals
<1> QED BY <1>1, <1>2, GotoSelection DEF ApplyWork

\* Where rollback is not among the commands no step is a rollback's.
LEMMA DotfilesSelectionStep ==
    ASSUME IInv, SelectionInv, NoRollback, NEW q \in Proc, Moves(q), DotfilesStep(q)
    PROVE  SelectionInv' /\ (Base' = Base \/ Chose(Base'))
<1>1. ~(RollbackLock(q) \/ RollbackCurrent(q) \/ RollbackRefused(q) \/ RollbackPrevious(q)
        \/ RollbackVerify(q) \/ RollbackUndo(q))
  BY NoSwap DEF RollbackLock, TakeLock, RollbackCurrent, RollbackRefused, RollbackPrevious,
                RollbackVerify, RollbackUndo, RollbackWork
<1>2. CASE ApplyQuarantine(q)
  <2>1. pc[q] = "applyQuarantine" /\ Done(q) /\ UNCHANGED Selecting /\ fresh' = fresh
    BY <1>2 DEF ApplyQuarantine, Selecting, journals
  <2> QED BY <2>1, DoneSelection
<1>3. CASE ~ApplyQuarantine(q)
  BY <1>1, <1>3, LockSelection, RecoverApplySelection, RefusedSelection, ApplyPlanSelection,
     ApplyLinksSelection, ApplyCommitSelection, RestoreLinkSelection, ApplyRecoveredSelection
     DEF DotfilesStep
<1> QED BY <1>2, <1>3

\* A promotion moves and records the system's links alone.
LEMMA PromotionMoves ==
    ASSUME IInv, NEW q \in Proc, PromotionStep(q)
    PROVE  UNCHANGED Selecting /\ fresh' \subseteq fresh
<1>1. UNCHANGED <<apply, install>> /\ fresh' \subseteq fresh
  BY DEF PromotionStep, PromoteLock, RecoverPromotionLock, TakeLock, PromotePlan, PromoteRefused,
         PromotePrevious, PromoteCurrent, PromoteVerify, PromoteCommit, PromoteCommitFails,
         PromoteUndo, RecoverPromotionPlan, RecoverPromotionNothing, RecoverPromotionRefused,
         RecoverPrevious, RecoverCurrent, RecoverPromotionCommit, RecoverPromotionUnverified,
         Create, journals
<1>2. ptr' = ptr \/ \E value : SetLink("system/current", value) \/ SetLink("system/previous", value)
  BY DEF PromotionStep, PromoteLock, RecoverPromotionLock, TakeLock, PromotePlan, PromoteRefused,
         PromotePrevious, PromoteCurrent, PromoteVerify, PromoteCommit, PromoteCommitFails,
         PromoteUndo, RecoverPromotionPlan, RecoverPromotionNothing, RecoverPromotionRefused,
         RecoverPrevious, RecoverCurrent, RecoverPromotionCommit, RecoverPromotionUnverified
<1>3. UNCHANGED <<ptr["dotfiles/current"], ptr["dotfiles/previous"]>>
  BY <1>2 DEF SetLink, Pointers, Link, IInv, TypeInv, TypeOK
<1> QED BY <1>1, <1>3 DEF Selecting

\* Where a command is, and where it goes without ending.
LEMMA PlaceStays ==
    ASSUME IInv, NEW q \in Proc, NEW valid, NEW n,
           reg' = reg \/ reg' = [reg EXCEPT ![q].valid = valid] \/ reg' = [reg EXCEPT ![q].i = n]
    PROVE  reg'[q].at = reg[q].at /\ reg'[q].token = reg[q].token /\ reg'[q].trap = reg[q].trap
<1>1. reg[q] \in Registers /\ reg \in [Proc -> Registers]
  BY DEF IInv, TypeInv
<1>2. CASE reg' = [reg EXCEPT ![q].valid = valid]
  BY <1>1, <1>2 DEF Registers
<1>3. CASE reg' = [reg EXCEPT ![q].i = n]
  BY <1>1, <1>3 DEF Registers
<1> QED BY <1>2, <1>3

LEMMA PromotionSelection ==
    ASSUME IInv, SelectionInv, NEW q \in Proc, Moves(q), PromotionStep(q)
    PROVE  SelectionInv' /\ Base' = Base
<1>1. UNCHANGED Selecting /\ fresh' \subseteq fresh
  BY PromotionMoves
<1>2. CASE PromoteLock(q) \/ RecoverPromotionLock(q)
  BY <1>2, LockSelection
<1>3. CASE PromoteRefused(q) \/ RecoverPromotionRefused(q) \/ RecoverPromotionUnverified(q)
  BY <1>3, RefusedSelection
<1>4. CASE PromoteCommit(q) \/ RecoverPromotionNothing(q) \/ RecoverPromotionCommit(q)
  <2>1. Done(q) /\ pc[q] \in {"promoteCommit", "recoverPromotionCheck", "recoverVerify"}
    BY <1>4 DEF PromoteCommit, RecoverPromotionNothing, RecoverPromotionCommit
  <2> QED BY <1>1, <2>1, DoneSelection
<1>5. CASE PromoteUndo(q)
  <2>1. pc[q] = "promoteUndo"
    BY <1>5 DEF PromoteUndo
  <2>2. CASE Fail(q)
    BY <1>1, <2>2, FailAside, AsideStep
  <2>3. CASE ~Fail(q)
    <3>1. PICK n : n = reg[q].i + 1
      OBVIOUS
    <3>2. reg' = [reg EXCEPT ![q].i = n] /\ pc' = pc
      BY <1>5, <2>3, <3>1 DEF PromoteUndo
    <3>3. Goto(q, "promoteUndo")
      BY <2>1, <3>2 DEF Goto, IInv, TypeInv
    <3> QED BY <1>1, <2>1, <3>2, <3>3, PlaceStays, GotoSelection DEF ApplyWork
  <2> QED BY <2>2, <2>3
<1>6. CASE \/ PromotePlan(q) \/ PromotePrevious(q) \/ PromoteCurrent(q) \/ PromoteVerify(q)
           \/ PromoteCommitFails(q) \/ RecoverPromotionPlan(q) \/ RecoverPrevious(q) \/ RecoverCurrent(q)
  <2>1. /\ pc[q] \in {"promoteCheck", "promotePrevious", "promoteCurrent", "promoteVerify",
                      "promoteCommit", "recoverPromotionCheck", "recoverPrevious", "recoverCurrent"}
        /\ \E step \in PromotionWork : Goto(q, step)
    BY <1>6 DEF PromotePlan, PromotePrevious, PromoteCurrent, PromoteVerify, PromoteCommitFails,
                RecoverPromotionPlan, RecoverPrevious, RecoverCurrent, PromotionWork
  <2>2. \E valid : reg' = reg \/ reg' = [reg EXCEPT ![q].valid = valid]
    BY <1>6 DEF PromotePlan, PromotePrevious, PromoteCurrent, PromoteVerify, PromoteCommitFails,
                RecoverPromotionPlan, RecoverPrevious, RecoverCurrent
  <2>3. reg'[q].at = reg[q].at /\ reg'[q].token = reg[q].token /\ reg'[q].trap = reg[q].trap
    BY <2>2, PlaceStays
  <2> QED BY <1>1, <2>1, <2>3, GotoSelection DEF ApplyWork, PromotionWork
<1> QED BY <1>2, <1>3, <1>4, <1>5, <1>6 DEF PromotionStep

\* The installer's own steps.
LEMMA InstallSelection ==
    ASSUME IInv, SelectionInv, NEW q \in Proc, Moves(q), InstallStep(q)
    PROVE  SelectionInv' /\ (Base' = Base \/ Chose(Base'))
<1>1. CASE RecoverInstall(q) /\ ~InstallPending
  <2>1. pc[q] = "recoverInstall" /\ Done(q) /\ UNCHANGED Selecting /\ fresh' = fresh
    BY <1>1 DEF RecoverInstall, Selecting
  <2> QED BY <2>1, DoneSelection
<1>2. CASE VerifyInstalled(q)
  <2>1. pc[q] = "verify" /\ (Done(q) \/ Fail(q)) /\ UNCHANGED Selecting /\ fresh' = fresh
    BY <1>2 DEF VerifyInstalled, Selecting, journals
  <2> QED BY <2>1, DoneSelection, FailAside, AsideStep
<1>3. CASE ~VerifyInstalled(q) /\ ~(RecoverInstall(q) /\ ~InstallPending)
  BY <1>3, StageSelection, RefusedSelection, InstallPhaseSelection, RecoveredSelection, RestoreSelection,
     ActivateSelection, CommitSelection, BeginSelection DEF InstallStep
<1> QED BY <1>1, <1>2, <1>3

\* A step that reports an error ends its call, or leads to its undo.
LEMMA StepFailsSelection ==
    ASSUME IInv, SelectionInv, NoRollback, NEW q \in Proc, Moves(q), StepFails(q)
    PROVE  SelectionInv' /\ Base' = Base
<1>1. UNCHANGED Selecting /\ fresh' = fresh
  BY DEF StepFails, Selecting, journals
<1>2. CASE ErrorPath(pc[q]) = "fail"
  BY <1>2, RefusedSelection
<1>3. CASE ErrorPath(pc[q]) # "fail"
  <2>1. Goto(q, ErrorPath(pc[q])) /\ reg' = reg
    BY <1>3 DEF StepFails
  <2>2. \/ ErrorPath(pc[q]) = "promoteUndo" /\ pc[q] \in PromotionWork
        \/ ErrorPath(pc[q]) = "applyUndo" /\ pc[q] \in Moving \ {"applyCommit"}
    BY <1>3, NoSwap DEF ErrorPath, DotfilesErrorPath, PromotionErrorPath, PromotionWork, Moving, RollbackWork
  <2>3. CASE ErrorPath(pc[q]) = "promoteUndo" /\ pc[q] \in PromotionWork
    BY <1>1, <2>1, <2>3, GotoSelection DEF ApplyWork, PromotionWork
  <2>4. CASE ErrorPath(pc[q]) = "applyUndo" /\ pc[q] \in Moving \ {"applyCommit"}
    <3>1. pc'[q] = "applyUndo" /\ AppliesInv(q) /\ pc[q] \in ApplyWork
      BY <2>1, <2>4 DEF Goto, IInv, TypeInv, SelectionInv, Moving, ApplyWork
    <3>2. ~HasApplied(q)
      BY <3>1, ApplyingIs
    <3>3. AppliesInv(q)'
      BY <1>1, <2>1, <2>4, <3>1, <3>2, BaseStays
         DEF AppliesInv, Child, HasApplied, Restoring, Moving, Selecting, InstallPending
    <3> QED BY <1>1, <3>3, SelectingStays
  <2> QED BY <2>2, <2>3, <2>4
<1> QED BY <1>2, <1>3

LEMMA NextSelection ==
    ASSUME IInv, SelectionInv, NoRollback, [Next]_vars
    PROVE  SelectionInv' /\ (Base' = Base \/ Chose(Base'))
<1>1. ASSUME NEW q \in Proc, NEW cmd \in Commands, Start(q, cmd) PROVE SelectionInv' /\ Base' = Base
  BY <1>1, StartStep, StartSelection
<1>2. ASSUME NEW q \in Proc, InstallStep(q) PROVE SelectionInv' /\ (Base' = Base \/ Chose(Base'))
  BY <1>2, InstallStepKeeps, InstallSelection
<1>3. ASSUME NEW q \in Proc, DotfilesStep(q) PROVE SelectionInv' /\ (Base' = Base \/ Chose(Base'))
  BY <1>3, DotfilesStepKeeps, DotfilesSelectionStep
<1>4. ASSUME NEW q \in Proc, PromotionStep(q) PROVE SelectionInv' /\ Base' = Base
  BY <1>4, PromotionStepKeeps, PromotionSelection
<1>5. ASSUME NEW q \in Proc, Crash(q) PROVE SelectionInv' /\ Base' = Base
  BY <1>5, CrashStep, RefusedSelection
<1>6. ASSUME NEW q \in Proc, StepFails(q) PROVE SelectionInv' /\ Base' = Base
  BY <1>6, StepFailsStep, StepFailsSelection
<1>7. ASSUME UNCHANGED <<ptr, fresh, journals, local>> PROVE SelectionInv' /\ Base' = Base
  <2>1. UNCHANGED Selecting /\ UNCHANGED <<pc, reg, fresh>>
    BY <1>7 DEF Selecting, journals, local
  <2>2. ASSUME NEW p \in Proc PROVE AppliesInv(p)' <=> AppliesInv(p)
    BY <2>1, BaseStays DEF AppliesInv, Child, HasApplied, Chose, Selecting, InstallPending
  <2> QED BY <2>1, <2>2, BaseStays, GivenStays DEF SelectionInv
<1>8. ASSUME NEW g \in Generation, Damage(g) PROVE UNCHANGED <<ptr, fresh, journals, local>>
  BY <1>8 DEF Damage
<1> QED BY <1>1, <1>2, <1>3, <1>4, <1>5, <1>6, <1>7, <1>8 DEF Next, vars

\* Before anything runs the pair is what the links name.
LEMMA InitSelection == ASSUME InitState, NoRollback PROVE SelectionInv /\ Selection!Init
<1>1. IInv
  BY InitIInv
<1>2. ~InstallPending /\ ~ApplyPending
  BY JournalsAre DEF InitState, InstallPending, ApplyPending
<1>3. Now = Base /\ DotfilesSelected = DotfilesLinks
  BY <1>1, <1>2, NoSwap DEF Base, Now, Saved, ApplyPending, DotfilesLinks
<1>4. GivenInv
  BY <1>2, JournalsAre, LinkBuilds DEF InitState, GivenInv, GivenLinks, GivenPair
<1>5. ASSUME NEW p \in Proc PROVE AppliesInv(p)
  BY NoRegTyped DEF InitState, AppliesInv, Child, ApplyWork, Restoring, Moving
<1>6. Selection!Init
  BY <1>1, <1>3, LinksTyped DEF Selection!Init, DotfilesLinks
<1> QED BY <1>4, <1>5, <1>6 DEF SelectionInv

-----------------------------------------------------------------------------
\* `dotfiles apply' keeps what DotfilesSelection promises, alone and inside an
\* installation, whatever crashes, fails or is recovered, for any processes and
\* generations: the pair a recovery would leave changes in one step, to a new
\* generation whose predecessor or its previous one stays selectable.
THEOREM AppliesSelectOnce == ASSUME NoRollback PROVE Spec => ImplementsDotfilesSelection
<1>1. InitState => SelectionInv /\ Selection!Init
  BY InitSelection
<1>2. IInv /\ SelectionInv /\ [Next]_vars => SelectionInv'
  BY NextSelection
<1>3. IInv => DotfilesSelected = Base
  BY NoSwap
<1>4. ASSUME IInv, SelectionInv, DotfilesSelected = Base, (DotfilesSelected = Base)', [Next]_vars
      PROVE  [Selection!Next]_DotfilesSelected
  <2> SUFFICES ASSUME DotfilesSelected' # DotfilesSelected PROVE Selection!Next
    OBVIOUS
  <2>1. PICK g \in Dotfiles \ {Base[1], Base[2]} : Base' \in {<<g, Base[1]>>, <<g, Base[2]>>}
    BY <1>4, NextSelection DEF Chose
  <2> QED BY <1>4, <2>1 DEF Selection!Next, Selection!Select
<1> QED BY <1>1, <1>2, <1>3, <1>4, InductiveInvariant, PTL
        DEF Spec, ImplementsDotfilesSelection, Selection!Spec

-----------------------------------------------------------------------------
(***************************************************************************)
(* What a committed installation can be rolled back to.  Before is the     *)
(* system it replaces, or the checkpoint made from it: the installer       *)
(* selects it until its promotion makes it the previous one.  No id is     *)
(* given out twice, so that Before never verifies again once it has not,   *)
(* and what the promotion seals is not Before.                             *)
(***************************************************************************)
Before == IF install.checkpoint # None THEN install.checkpoint ELSE install.links["system/current"]

Verified == VerifySystemPath(disk, Before)

NeverGiven == \A g \in fresh : disk[g] = "absent"

BeforeInv ==
    InstallPending /\ Before # None =>
      /\ Manifest[Before].helpers # None
      /\ {Before, Manifest[Before].shell, Manifest[Before].dotfiles, Manifest[Before].helpers,
          Manifest[Before].legacy} \cap fresh = {}

\* The installer has selected Before and promoted nothing.
Unpromoted(p) ==
    \/ reg[p].at = 6
    \/ pc[p] \in {"promote", "promoteCheck"}
    \/ pc[p] = "activateLinks" /\ reg[p].i > 1

\* Its promotion is selected.
Promoted == {"promoteVerify", "promoteCommit", "verify", "commit"}

KeepStep(p) ==
    Child(p) =>
      /\ pc[p] = "activate" \/ (pc[p] = "activateLinks" /\ reg[p].i = 1) =>
           ptr["system/current"] = install.links["system/current"]
      /\ Unpromoted(p) => ptr["system/current"] = Before
      /\ pc[p] = "promotePrevious" => promotion.beforeCurrent = Before /\ (Verified => reg[p].valid)
      /\ pc[p] \in {"promotePrevious", "promoteCurrent"} => promotion.target # Before
      /\ pc[p] \in Promoted \cup {"promoteCurrent"} => (Verified => ptr["system/previous"] = Before)
      /\ pc[p] \in Promoted => ptr["system/current"] # Before

KeepInv == NeverGiven /\ BeforeInv /\ \A p \in Proc : KeepStep(p)

\* Ids are given out once, and what was given out is never repaired.
Stores ==
    /\ fresh' \subseteq fresh
    /\ \A g \in fresh' : disk'[g] = "absent"
    /\ \A g \in Generation \ fresh : disk'[g] = "intact" => disk[g] = "intact"

LEMMA CreateStores ==
    ASSUME IInv, NeverGiven, NEW g \in fresh, Create(g)
    PROVE  Stores
<1>1. disk \in Disk /\ fresh \subseteq Generation
  BY DEF IInv, TypeInv, TypeOK
<1> QED BY <1>1 DEF Create, Stores, NeverGiven, Disk

LEMMA SameStores == ASSUME IInv, NeverGiven, UNCHANGED <<disk, fresh>> PROVE Stores
BY DEF Stores, NeverGiven

LEMMA InstallStores == ASSUME IInv, NeverGiven, NEW q \in Proc, InstallStep(q) PROVE Stores
<1>1. disk \in Disk /\ fresh \subseteq Generation
  BY DEF IInv, TypeInv, TypeOK
<1>2. CASE Stage(q)
  <2>1. PICK s \in fresh \cap Shell, h \in fresh \cap Helpers :
          disk' = [disk EXCEPT ![s] = "intact", ![h] = "intact"] /\ fresh' = fresh \ {s, h}
    BY <1>2 DEF Stage
  <2> QED BY <1>1, <2>1 DEF Stores, NeverGiven, Disk
<1>3. CASE Begin(q)
  <2>1. CASE NeedsCheckpoint
    <3>1. PICK c \in Checkpoints :
            /\ disk' = [disk EXCEPT ![c] = "intact", ![Manifest[c].helpers] = "intact"]
            /\ fresh' = fresh \ {c, Manifest[c].helpers}
      BY <1>3, <2>1 DEF Begin
    <3>2. c \in fresh /\ Manifest[c].helpers \in fresh
      BY <3>1 DEF Checkpoints
    <3> QED BY <1>1, <3>1, <3>2 DEF Stores, NeverGiven, Disk
  <2>2. CASE ~NeedsCheckpoint
    BY <1>3, <2>2, SameStores DEF Begin
  <2> QED BY <2>1, <2>2
<1>4. CASE BuildPrevious(q)
  BY <1>4, CreateStores DEF BuildPrevious
<1>5. CASE ~(Stage(q) \/ Begin(q) \/ BuildPrevious(q))
  BY <1>5, SameStores DEF InstallStep, StageFails, TryInstallLock, RecoverInstall, RestoreTarget,
     InstallRecovered, BeginRefused, Activate, ActivateRefused, ActivateLink, VerifyInstalled, Commit,
     CommitRefused, BuildRefused, BuildCurrent
<1> QED BY <1>2, <1>3, <1>4, <1>5

LEMMA DotfilesStores == ASSUME IInv, NeverGiven, NEW q \in Proc, DotfilesStep(q) PROVE Stores
<1>1. disk \in Disk /\ fresh \subseteq Generation
  BY DEF IInv, TypeInv, TypeOK
<1>2. CASE ApplyPlan(q)
  BY <1>2, CreateStores DEF ApplyPlan
<1>3. CASE ApplyQuarantine(q)
  BY <1>1, <1>3 DEF ApplyQuarantine, Stores, NeverGiven, Disk
<1>4. CASE ~(ApplyPlan(q) \/ ApplyQuarantine(q))
  BY <1>4, SameStores DEF DotfilesStep, ApplyLock, RecoverApplyLock, RollbackLock, TakeLock, ApplyCheck,
     ApplyUndo, RecoverApply, RecoverApplyLocked, ApplyRefused, ApplyBuildFails, ApplyPrevious,
     ApplyCurrent, ApplyVerify, ApplyCommit, RestoreDotfilesLink, ApplyRecovered, RecoverApplyRefused,
     RollbackCurrent, RollbackRefused, RollbackPrevious, RollbackVerify, RollbackUndo
<1> QED BY <1>2, <1>3, <1>4

LEMMA PromotionStores == ASSUME IInv, NeverGiven, NEW q \in Proc, PromotionStep(q) PROVE Stores
<1>1. CASE PromotePlan(q)
  BY <1>1, CreateStores DEF PromotePlan, Seals
<1>2. CASE ~PromotePlan(q)
  BY <1>2, SameStores DEF PromotionStep, PromoteLock, RecoverPromotionLock, TakeLock, PromoteRefused,
     PromotePrevious, PromoteCurrent, PromoteVerify, PromoteCommit, PromoteCommitFails, PromoteUndo,
     RecoverPromotionPlan, RecoverPromotionNothing, RecoverPromotionRefused, RecoverPrevious,
     RecoverCurrent, RecoverPromotionCommit, RecoverPromotionUnverified
<1> QED BY <1>1, <1>2

\* Every step.
LEMMA NextStores == ASSUME IInv, NeverGiven, [Next]_vars PROVE Stores
<1>1. ASSUME NEW q \in Proc, \/ \E cmd \in Commands : Start(q, cmd)
                             \/ Crash(q) \/ StepFails(q)
      PROVE  Stores
  BY <1>1, SameStores DEF Start, Crash, StepFails
<1>2. ASSUME NEW g \in Generation, Damage(g) PROVE Stores
  BY <1>2 DEF Damage, Stores, NeverGiven, Disk, IInv, TypeInv, TypeOK
<1>3. CASE UNCHANGED vars
  BY <1>3, SameStores DEF vars
<1> QED BY <1>1, <1>2, <1>3, InstallStores, DotfilesStores, PromotionStores DEF Next

\* Where its parts were given out, a system that verifies has always verified.
LEMMA VerifiedStays ==
    ASSUME IInv, KeepInv, Stores, InstallPending, Before' = Before, Verified'
    PROVE  Verified /\ Before \in System
<1>1. PICK s : s = Before
  OBVIOUS
<1>2. VerifySystemPath(disk', s)
  BY <1>1 DEF Verified
<1>3. s \in System /\ s # None /\ Manifest[s] \in SystemMeta
  BY <1>2, StoreAssumption DEF VerifySystemPath, Generation
<1>4. {s, Manifest[s].shell, Manifest[s].dotfiles, Manifest[s].helpers, Manifest[s].legacy} \cap fresh = {}
  BY <1>1, <1>3 DEF KeepInv, BeforeInv
<1>5. ASSUME NEW g \in {s, Manifest[s].shell, Manifest[s].dotfiles, Manifest[s].helpers, Manifest[s].legacy},
             Intact(disk', g)
      PROVE  Intact(disk, g)
  BY <1>4, <1>5 DEF Intact, Stores
<1>6. VerifySystemPath(disk, s)
  BY <1>2, <1>3, <1>5 DEF VerifySystemPath, IntactOrNone
<1> QED BY <1>1, <1>3, <1>6 DEF Verified

LEMMA BeforeStays ==
    ASSUME BeforeInv, Stores, InstallPending' => InstallPending /\ Before' = Before
    PROVE  BeforeInv'
BY DEF BeforeInv, Stores

\* What is not disturbed is still known.
LEMMA KeepStays ==
    ASSUME IInv, KeepInv, Stores, NEW p \in Proc, InstallPending,
           UNCHANGED <<install, promotion, ptr["system/current"], ptr["system/previous"], pc[p], reg[p]>>
    PROVE  KeepStep(p)'
<1>1. Before' = Before /\ KeepStep(p)
  BY DEF Before, KeepInv
<1>2. Verified' => Verified
  BY <1>1, VerifiedStays
<1> QED BY <1>1, <1>2 DEF KeepStep, Child, Unpromoted

\* A child of the installation has its lock.
LEMMA ChildInstalls ==
    ASSUME IInv, NEW p \in Proc, Child(p)
    PROVE  /\ Installer(p) /\ InstallPending /\ reg[p].cmd = "install" /\ reg[p].at \in 5 .. 9
           /\ pc[p] \notin Recovering
<1>1. ProcInv(p) /\ reg[p].at \in 1 .. 9
  BY DEF IInv, TypeInv, TypeOK
<1>2. reg[p].cmd = "install" /\ reg[p].at >= 5 /\ InstallPending
  BY <1>1 DEF Child, ProcInv, Position
<1>3. pc[p] \notin Recovering
  BY <1>1, <1>2 DEF Child, ProcInv, Position, InLine
<1> QED BY <1>1, <1>2, <1>3 DEF ProcInv, UnderInstallLock

LEMMA KeepOthers ==
    ASSUME IInv, KeepInv, NEW q \in Proc, Moves(q), Stores, NEW p \in Proc \ {q}
    PROVE  KeepStep(p)'
<1>1. pc'[p] = pc[p] /\ reg'[p] = reg[p] /\ p # None
  BY PlatformAssumption DEF Moves
<1>2. CASE ~Child(p)
  BY <1>1, <1>2 DEF KeepStep, Child
<1>3. CASE Child(p)
  <2>1. Installer(p) /\ InstallPending /\ ~Installer(q)
    BY <1>3, ChildInstalls DEF Installer
  <2>2. install' = install /\ Guarded' = Guarded
    BY <2>1 DEF Moves
  <2> QED BY <1>1, <2>1, <2>2, KeepStays DEF Guarded
<1> QED BY <1>2, <1>3

\* A step of q.
LEMMA KeepsStep ==
    ASSUME IInv, KeepInv, NEW q \in Proc, Moves(q), Stores,
           InstallPending' => InstallPending /\ Before' = Before, KeepStep(q)'
    PROVE  KeepInv'
BY KeepOthers, BeforeStays DEF KeepInv, NeverGiven, Stores

\* A process that is no child of an installation knows nothing.
LEMMA NoChildKeeps ==
    ASSUME IInv, KeepInv, NEW q \in Proc, Moves(q), Stores, ~Child(q)',
           InstallPending' => InstallPending /\ Before' = Before
    PROVE  KeepInv'
BY KeepsStep DEF KeepStep

\* The links, while the installation stays as it is.
LEMMA SameBefore == ASSUME UNCHANGED install PROVE InstallPending' => InstallPending /\ Before' = Before
BY DEF InstallPending, Before

\* A new phase of the installation is all that changes.
LEMMA PhaseBefore ==
    ASSUME IInv, InstallPending, NEW x \in {"PREPARED", "ACTIVE", "RECOVERING", "RECOVERED", "COMMITTED"},
           install' = [install EXCEPT !.phase = x]
    PROVE  Before' = Before /\ install'.links = install.links
<1>1. install'.links = install.links /\ install'.checkpoint = install.checkpoint
  BY SystemTyped DEF InstallJournal
<1> QED BY <1>1 DEF Before

-----------------------------------------------------------------------------
\* A command that goes on stays at its place in the command line.
SamePlace(q) ==
    reg'[q].cmd = reg[q].cmd /\ reg'[q].at = reg[q].at /\ reg'[q].token = reg[q].token
    /\ reg'[q].trap = reg[q].trap

LEMMA DotfilesPlace ==
    ASSUME IInv, NEW q \in Proc, DotfilesStep(q)
    PROVE  \/ Fail(q)
           \/ Done(q) /\ pc[q] \in {"recoverApplyCheck", "restoreThenDone", "rollbackVerify",
                                    "applyQuarantine"}
           \/ SamePlace(q)
<1>1. reg[q] \in Registers /\ reg \in [Proc -> Registers]
  BY DEF IInv, TypeInv
<1>2. CASE ApplyPlan(q)
  <2>1. PICK g, old, valid : reg' = [reg EXCEPT ![q].gen = g, ![q].old = old, ![q].valid = valid]
    BY <1>2 DEF ApplyPlan
  <2> QED BY <1>1, <2>1 DEF Registers, SamePlace
<1>3. CASE RollbackCurrent(q)
  <2>1. PICK old, previous : reg' = [reg EXCEPT ![q].old = old, ![q].previous = previous]
    BY <1>3 DEF RollbackCurrent
  <2> QED BY <1>1, <2>1 DEF Registers, SamePlace
<1>4. CASE RestoreDotfilesLink(q) \/ (ApplyRecovered(q) /\ pc[q] = "restoreThenPlan")
           \/ (RollbackUndo(q) /\ reg[q].i = 1)
  <2>1. PICK n : reg' = [reg EXCEPT ![q].i = n]
    BY <1>4 DEF RestoreDotfilesLink, ApplyRecovered, RollbackUndo
  <2> QED BY <1>1, <2>1 DEF Registers, SamePlace
<1>5. CASE \/ ApplyLock(q) \/ RecoverApplyLock(q) \/ RollbackLock(q) \/ ApplyPrevious(q) \/ ApplyCurrent(q)
           \/ ApplyVerify(q) \/ ApplyCommit(q) \/ RollbackPrevious(q)
  BY <1>5 DEF ApplyLock, RecoverApplyLock, RollbackLock, TakeLock, ApplyPrevious, ApplyCurrent,
     ApplyVerify, ApplyCommit, RollbackPrevious, SamePlace
<1>6. CASE \/ ApplyRefused(q) \/ ApplyBuildFails(q) \/ RecoverApplyRefused(q) \/ RollbackRefused(q)
           \/ (RollbackUndo(q) /\ reg[q].i # 1) \/ ApplyQuarantine(q) \/ RollbackVerify(q)
           \/ (ApplyRecovered(q) /\ pc[q] # "restoreThenPlan")
  BY <1>6 DEF ApplyRefused, ApplyBuildFails, RecoverApplyRefused, RollbackRefused, RollbackUndo,
     ApplyQuarantine, RollbackVerify, ApplyRecovered, Restoring, SamePlace
<1>7. CASE ApplyCheck(q) \/ ApplyUndo(q) \/ RecoverApply(q)
  <2>1. CASE reg' = reg
    BY <2>1 DEF SamePlace
  <2>2. CASE reg' # reg
    BY <1>7, <2>2 DEF ApplyCheck, ApplyUndo, RecoverApply, RecoverApplyLocked
  <2> QED BY <2>1, <2>2
<1> QED BY <1>2, <1>3, <1>4, <1>5, <1>6, <1>7 DEF DotfilesStep

\* An apply of the installation leaves it where nothing is promoted.
LEMMA DotfilesKeeps ==
    ASSUME IInv, IInv', KeepInv, NEW q \in Proc, Moves(q), DotfilesStep(q)
    PROVE  KeepInv'
<1>1. Stores /\ Quiet(q)
  BY DotfilesStores, DotfilesQuiet DEF KeepInv
<1>2. InstallPending' => InstallPending /\ Before' = Before
  BY <1>1, SameBefore DEF Quiet
<1>3. CASE ~Child(q)'
  BY <1>1, <1>2, <1>3, NoChildKeeps
<1>4. CASE Child(q)'
  <2>1. ProcInv(q) /\ ProcInv(q)' /\ KeepStep(q)
    BY DEF IInv, KeepInv
  <2>2. reg'[q].cmd = "install"
    BY <1>4, <2>1 DEF Child, ProcInv, Position
  <2>3. ~Fail(q)
    BY <1>4, FailAside DEF Aside
  <2>4. CASE SamePlace(q)
    <3>1. Child(q) /\ reg[q].cmd = "install"
      BY <1>4, <2>2, <2>4 DEF Child, SamePlace
    <3>2. reg[q].at = 6
      BY <2>1, <3>1 DEF DotfilesStep, ApplyLock, RecoverApplyLock, RollbackLock, TakeLock, ApplyCheck,
         ApplyUndo, RecoverApply, RecoverApplyLocked, ApplyRefused, ApplyPlan, ApplyBuildFails,
         ApplyPrevious, ApplyCurrent, ApplyVerify, ApplyCommit, ApplyQuarantine, RestoreDotfilesLink,
         ApplyRecovered, RecoverApplyRefused, RollbackCurrent, RollbackRefused, RollbackPrevious,
         RollbackVerify, RollbackUndo, ProcInv, Position, InLine, ApplyWork, RollbackWork, Restoring
    <3>3. /\ reg'[q].at = 6 /\ ptr["system/current"] = Before
      BY <2>1, <2>4, <3>1, <3>2 DEF SamePlace, KeepStep, Unpromoted
    <3>4. pc'[q] \notin {"promotePrevious", "promoteCurrent"} \cup Promoted
      BY <2>1, <2>2, <3>3 DEF ProcInv, Position, InLine, Promoted
    <3>5. KeepStep(q)'
      BY <1>1, <1>2, <3>3, <3>4, <3>1, ChildInstalls DEF KeepStep, Quiet, Special, Before
    <3> QED BY <1>1, <1>2, <3>5, KeepsStep
  <2>5. CASE ~SamePlace(q)
    <3>1. Done(q) /\ pc[q] \in {"recoverApplyCheck", "restoreThenDone", "rollbackVerify", "applyQuarantine"}
      BY <2>3, <2>5, DotfilesPlace
    <3>2. Child(q) /\ reg'[q].at = reg[q].at + 1
      BY <1>4, <3>1, DoneNext
    <3>3. reg[q].at = 6
      BY <2>1, <3>1, <3>2, ChildInstalls DEF ProcInv, Position, InLine, RollbackWork, ApplyWork
    <3>4. ptr["system/current"] = Before
      BY <2>1, <3>2, <3>3 DEF KeepStep, Unpromoted
    <3>5. pc'[q] \notin SystemHeld
      BY <3>1, DoneFrom DEF After
    <3>6. KeepStep(q)'
      BY <1>1, <3>4, <3>5 DEF KeepStep, Quiet, Special, Promoted, SystemHeld, PromotionWork, Before
    <3> QED BY <1>1, <1>2, <3>6, KeepsStep
  <2> QED BY <2>4, <2>5
<1> QED BY <1>3, <1>4

-----------------------------------------------------------------------------
\* The installer has selected Before when it comes to its promotion.
LEMMA InstallerPromotes ==
    ASSUME IInv, NEW p \in Proc, Child(p)
    PROVE  /\ pc[p] \in {"promote", "promoteCheck", "promotePrevious", "promoteCurrent", "promoteVerify",
                         "promoteCommit", "promoteUndo"} => reg[p].at = 7
           /\ pc[p] \notin {"recoverPromotion", "recoverPromotionCheck", "recoverPrevious",
                            "recoverCurrent", "recoverVerify"}
<1>1. ProcInv(p) /\ reg[p].cmd = "install"
  BY ChildInstalls DEF IInv
<1> QED BY <1>1, ChildInstalls DEF ProcInv, Position, InLine

\* Its plan records Before, if that verifies, and seals something else.
LEMMA PromotePlanKeeps ==
    ASSUME IInv, IInv', CoverInv, KeepInv, NEW q \in Proc, Moves(q), PromotePlan(q)
    PROVE  KeepInv'
<1>1. Stores /\ UNCHANGED <<ptr, install>> /\ pc[q] = "promoteCheck" /\ pc'[q] = "promotePrevious"
  BY PromotionStores DEF PromotionStep, KeepInv, PromotePlan, Goto, IInv, TypeInv
<1>2. PICK s \in Seals(q) :
        promotion' = [phase |-> "PREPARED", target |-> s,
                      beforeCurrent |-> Resolved("system/current"),
                      beforePrevious |-> Resolved("system/previous")]
  BY DEF PromotePlan
<1>3. InstallPending' => InstallPending /\ Before' = Before
  BY <1>1, SameBefore
<1>4. reg' = [reg EXCEPT ![q].valid = VerifySystemPath(disk, ptr["system/current"])]
  BY DEF PromotePlan
<1>5. SamePlace(q) /\ reg'[q].valid = VerifySystemPath(disk, ptr["system/current"])
  <2>1. PICK valid : valid = VerifySystemPath(disk, ptr["system/current"])
    OBVIOUS
  <2>2. reg' = [reg EXCEPT ![q].valid = valid]
    BY <1>4, <2>1
  <2>3. reg[q] \in Registers /\ reg \in [Proc -> Registers]
    BY DEF IInv, TypeInv
  <2>4. reg'[q].valid = valid
    BY <2>2, <2>3 DEF Registers
  <2>5. SamePlace(q)
    BY <2>2, <2>3 DEF Registers, SamePlace
  <2> QED BY <2>1, <2>4, <2>5
<1>6. KeepStep(q)'
  <2> SUFFICES ASSUME Child(q)' PROVE KeepStep(q)'
    BY DEF KeepStep
  <2>1. Child(q) /\ InstallPending /\ reg[q].at = 7
    BY <1>1, <1>5, ChildInstalls, InstallerPromotes DEF Child, SamePlace
  <2>2. ptr["system/current"] = Before /\ Before' = Before
    BY <1>1, <1>3, <2>1 DEF KeepInv, KeepStep, Unpromoted, InstallPending
  <2>3. promotion'.beforeCurrent = Before'
    <3>1. Live(ptr["system/current"])
      BY DEF CoverInv, SystemLive, LiveLinks
    <3> QED BY <1>2, <2>2, <3>1 DEF Live, Resolved
  <2>4. promotion'.target # Before'
    <3>1. s \in fresh /\ s \in System /\ s # None
      BY <1>2, StoreAssumption DEF Seals, Generation
    <3>2. Before # None => Before \notin fresh
      BY <2>1 DEF KeepInv, BeforeInv
    <3> QED BY <1>2, <2>2, <3>1, <3>2
  <2>5. Verified' => reg'[q].valid
    BY <1>1, <1>5, <2>1, <2>2, VerifiedStays DEF Verified
  <2>6. reg'[q].at = 7
    BY <1>5, <2>1 DEF SamePlace
  <2> QED BY <1>1, <2>3, <2>4, <2>5, <2>6 DEF KeepStep, Unpromoted, Promoted
<1> QED BY <1>1, <1>3, <1>6, KeepsStep

\* Its links: Before becomes the previous system, then the one sealed current.
LEMMA PromotionLinksKeep ==
    ASSUME IInv, IInv', KeepInv, NEW q \in Proc, Moves(q), PromotePrevious(q) \/ PromoteCurrent(q)
    PROVE  KeepInv'
<1>1. /\ Stores /\ UNCHANGED <<install, promotion, reg>> /\ ptr \in Pointers
      /\ InstallPending' => InstallPending /\ Before' = Before
  BY PromotionStores, SameBefore DEF PromotionStep, KeepInv, PromotePrevious, PromoteCurrent, journals,
     IInv, TypeInv, TypeOK
<1>2. KeepStep(q)'
  <2> SUFFICES ASSUME Child(q)' PROVE KeepStep(q)'
    BY DEF KeepStep
  <2>1. Child(q) /\ KeepStep(q)
    BY <1>1 DEF Child, KeepInv
  <2>2. reg[q].at = 7 /\ InstallPending /\ Before' = Before /\ (Verified' => Verified)
    <3>1. reg[q].at = 7 /\ InstallPending
      BY <2>1, ChildInstalls, InstallerPromotes DEF PromotePrevious, PromoteCurrent
    <3>2. Before' = Before
      BY <1>1 DEF Before
    <3> QED BY <1>1, <3>1, <3>2, VerifiedStays
  <2>3. CASE PromotePrevious(q)
    <3>1. /\ pc[q] = "promotePrevious" /\ pc'[q] = "promoteCurrent"
          /\ reg[q].valid => ptr'["system/previous"] = promotion.beforeCurrent
      BY <1>1, <2>3 DEF PromotePrevious, Goto, SetLink, Pointers, Link, IInv, TypeInv
    <3> QED BY <1>1, <2>1, <2>2, <3>1 DEF KeepStep, Unpromoted, Promoted
  <2>4. CASE PromoteCurrent(q)
    <3>1. /\ pc[q] = "promoteCurrent" /\ pc'[q] = "promoteVerify"
          /\ ptr'["system/current"] = promotion.target
          /\ ptr'["system/previous"] = ptr["system/previous"]
      BY <1>1, <2>4 DEF PromoteCurrent, Goto, SetLink, Pointers, Link, IInv, TypeInv
    <3> QED BY <1>1, <2>1, <2>2, <3>1 DEF KeepStep, Unpromoted, Promoted
  <2> QED BY <2>3, <2>4
<1> QED BY <1>1, <1>2, KeepsStep

\* On the way to the commit the links stay.
LEMMA PromotedStays ==
    ASSUME IInv, KeepInv, NEW q \in Proc, Moves(q), Stores,
           UNCHANGED <<install, ptr["system/current"], ptr["system/previous"]>>,
           Child(q)' => /\ Child(q) /\ pc[q] \in Promoted
                        /\ pc'[q] \notin {"activate", "activateLinks", "promote", "promoteCheck",
                                          "promotePrevious", "promoteCurrent"}
                        /\ reg'[q].at # 6
    PROVE  KeepInv'
<1>1. InstallPending' => InstallPending /\ Before' = Before
  BY SameBefore
<1>2. KeepStep(q)'
  <2> SUFFICES ASSUME Child(q)' PROVE KeepStep(q)'
    BY DEF KeepStep
  <2>1. InstallPending /\ Before' = Before
    BY ChildInstalls DEF Before
  <2>2. Verified' => Verified
    BY <2>1, VerifiedStays
  <2> QED BY <2>1, <2>2 DEF KeepInv, KeepStep, Unpromoted, Promoted
<1> QED BY <1>1, <1>2, KeepsStep

LEMMA PromotionKeeps ==
    ASSUME IInv, IInv', CoverInv, KeepInv, NEW q \in Proc, Moves(q), PromotionStep(q)
    PROVE  KeepInv'
<1>1. Stores /\ install' = install /\ (InstallPending' => InstallPending /\ Before' = Before)
  BY PromotionStores, PromotionMoves, SameBefore DEF KeepInv, Selecting
<1>2. CASE PromoteVerify(q)
  <2>1. /\ pc[q] = "promoteVerify" /\ pc'[q] \in {"promoteCommit", "promoteUndo"}
        /\ UNCHANGED <<ptr, reg>>
    BY <1>2 DEF PromoteVerify, Goto, IInv, TypeInv
  <2>2. Child(q)' => Child(q) /\ reg'[q].at # 6
    BY <2>1, InstallerPromotes DEF Child
  <2> QED BY <1>1, <2>1, <2>2, PromotedStays DEF Promoted
<1>3. CASE PromoteCommit(q)
  <2>1. pc[q] = "promoteCommit" /\ Done(q) /\ UNCHANGED ptr
    BY <1>3 DEF PromoteCommit
  <2>2. ASSUME Child(q)' PROVE Child(q) /\ reg'[q].at = 8 /\ reg'[q].cmd = "install"
    <3>1. Child(q) /\ reg'[q].at = reg[q].at + 1
      BY <2>1, <2>2, DoneNext
    <3>2. ProcInv(q)'
      BY DEF IInv
    <3> QED BY <2>1, <2>2, <3>1, <3>2, InstallerPromotes DEF Child, ProcInv, Position
  <2>3. ProcInv(q)'
    BY DEF IInv
  <2>4. Child(q)' => pc'[q] \notin {"activate", "activateLinks", "promote", "promoteCheck",
                                    "promotePrevious", "promoteCurrent"}
    BY <2>2, <2>3 DEF ProcInv, Position, InLine
  <2> QED BY <1>1, <2>1, <2>2, <2>4, PromotedStays DEF Promoted
<1>4. CASE PromoteCommitFails(q) \/ PromoteUndo(q)
  <2>1. CASE Fail(q)
    BY <1>1, <2>1, FailAside, NoChildKeeps DEF Aside
  <2>2. CASE ~Fail(q)
    <3>1. PICK n : reg' = reg \/ reg' = [reg EXCEPT ![q].i = n]
      BY <1>4, <2>2 DEF PromoteCommitFails, PromoteUndo
    <3>2. reg'[q].at = reg[q].at /\ reg'[q].token = reg[q].token /\ reg'[q].trap = reg[q].trap
      BY <3>1, PlaceStays
    <3>3. pc'[q] = "promoteUndo" /\ pc[q] \in {"promoteCommit", "promoteUndo"}
      BY <1>4, <2>2 DEF PromoteCommitFails, PromoteUndo, Goto, IInv, TypeInv
    <3>4. Child(q)' => reg'[q].at = 7
      BY <3>2, <3>3, InstallerPromotes DEF Child
    <3>5. KeepStep(q)'
      BY <3>3, <3>4 DEF KeepStep, Unpromoted, Promoted
    <3> QED BY <1>1, <3>5, KeepsStep
  <2> QED BY <2>1, <2>2
<1>5. CASE PromoteLock(q)
  <2>1. pc[q] = "promote" /\ pc'[q] = "promoteCheck" /\ UNCHANGED <<ptr, reg, promotion>>
    BY <1>5 DEF PromoteLock, TakeLock, Goto, journals, IInv, TypeInv
  <2>2. KeepStep(q)'
    BY <1>1, <2>1, ChildInstalls DEF KeepInv, KeepStep, Child, Unpromoted, Promoted, Before
  <2> QED BY <1>1, <2>2, KeepsStep
<1>6. CASE PromoteRefused(q) \/ RecoverPromotionRefused(q) \/ RecoverPromotionUnverified(q)
  <2>1. Fail(q)
    BY <1>6 DEF PromoteRefused, RecoverPromotionRefused, RecoverPromotionUnverified
  <2> QED BY <1>1, <2>1, FailAside, NoChildKeeps DEF Aside
<1>7. CASE \/ RecoverPromotionLock(q) \/ RecoverPromotionPlan(q) \/ RecoverPromotionNothing(q)
           \/ RecoverPrevious(q) \/ RecoverCurrent(q) \/ RecoverPromotionCommit(q)
  <2>1. pc[q] \in {"recoverPromotion", "recoverPromotionCheck", "recoverPrevious", "recoverCurrent",
                   "recoverVerify"}
    BY <1>7 DEF RecoverPromotionLock, TakeLock, RecoverPromotionPlan, RecoverPromotionNothing,
       RecoverPrevious, RecoverCurrent, RecoverPromotionCommit
  <2>2. ~Child(q)
    BY <2>1, InstallerPromotes
  <2>3. Done(q) \/ \E valid : reg' = reg \/ reg' = [reg EXCEPT ![q].valid = valid]
    BY <1>7 DEF RecoverPromotionLock, TakeLock, RecoverPromotionPlan, RecoverPromotionNothing,
       RecoverPrevious, RecoverCurrent, RecoverPromotionCommit
  <2>4. ~Child(q)'
    BY <2>2, <2>3, DoneNext, PlaceStays DEF Child
  <2> QED BY <1>1, <2>4, NoChildKeeps
<1> QED BY <1>2, <1>3, <1>4, <1>5, <1>6, <1>7, PromotePlanKeeps, PromotionLinksKeep DEF PromotionStep

-----------------------------------------------------------------------------
\* begin() finds a system that verifies, or none, or makes a checkpoint of it.
LEMMA BeginKeeps ==
    ASSUME IInv, IInv', CoverInv, KeepInv, NEW q \in Proc, Moves(q), Begin(q)
    PROVE  KeepInv'
<1>1. /\ ~InstallPending /\ UNCHANGED ptr /\ Stores
      /\ Exists(disk, ptr["system/current"]) => VerifySystemPath(disk, ptr["system/current"])
      /\ fresh' \subseteq fresh
  BY InstallStores DEF InstallStep, KeepInv, Begin, BeginAllowed, Current
<1>2. \A g \in Generation : disk[g] = "intact" => g \notin fresh
  BY DEF KeepInv, NeverGiven
<1>3. PICK s : s = ptr["system/current"]
  OBVIOUS
<1>4. s # None => s \in System /\ Exists(disk, s) /\ VerifySystemPath(disk, s)
  BY <1>1, <1>3, LinksTyped DEF CoverInv, SystemLive, LiveLinks, Live
<1>5. Manifest \in [System -> SystemMeta] /\ None \notin Generation
  BY StoreAssumption
<1>6. BeforeInv'
  <2>1. CASE NeedsCheckpoint
    <3>1. PICK c \in Checkpoints :
            /\ install' = BeginJournal(q, c, Manifest[c].helpers)
            /\ fresh' = fresh \ {c, Manifest[c].helpers}
      BY <2>1 DEF Begin
    <3>2. /\ c \in System /\ c # None /\ Manifest[c].helpers \in fresh /\ Manifest[c].helpers # None
          /\ Manifest[c].legacy = s /\ Manifest[c].shell = Manifest[s].shell
          /\ Manifest[c].dotfiles = Manifest[s].dotfiles
      BY <1>3, <1>5, <3>1 DEF Checkpoints, Generation, IInv, TypeInv, TypeOK
    <3>3. Before' = c
      BY <3>1, <3>2 DEF BeginJournal, Before
    <3>4. s \in System /\ VerifySystemPath(disk, s)
      BY <1>3, <1>4, <1>5, <2>1 DEF NeedsCheckpoint, Exists
    <3>5. {s, Manifest[s].shell, Manifest[s].dotfiles} \cap fresh = {}
      BY <1>2, <3>4 DEF VerifySystemPath, Intact
    <3> QED BY <1>1, <3>1, <3>2, <3>3, <3>5 DEF BeforeInv
  <2>2. CASE ~NeedsCheckpoint
    <3>1. install' = BeginJournal(q, None, None)
      BY <2>2 DEF Begin
    <3>2. Before' = s
      BY <1>3, <3>1 DEF BeginJournal, Before
    <3>3. ASSUME s # None PROVE Manifest[s].helpers # None
      BY <1>3, <1>4, <2>2, <3>3 DEF NeedsCheckpoint
    <3>4. ASSUME s # None
          PROVE  {s, Manifest[s].shell, Manifest[s].dotfiles, Manifest[s].helpers,
                  Manifest[s].legacy} \cap fresh = {}
      <4>1. VerifySystemPath(disk, s) /\ Manifest[s].helpers # None
        BY <1>4, <3>3, <3>4
      <4>2. /\ {s, Manifest[s].shell, Manifest[s].dotfiles, Manifest[s].helpers} \cap fresh = {}
            /\ Manifest[s].legacy # None => Manifest[s].legacy \notin fresh
        BY <1>2, <4>1 DEF VerifySystemPath, Intact, IntactOrNone
      <4>3. None \notin fresh
        BY <1>5 DEF IInv, TypeInv, TypeOK
      <4> QED BY <4>2, <4>3
    <3> QED BY <1>1, <3>2, <3>3, <3>4 DEF BeforeInv
  <2> QED BY <2>1, <2>2
<1>7. install'.links["system/current"] = s
  <2>1. PICK c, h : install' = BeginJournal(q, c, h)
    BY DEF Begin
  <2> QED BY <1>3, <2>1 DEF BeginJournal
<1>8. KeepStep(q)'
  <2> SUFFICES ASSUME Child(q)' PROVE KeepStep(q)'
    BY DEF KeepStep
  <2>1. InLine(reg[q], "install", 4) /\ reg[q] \in Registers
    BY DEF Begin, IInv, ProcInv, Position, TypeInv
  <2>2. pc'[q] \in {"idle", "activate"}
    <3>1. PICK r : r = [reg[q] EXCEPT !.token = TRUE]
      OBVIOUS
    <3>2. r.cmd = "install" /\ r.at + 1 = 5 /\ DoneWith(q, r)
      BY <2>1, <3>1 DEF InLine, Registers, Begin
    <3>3. Program[r.cmd][r.at + 1] = "activate"
      BY <3>2, Programs
    <3> QED BY <3>2, <3>3 DEF DoneWith, Quit, Enter, Goto, IInv, TypeInv
  <2>3. ProcInv(q)'
    BY DEF IInv
  <2>4. pc'[q] = "activate" /\ reg'[q].at = 5
    BY <2>2, <2>3 DEF ProcInv, Position, NoReg, Child, InLine
  <2> QED BY <1>1, <1>3, <1>7, <2>4 DEF KeepStep, Unpromoted, Promoted
<1> QED BY <1>1, <1>6, <1>8, KeepOthers DEF KeepInv, NeverGiven, Stores

\* activate() selects the checkpoint, where there is one.
LEMMA ActivateKeeps ==
    ASSUME IInv, IInv', KeepInv, NEW q \in Proc, Moves(q), Activate(q) \/ ActivateLink(q)
    PROVE  KeepInv'
<1>1. /\ Stores /\ InstallPending /\ ptr \in Pointers /\ KeepStep(q) /\ ProcInv(q) /\ ProcInv(q)'
      /\ pc[q] \in {"activate", "activateLinks"}
  BY InstallStores, InstallerSteps DEF InstallStep, KeepInv, Activate, ActivateLink, IInv, TypeInv, TypeOK
<1>2. Child(q) /\ reg[q].at = 5
  BY <1>1 DEF ProcInv, Position, InLine, Child, Recovering
<1>3. CASE Activate(q)
  <2>1. /\ Before' = Before /\ install'.links = install.links
    BY <1>1, <1>3, PhaseBefore DEF Activate
  <2>2. /\ pc[q] = "activate" /\ pc'[q] = "activateLinks" /\ UNCHANGED <<ptr, reg>>
    BY <1>3 DEF Activate, Goto, IInv, TypeInv
  <2>3. reg[q].i = 1
    BY <1>1, <2>2 DEF ProcInv, Count, Restoring
  <2>4. KeepStep(q)'
    BY <1>1, <1>2, <2>1, <2>2, <2>3 DEF KeepStep, Unpromoted, Promoted
  <2> QED BY <1>1, <2>1, <2>4, KeepsStep
<1>4. CASE ActivateLink(q)
  <2>1. pc[q] = "activateLinks" /\ UNCHANGED <<disk, install, promotion>>
    BY <1>4 DEF ActivateLink, journals
  <2>2. PICK i : i = reg[q].i
    OBVIOUS
  <2>3. i \in 1 .. 5
    BY <1>1, <2>1, <2>2 DEF ProcInv, Count
  <2>4. ptr'["system/current"] = Before
    <3>1. PICK l, value : l = ActivateOrder[i] /\ value \in ActivateValues(l) /\ SetLink(l, value)
      BY <1>4, <2>2 DEF ActivateLink
    <3>2. SetLink(l, value)
      BY <3>1
    <3>3. CASE i = 1
      <4>1. l = "system/current"
        BY <3>1, <3>3 DEF ActivateOrder
      <4>2. value = Before
        BY <1>1, <1>2, <2>1, <2>2, <3>1, <3>3, <4>1 DEF ActivateValues, Before, KeepStep
      <4> QED BY <1>1, <3>2, <4>1, <4>2 DEF SetLink, Pointers, Link
    <3>4. CASE i # 1
      <4>1. l # "system/current"
        <5>1. i = 2 \/ i = 3 \/ i = 4 \/ i = 5
          BY <2>3, <3>4
        <5> QED BY <3>1, <5>1 DEF ActivateOrder
      <4>2. ptr["system/current"] = Before
        <5>1. i > 1
          BY <2>3, <3>4
        <5> QED BY <1>1, <1>2, <2>1, <2>2, <5>1 DEF KeepStep, Unpromoted
      <4> QED BY <1>1, <3>2, <4>1, <4>2 DEF SetLink, Pointers, Link
    <3> QED BY <3>3, <3>4
  <2>5. KeepStep(q)'
    <3> SUFFICES ASSUME Child(q)' PROVE KeepStep(q)'
      BY DEF KeepStep
    <3>1. Before' = Before
      BY <2>1 DEF Before
    <3>2. CASE Done(q)
      <4>1. reg'[q].at = 6
        BY <1>2, <3>2, DoneNext
      <4>2. pc'[q] \notin SystemHeld \cup {"activateLinks"}
        BY <2>1, <3>2, DoneFrom DEF After
      <4>3. pc'[q] \notin {"activate", "verify", "commit"}
        BY <1>1, <4>1 DEF ProcInv, Position, InLine
      <4> QED BY <2>4, <3>1, <4>1, <4>2, <4>3 DEF KeepStep, Promoted, SystemHeld, PromotionWork
    <3>3. CASE ~Done(q)
      <4>1. reg' = [reg EXCEPT ![q].i = @ + 1] /\ pc' = pc
        BY <1>4, <3>3 DEF ActivateLink
      <4>2. reg'[q].i = i + 1 /\ reg[q] \in Registers
        BY <2>2, <4>1 DEF IInv, TypeInv, Registers
      <4>3. reg'[q].i # 1
        BY <2>3, <4>2
      <4> QED BY <2>1, <2>4, <3>1, <4>1, <4>3 DEF KeepStep, Promoted
    <3> QED BY <3>2, <3>3
  <2> QED BY <1>1, <2>1, <2>5, SameBefore, KeepsStep
<1> QED BY <1>3, <1>4

\* The steps of a recovery, and of a process that has not begun.
LEMMA RecoverKeeps ==
    ASSUME IInv, IInv', KeepInv, NEW q \in Proc, Moves(q),
           RecoverInstall(q) \/ RestoreTarget(q) \/ InstallRecovered(q)
    PROVE  KeepInv'
<1>1. Stores /\ pc[q] \in Recovering /\ ~Child(q)
  BY InstallStores, RecovererAside
     DEF InstallStep, KeepInv, RecoverInstall, RestoreTarget, InstallRecovered, Recovering
<1>2. ~Child(q)'
  <2>1. CASE Done(q)
    BY <1>1, <2>1, DoneNext
  <2>2. CASE ~Done(q)
    <3>1. PICK n : reg' = reg \/ reg' = [reg EXCEPT ![q].i = n]
      BY <2>2 DEF RecoverInstall, RestoreTarget, InstallRecovered
    <3> QED BY <1>1, <3>1, PlaceStays DEF Child
  <2> QED BY <2>1, <2>2
<1>3. InstallPending' => InstallPending /\ Before' = Before
  <2>1. CASE install' = install
    BY <2>1, SameBefore
  <2>2. CASE install' # install
    <3>1. InstallPending
      BY <2>2, InstallerSteps DEF RecoverInstall, RestoreTarget, InstallRecovered
    <3>2. PICK x \in {"RECOVERING", "RECOVERED"} : install' = [install EXCEPT !.phase = x]
      BY <2>2 DEF RecoverInstall, RestoreTarget, InstallRecovered
    <3> QED BY <3>1, <3>2, PhaseBefore
  <2> QED BY <2>1, <2>2
<1> QED BY <1>1, <1>2, <1>3, NoChildKeeps

LEMMA InstallKeeps ==
    ASSUME IInv, IInv', CoverInv, KeepInv, NEW q \in Proc, Moves(q), InstallStep(q)
    PROVE  KeepInv'
<1>1. Stores
  BY InstallStores DEF KeepInv
<1>2. CASE Stage(q) \/ TryInstallLock(q) \/ BuildPrevious(q) \/ BuildCurrent(q)
  <2>1. install' = install
    BY <1>2 DEF Stage, TryInstallLock, BuildPrevious, BuildCurrent, journals
  <2>2. ~Child(q)'
    BY <1>2, StageAside DEF Aside
  <2> QED BY <1>1, <2>1, <2>2, SameBefore, NoChildKeeps
<1>3. CASE \/ StageFails(q) \/ BeginRefused(q) \/ ActivateRefused(q) \/ CommitRefused(q)
           \/ BuildRefused(q)
  <2>1. Fail(q) /\ install' = install
    BY <1>3 DEF StageFails, BeginRefused, ActivateRefused, CommitRefused, BuildRefused, journals
  <2>2. ~Child(q)'
    BY <2>1, FailAside DEF Aside
  <2> QED BY <1>1, <2>1, <2>2, SameBefore, NoChildKeeps
<1>4. CASE VerifyInstalled(q)
  <2>1. pc[q] = "verify" /\ UNCHANGED <<ptr, install>>
    BY <1>4 DEF VerifyInstalled, journals
  <2>2. CASE Fail(q)
    <3>1. ~Child(q)'
      BY <2>2, FailAside DEF Aside
    <3> QED BY <1>1, <2>1, <3>1, SameBefore, NoChildKeeps
  <2>3. CASE ~Fail(q)
    <3>1. Done(q)
      BY <1>4, <2>3 DEF VerifyInstalled
    <3>2. ASSUME Child(q)' PROVE Child(q) /\ reg'[q].at = 9
      <4>1. Child(q) /\ reg'[q].at = reg[q].at + 1
        BY <3>1, <3>2, DoneNext
      <4>2. reg[q].at = 8
        BY <2>1 DEF IInv, ProcInv, Position, InLine
      <4> QED BY <4>1, <4>2
    <3>3. ProcInv(q)'
      BY DEF IInv
    <3>4. Child(q)' => pc'[q] \notin {"activate", "activateLinks", "promote", "promoteCheck",
                                      "promotePrevious", "promoteCurrent"}
      BY <3>2, <3>3 DEF ProcInv, Position, InLine
    <3> QED BY <1>1, <2>1, <3>2, <3>4, PromotedStays DEF Promoted
  <2> QED BY <2>2, <2>3
<1>5. CASE Commit(q)
  <2>1. pc[q] = "commit" /\ Quit(q) /\ install' = [install EXCEPT !.phase = "COMMITTED"]
    BY <1>5 DEF Commit
  <2>2. InstallPending /\ ~Child(q)'
    BY <2>1, InstallerSteps, FailAside DEF Aside
  <2> QED BY <1>1, <2>1, <2>2, PhaseBefore, NoChildKeeps
<1> QED BY <1>2, <1>3, <1>4, <1>5, BeginKeeps, ActivateKeeps, RecoverKeeps DEF InstallStep

\* A step that reports an error ends its call, or undoes what is not promoted.
LEMMA StepFailsKeeps ==
    ASSUME IInv, IInv', KeepInv, NEW q \in Proc, Moves(q), StepFails(q)
    PROVE  KeepInv'
<1>1. Stores /\ UNCHANGED <<ptr, install>>
  BY SameStores DEF StepFails, journals, KeepInv
<1>2. InstallPending' => InstallPending /\ Before' = Before
  BY <1>1, SameBefore
<1>3. CASE ErrorPath(pc[q]) = "fail"
  <2>1. ~Child(q)'
    BY <1>3, FailAside DEF StepFails, Aside
  <2> QED BY <1>1, <1>2, <2>1, NoChildKeeps
<1>4. CASE ErrorPath(pc[q]) # "fail"
  <2>1. Goto(q, ErrorPath(pc[q])) /\ reg' = reg
    BY <1>4 DEF StepFails
  <2>2. pc'[q] \in {"applyUndo", "rollbackUndo", "promoteUndo"}
    BY <1>4, <2>1 DEF ErrorPath, DotfilesErrorPath, PromotionErrorPath, Goto, IInv, TypeInv
  <2>3. KeepStep(q)'
    <3> SUFFICES ASSUME Child(q)', Unpromoted(q)' PROVE ptr'["system/current"] = Before'
      BY <2>2 DEF KeepStep, Promoted
    <3>1. Child(q) /\ reg[q].at = 6
      BY <2>1, <2>2 DEF Child, Unpromoted
    <3>2. ptr["system/current"] = Before
      BY <3>1 DEF KeepInv, KeepStep, Unpromoted
    <3> QED BY <1>1, <3>2 DEF Before
  <2> QED BY <1>1, <1>2, <2>3, KeepsStep
<1> QED BY <1>3, <1>4

\* Every step.
LEMMA NextKeeps == ASSUME IInv, CoverInv, KeepInv, [Next]_vars PROVE KeepInv'
<1>1. Stores /\ IInv'
  BY NextStores, NextIInv DEF KeepInv
<1>2. ASSUME NEW q \in Proc, NEW cmd \in Commands, Start(q, cmd) PROVE KeepInv'
  <2>1. Moves(q) /\ ~Child(q)' /\ install' = install
    BY <1>2, StartStep, StartAside DEF Start, journals, Aside
  <2> QED BY <1>1, <2>1, SameBefore, NoChildKeeps
<1>3. ASSUME NEW q \in Proc, InstallStep(q) \/ DotfilesStep(q) \/ PromotionStep(q) PROVE KeepInv'
  BY <1>1, <1>3, InstallStepKeeps, DotfilesStepKeeps, PromotionStepKeeps, InstallKeeps, DotfilesKeeps,
     PromotionKeeps
<1>4. ASSUME NEW q \in Proc, Crash(q) PROVE KeepInv'
  <2>1. Moves(q) /\ ~Child(q)' /\ install' = install
    BY <1>4, CrashStep, FailAside DEF Crash, journals, Aside
  <2> QED BY <1>1, <2>1, SameBefore, NoChildKeeps
<1>5. ASSUME NEW q \in Proc, StepFails(q) PROVE KeepInv'
  BY <1>1, <1>5, StepFailsStep, StepFailsKeeps
<1>6. ASSUME UNCHANGED <<ptr, fresh, journals, local>> PROVE KeepInv'
  <2>1. UNCHANGED <<ptr, install, promotion, pc, reg>>
    BY <1>6 DEF journals, local
  <2>2. BeforeInv' /\ NeverGiven'
    BY <1>1, <2>1, SameBefore, BeforeStays DEF KeepInv, Stores, NeverGiven
  <2>3. ASSUME NEW p \in Proc PROVE KeepStep(p)'
    <3>1. CASE Child(p)
      BY <1>1, <2>1, <3>1, ChildInstalls, KeepStays
    <3>2. CASE ~Child(p)
      BY <2>1, <3>2 DEF KeepStep, Child
    <3> QED BY <3>1, <3>2
  <2> QED BY <2>2, <2>3 DEF KeepInv
<1>7. ASSUME NEW g \in Generation, Damage(g) PROVE KeepInv'
  BY <1>6, <1>7 DEF Damage
<1>8. CASE UNCHANGED vars
  BY <1>6, <1>8 DEF vars
<1> QED BY <1>2, <1>3, <1>4, <1>5, <1>7, <1>8 DEF Next

\* Nobody has begun, and what is still to be given out is not on the disk.
LEMMA InitKeeps == InitState => KeepInv
<1> SUFFICES ASSUME InitState PROVE KeepInv
  OBVIOUS
<1>1. NeverGiven
  BY DEF InitState, NeverGiven
<1>2. ~InstallPending
  BY DEF InitState, InstallPending, NoJournal
<1>3. ASSUME NEW p \in Proc PROVE KeepStep(p)
  BY NoRegTyped DEF InitState, KeepStep, Child
<1> QED BY <1>1, <1>2, <1>3 DEF KeepInv, BeforeInv

\* What a commit leaves, unprimed.
CanRollBack ==
    /\ Current(disk, ptr)
    /\ ptr["shell/current"] = install.shell
    /\ ptr["helpers/current"] = install.helpers
    /\ Verified => ptr["system/previous"] = Before /\ PlanRollback(disk, ptr)

\* Only a commit makes an active installation a committed one.
LEMMA CommitsOnly ==
    ASSUME IInv, [Next]_vars, install.phase = "ACTIVE", install'.phase = "COMMITTED"
    PROVE  \E q \in Proc : Commit(q)
<1>1. install' # install /\ InstallPending
  BY DEF InstallPending
<1>2. PICK q \in Proc : InstallStep(q)
  <2>1. ASSUME NEW q \in Proc, \/ \E cmd \in Commands : Start(q, cmd)
                               \/ DotfilesStep(q) \/ PromotionStep(q) \/ Crash(q) \/ StepFails(q)
        PROVE  install' = install
    BY <2>1, DotfilesQuiet, PromotionMoves DEF Start, Crash, StepFails, journals, Quiet, Selecting
  <2>2. (\E g \in Generation : Damage(g)) \/ UNCHANGED vars => install' = install
    BY DEF Damage, vars, journals
  <2> QED BY <1>1, <2>1, <2>2 DEF Next
<1>3. CASE Activate(q) \/ RecoverInstall(q) \/ InstallRecovered(q)
  <2>1. PICK x \in {"ACTIVE", "RECOVERING", "RECOVERED"} : install' = [install EXCEPT !.phase = x]
    BY <1>1, <1>3 DEF Activate, RecoverInstall, InstallRecovered
  <2>2. install \in InstallJournal
    BY <1>1, SystemTyped
  <2>3. install'.phase = x
    BY <2>1, <2>2, PhaseTyped
  <2> QED BY <2>1, <2>3
<1>4. CASE ~(Activate(q) \/ RecoverInstall(q) \/ InstallRecovered(q) \/ Commit(q))
  BY <1>1, <1>2, <1>4
     DEF InstallStep, Stage, StageFails, TryInstallLock, RestoreTarget, Begin, BeginAllowed, BeginRefused,
         ActivateRefused, ActivateLink, VerifyInstalled, CommitRefused, BuildPrevious, BuildRefused,
         BuildCurrent, journals
<1> QED BY <1>3, <1>4

LEMMA CommitFinds ==
    ASSUME IInv, KeepInv, NEW q \in Proc, Commit(q)
    PROVE  CanRollBack
<1>1. pc[q] = "commit" /\ InstallPending
  BY InstallerSteps DEF Commit
<1>2. Child(q)
  BY <1>1 DEF Child, IInv, ProcInv, Position, InLine, Recovering
<1>3. /\ Current(disk, ptr)
      /\ ptr["shell/current"] = install.shell
      /\ ptr["helpers/current"] = install.helpers
      /\ Manifest[ptr["system/current"]].helpers = install.helpers
  BY DEF Commit, CommitAllowed, Current, Coherent
<1>4. Verified => ptr["system/previous"] = Before
  BY <1>1, <1>2 DEF KeepInv, KeepStep, Promoted
<1>5. ptr["system/current"] # Before
  BY <1>1, <1>2 DEF KeepInv, KeepStep, Promoted
<1>6. ASSUME Verified PROVE PlanRollback(disk, ptr)
  <2>1. Manifest[ptr["system/current"]].helpers # None
    <3>1. install \in InstallJournal
      BY <1>1, SystemTyped
    <3>2. install.helpers \in Helpers
      BY <3>1 DEF InstallJournal
    <3> QED BY <1>3, <3>2, StoreAssumption DEF Generation
  <2>2. Manifest[Before].helpers # None
    BY <1>1, <1>6, StoreAssumption DEF KeepInv, BeforeInv, Verified, VerifySystemPath, Generation
  <2> QED BY <1>3, <1>4, <1>5, <1>6, <2>1, <2>2
          DEF PlanRollback, Previous, SameSchema, Verified
<1> QED BY <1>3, <1>4, <1>6 DEF CanRollBack

-----------------------------------------------------------------------------
\* An installation that commits is whole, and the system it replaced, or the
\* checkpoint made from a schema-1 one, is still what a rollback returns to if
\* it verifies: whatever was started, crashed, failed or was damaged beside it.
THEOREM CommitsCanRollBack == Spec => CommitKeepsRollback
<1>1. InitState => IInv /\ CoverInv /\ KeepInv
  BY InitIInv, InitCovers, InitKeeps
<1>2. (IInv /\ CoverInv /\ KeepInv) /\ [Next]_vars => (IInv /\ CoverInv /\ KeepInv)'
  BY NextIInv, NextCovers, NextKeeps
<1>3. ASSUME IInv, KeepInv, [Next]_vars
      PROVE  [install.phase = "ACTIVE" /\ install'.phase = "COMMITTED" =>
                /\ Current(disk, ptr)
                /\ ptr["shell/current"] = install.shell
                /\ ptr["helpers/current"] = install.helpers
                /\ LET before == IF install.checkpoint # None THEN install.checkpoint
                                 ELSE install.links["system/current"]
                   IN  VerifySystemPath(disk, before)
                         => ptr["system/previous"] = before /\ PlanRollback(disk, ptr)]_vars
  <2> SUFFICES ASSUME install.phase = "ACTIVE", install'.phase = "COMMITTED"
               PROVE  CanRollBack
    BY DEF CanRollBack, Verified, Before
  <2>1. PICK q \in Proc : Commit(q)
    BY <1>3, CommitsOnly
  <2> QED BY <1>3, <2>1, CommitFinds
<1> QED BY <1>1, <1>2, <1>3, PTL DEF Spec, CommitKeepsRollback
=============================================================================
