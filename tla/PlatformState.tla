---------------------------- MODULE PlatformState ----------------------------
(***************************************************************************)
(* What the commands of cortetsu-platform share: the eight links, the      *)
(* generations on disk, three durable journals and the file locks.         *)
(*                                                                         *)
(* Each process of Proc runs one command line at a time.  A command is a   *)
(* sequence of subcommands (Program); the ones of the installer and of     *)
(* `cortetsu recover' run under install.lock, which the script takes and   *)
(* every subcommand inherits.  The files a transaction saves besides the   *)
(* links (launchers, dotfile targets, theme files) follow the same         *)
(* snapshot and restore as the links and are left out.                     *)
(***************************************************************************)
EXTENDS GenerationStore, Sequences

CONSTANTS
    Proc,        \* processes that run commands
    Commands,    \* the commands they run, among DOMAIN Program
    Installed,   \* the pointer snapshots an earlier installation may have left
    MaxFaults,   \* bound on crashes and I/O errors
    MaxDamaged   \* bound on generations damaged at the same time

VARIABLES
    ptr,        \* the eight symbolic links
    disk,       \* status of every generation
    fresh,      \* ids unique() has not yet given to a generation
    install,    \* install-journal.json
    apply,      \* dotfiles/apply-journal.json
    promotion,  \* system/promotion-journal.json
    lock,       \* install.lock, system.lock and dotfiles.lock
    pc,         \* the next step of each process
    reg,        \* local variables of each process
    faults      \* crashes and I/O errors so far

journals == <<install, apply, promotion>>
local    == <<lock, pc, reg>>
vars     == <<ptr, disk, fresh, journals, local, faults>>

-----------------------------------------------------------------------------
NoJournal == [phase |-> "NONE"]

\* Snapshots keep the link text, which may dangle; resolved values may be None.
ApplyJournal ==
    [phase : {"PREPARED", "RECOVERING", "RECOVERED", "COMMITTED"},
     current : Dotfiles \cup {None}, previous : Dotfiles \cup {None}, generation : Dotfiles]

PromotionJournal ==
    [phase : {"PREPARED", "COMMITTED", "RECOVERED"}, target : System,
     beforeCurrent : System \cup {None}, beforePrevious : System \cup {None}]

InstallJournal ==
    [phase : {"PREPARED", "ACTIVE", "RECOVERING", "RECOVERED", "COMMITTED"},
     links : Pointers,
     apply : ApplyJournal \cup {NoJournal},
     promotion : PromotionJournal \cup {NoJournal},
     shell : Shell, helpers : Helpers,
     checkpoint : System \cup {None}, legacyHelpers : Helpers \cup {None}]

\* Mutant of InstallPending: a recovery that was interrupted is not resumed.
InstallPendingNotRecovering == install.phase \in {"PREPARED", "ACTIVE"}

InstallPending == install.phase \in {"PREPARED", "ACTIVE", "RECOVERING"}

ApplyPending == apply.phase \in {"PREPARED", "RECOVERING"}

PromotionPending == promotion.phase = "PREPARED"

-----------------------------------------------------------------------------
\* The subcommands of a command, each named by its first step.
Program ==
    [install  |-> <<"stage", "tryInstallLock", "recoverInstall", "begin", "activate",
                    "applyDotfiles", "promote", "verify", "commit">>,
     recover  |-> <<"tryInstallLock", "recoverInstall", "recoverApply", "recoverPromotion">>,
     apply    |-> <<"applyDotfiles">>,
     promote  |-> <<"promote">>,
     rollback |-> <<"rollbackDotfiles">>,
     build    |-> <<"buildRuntime">>,
     recoverDotfiles |-> <<"recoverApply">>,
     recoverSystem   |-> <<"recoverPromotion">>]

ASSUME PlatformAssumption ==
    /\ None \notin Proc
    /\ Commands \subseteq DOMAIN Program
    /\ Installed \subseteq Pointers
    /\ MaxFaults \in Nat
    /\ MaxDamaged \in Nat

LockFile == {"install", "system", "dotfiles"}

\* token: CORTETSU_INSTALL_TRANSACTION is the id in the install journal;
\* trap: the EXIT trap of the installer is running; the others are the local
\* variables of the subcommand.
NoReg == [cmd |-> None, at |-> 1, token |-> FALSE, trap |-> FALSE,
          shell |-> None, helpers |-> None,
          old |-> None, previous |-> None, gen |-> None, valid |-> FALSE, i |-> 1]

Goto(p, step) == pc' = [pc EXCEPT ![p] = step]

Release(p, files) ==
    lock' = [f \in LockFile |-> IF f \in files /\ lock[f] = p THEN None ELSE lock[f]]

Quit(p) ==
    /\ Goto(p, "idle")
    /\ Release(p, LockFile)
    /\ reg' = [reg EXCEPT ![p] = NoReg]

\* A subcommand starts with fresh locals; only what the script keeps survives.
Enter(p, step, r) ==
    /\ Goto(p, step)
    /\ Release(p, {"system", "dotfiles"})
    /\ reg' = [reg EXCEPT ![p] = [NoReg EXCEPT !.cmd = r.cmd, !.at = r.at, !.token = r.token,
                                               !.trap = r.trap, !.shell = r.shell,
                                               !.helpers = r.helpers]]

\* The subcommand succeeds: on to the next one of the script.
DoneWith(p, r) ==
    LET at == r.at + 1
    IN  IF r.trap \/ at > Len(Program[r.cmd])
          THEN Quit(p)
          ELSE Enter(p, Program[r.cmd][at], [r EXCEPT !.at = at])

Done(p) == DoneWith(p, reg[p])

\* The subcommand fails: `set -e' ends the script, whose EXIT trap recovers
\* once the installer has a transaction of its own.
Fail(p) ==
    IF reg[p].token /\ ~reg[p].trap
      THEN Enter(p, "recoverInstall", [reg[p] EXCEPT !.trap = TRUE])
      ELSE Quit(p)

\* install::check_mutation: a pending installation admits only its own children.
CheckMutation(p) == InstallPending => reg[p].token

\* resolve_link: a link that dangles reads as no link at all.
Resolved(l) == IF Exists(disk, ptr[l]) THEN ptr[l] ELSE None

\* util::lock(path, false) waits.
TakeLock(p, from, file, to) ==
    /\ pc[p] = from
    /\ lock[file] = None
    /\ lock' = [lock EXCEPT ![file] = p]
    /\ Goto(p, to)
    /\ UNCHANGED <<ptr, disk, fresh, journals, reg, faults>>

\* atomic_link / restore_link: one rename, made durable.
SetLink(l, value) == ptr' = [ptr EXCEPT ![l] = value]

\* A new generation gets an id nothing has used.  The ids of an instance are
\* finite: when they run out the build fails, as it does on a full disk.
Create(g) == disk' = [disk EXCEPT ![g] = "intact"] /\ fresh' = fresh \ {g}

-----------------------------------------------------------------------------
InitState ==
    /\ ptr \in Installed
    /\ fresh = {g \in Generation :
                  \A l \in Link : ptr[l] # g
                                  /\ (ptr[l] \in System =>
                                        g \notin {Manifest[ptr[l]].shell, Manifest[ptr[l]].dotfiles,
                                                  Manifest[ptr[l]].helpers, Manifest[ptr[l]].legacy})}
    /\ disk = [g \in Generation |-> IF g \in fresh THEN "absent" ELSE "intact"]
    /\ install = NoJournal
    /\ apply = NoJournal
    /\ promotion = NoJournal
    /\ lock = [f \in LockFile |-> None]
    /\ pc = [p \in Proc |-> "idle"]
    /\ reg = [p \in Proc |-> NoReg]
    /\ faults = 0

\* The shell, or the machine under it, dies: no trap runs, the kernel drops
\* the locks.
Crash(p) ==
    /\ pc[p] # "idle"
    /\ faults < MaxFaults
    /\ faults' = faults + 1
    /\ Quit(p)
    /\ UNCHANGED <<ptr, disk, fresh, journals>>

\* A file of a live generation is altered.
Damage(g) ==
    /\ disk[g] = "intact"
    /\ Cardinality({h \in Generation : disk[h] = "damaged"}) < MaxDamaged
    /\ disk' = [disk EXCEPT ![g] = "damaged"]
    /\ UNCHANGED <<ptr, fresh, journals, local, faults>>
=============================================================================
