------------------------- MODULE RescueTransaction -------------------------
(***************************************************************************)
(* cortetsu-rescue rollback and recover: the offline transaction that      *)
(* swaps all eight generation pointers under a durable journal.            *)
(*                                                                         *)
(* Each process of Proc is one invocation of the command line.  Between    *)
(* two steps anything may happen to the other processes, to the disk (a    *)
(* generation is damaged, removed or repaired) or to the process itself    *)
(* (a crash, which is also what a failed store() or remove_journal() looks *)
(* like from outside: the call returns and leaves the journal behind).     *)
(***************************************************************************)
EXTENDS GenerationStore, Sequences

CONSTANTS
    Proc,        \* invocations of the command
    Initial,     \* pointer snapshots an installation may have left
    MaxFaults,   \* bound on crashes and I/O errors
    MaxDamaged   \* bound on generations damaged at the same time

ASSUME RescueAssumption ==
    /\ None \notin Proc
    /\ Initial \subseteq {p \in Pointers : Coherent(p)}
    /\ MaxFaults \in Nat
    /\ MaxDamaged \in Nat

VARIABLES
    ptr,      \* the eight symbolic links
    disk,     \* status of every generation
    journal,  \* system/rescue-transaction-v1.json, durable
    pending,  \* platform journals neither COMMITTED nor RECOVERED
    lock,     \* install.lock and system.lock
    pc,       \* where each invocation is
    mem,      \* its Journal value in memory
    step,     \* next element of ApplyOrder to write
    faults    \* crashes and I/O errors so far

vars == <<ptr, disk, journal, pending, lock, pc, mem, step, faults>>

Phase == {"PREPARED", "APPLYING", "VERIFYING", "COMMITTED", "RECOVERY_REQUIRED"}

Journal == [phase : Phase, before : Pointers, target : Pointers]

NoJournal == [phase |-> "NONE"]

PlatformJournals == {"install", "promotion", "apply"}

\* Mutant of ApplyOrder: the commit marker moves first.
ApplyOrderMarkerFirst ==
    <<"system/current", "system/previous", "shell/previous", "shell/current",
      "dotfiles/previous", "dotfiles/current", "helpers/previous", "helpers/current">>

\* Previous pointers before current; system/current is the commit marker.
ApplyOrder == <<"shell/previous", "shell/current",
                "dotfiles/previous", "dotfiles/current",
                "helpers/previous", "helpers/current",
                "system/previous", "system/current">>

Location == {"idle", "lockRollback", "lockRecover", "rollback", "recover",
             "prepare", "mark", "apply", "markVerifying", "verify", "commit",
             "clear", "verifyCommitted",
             "restoreCheck", "restore", "restoreVerify", "restoreFailed"}

TypeOK ==
    /\ ptr \in Pointers
    /\ disk \in Disk
    /\ journal \in Journal \cup {NoJournal}
    /\ pending \subseteq PlatformJournals
    /\ lock \in [{"install", "system"} -> Proc \cup {None}]
    /\ pc \in [Proc -> Location]
    /\ mem \in [Proc -> Journal \cup {NoJournal}]
    /\ step \in [Proc -> 1 .. 8]
    /\ faults \in 0 .. MaxFaults

Init ==
    /\ disk = [g \in Generation |-> "intact"]
    /\ ptr \in Initial
    /\ journal = NoJournal
    /\ pending \in SUBSET PlatformJournals
    /\ lock = [l \in {"install", "system"} |-> None]
    /\ pc = [p \in Proc |-> "idle"]
    /\ mem = [p \in Proc |-> NoJournal]
    /\ step = [p \in Proc |-> 1]
    /\ faults = 0

-----------------------------------------------------------------------------
Goto(p, l) == pc' = [pc EXCEPT ![p] = l]

\* The guards returned by locks() are dropped with the call.
Return(p) ==
    /\ Goto(p, "idle")
    /\ lock' = [l \in DOMAIN lock |-> IF lock[l] = p THEN None ELSE lock[l]]
    /\ mem' = [mem EXCEPT ![p] = NoJournal]
    /\ step' = [step EXCEPT ![p] = 1]

\* locks(): install.lock is tried, never waited for.
TryInstallLock(p, command) ==
    /\ pc[p] = "idle"
    /\ lock["install"] = None
    /\ lock' = [lock EXCEPT !["install"] = p]
    /\ Goto(p, command)
    /\ UNCHANGED <<ptr, disk, journal, pending, mem, step, faults>>

\* locks(): system.lock is waited for.
TakeSystemLock(p, command, next) ==
    /\ pc[p] = command
    /\ lock["system"] = None
    /\ lock' = [lock EXCEPT !["system"] = p]
    /\ Goto(p, next)
    /\ UNCHANGED <<ptr, disk, journal, pending, mem, step, faults>>

\* load(): a journal is usable only while every generation it names exists.
Loads == journal = NoJournal \/ (Validate(disk, journal.before) /\ Validate(disk, journal.target))

\* Mutant of RollbackAllowed: a pending transaction is overwritten.
RollbackAllowedOverPending(ack) ==
    /\ pending = {}
    /\ ~ack => Current(disk, ptr) /\ Manifest[ptr["system/current"]].helpers # None
    /\ Planned(disk, ptr)

\* A rollback that cannot restore the helpers has to be acknowledged.
RollbackAllowed(ack) ==
    /\ pending = {}
    /\ ~ack => Current(disk, ptr) /\ Manifest[ptr["system/current"]].helpers # None
    /\ journal = NoJournal
    /\ Planned(disk, ptr)

RollbackPlan(p) ==
    /\ pc[p] = "rollback"
    /\ \E ack \in BOOLEAN : RollbackAllowed(ack)
    /\ mem' = [mem EXCEPT ![p] = [phase |-> "PREPARED", before |-> ptr,
                                  target |-> RollbackTarget(ptr)]]
    /\ Goto(p, "prepare")
    /\ UNCHANGED <<ptr, disk, journal, pending, lock, step, faults>>

RollbackRefused(p) ==
    /\ pc[p] = "rollback"
    /\ \E ack \in BOOLEAN : ~RollbackAllowed(ack)
    /\ Return(p)
    /\ UNCHANGED <<ptr, disk, journal, pending, faults>>

\* store(): write, fsync, rename, fsync the directory; one durable step.
Store(p, from, phase, to) ==
    /\ pc[p] = from
    /\ journal' = [mem[p] EXCEPT !.phase = phase]
    /\ mem' = [mem EXCEPT ![p].phase = phase]
    /\ Goto(p, to)
    /\ UNCHANGED <<ptr, disk, pending, lock, step, faults>>

\* atomic_pointer() refuses when the live link or its new target dangles.
CanWrite(l, value) ==
    /\ ptr[l] = None \/ Exists(disk, ptr[l])
    /\ value = None \/ Exists(disk, value)

\* One turn of the loop of apply(), which validates the whole snapshot first.
WritePointer(p, from, values, to) ==
    /\ pc[p] = from
    /\ step[p] = 1 => Validate(disk, values)
    /\ CanWrite(ApplyOrder[step[p]], values[ApplyOrder[step[p]]])
    /\ ptr' = [ptr EXCEPT ![ApplyOrder[step[p]]] = values[ApplyOrder[step[p]]]]
    /\ step' = [step EXCEPT ![p] = IF step[p] = 8 THEN 1 ELSE step[p] + 1]
    /\ IF step[p] = 8 THEN Goto(p, to) ELSE UNCHANGED pc
    /\ UNCHANGED <<disk, journal, pending, lock, mem, faults>>

\* The write is refused, or it fails before or after the rename took effect.
PointerFails(p, from, values, to) ==
    /\ pc[p] = from
    /\ LET l == ApplyOrder[step[p]]
       IN  \/ /\ ~ (step[p] = 1 => Validate(disk, values)) \/ ~ CanWrite(l, values[l])
              /\ UNCHANGED <<ptr, faults>>
           \/ /\ faults < MaxFaults
              /\ faults' = faults + 1
              /\ \/ UNCHANGED ptr
                 \/ /\ CanWrite(l, values[l])
                    /\ ptr' = [ptr EXCEPT ![l] = values[l]]
    /\ step' = [step EXCEPT ![p] = 1]
    /\ Goto(p, to)
    /\ UNCHANGED <<disk, journal, pending, lock, mem>>

ApplyTarget(p) == WritePointer(p, "apply", mem[p].target, "markVerifying")

ApplyTargetFails(p) == PointerFails(p, "apply", mem[p].target, "restoreCheck")

VerifyTarget(values) == Current(disk, ptr) /\ ptr = values /\ Validate(disk, ptr)

\* verify_target() after the pointers moved: commit, or undo.
Verify(p) ==
    /\ pc[p] = "verify"
    /\ Goto(p, IF VerifyTarget(mem[p].target) THEN "commit" ELSE "restoreCheck")
    /\ UNCHANGED <<ptr, disk, journal, pending, lock, mem, step, faults>>

\* remove_journal(), the last step of every successful call.
RemoveJournal(p) ==
    /\ pc[p] = "clear"
    /\ journal' = NoJournal
    /\ Return(p)
    /\ UNCHANGED <<ptr, disk, pending, faults>>

-----------------------------------------------------------------------------
\* Mutant of RecoverLoad: RECOVERY_REQUIRED is not taken up again.
RecoverLoadOnce(p) ==
    /\ pc[p] = "recover"
    /\ pending = {}
    /\ journal # NoJournal
    /\ journal.phase # "RECOVERY_REQUIRED"
    /\ Loads
    /\ mem' = [mem EXCEPT ![p] = journal]
    /\ Goto(p, IF journal.phase = "COMMITTED" THEN "verifyCommitted" ELSE "restoreCheck")
    /\ UNCHANGED <<ptr, disk, journal, pending, lock, step, faults>>

\* recover(): load the journal and decide between keeping the commit and
\* restoring the state before.
RecoverLoad(p) ==
    /\ pc[p] = "recover"
    /\ pending = {}
    /\ journal # NoJournal
    /\ Loads
    /\ mem' = [mem EXCEPT ![p] = journal]
    /\ Goto(p, IF journal.phase = "COMMITTED" THEN "verifyCommitted" ELSE "restoreCheck")
    /\ UNCHANGED <<ptr, disk, journal, pending, lock, step, faults>>

RecoverRefused(p) ==
    /\ pc[p] = "recover"
    /\ pending # {} \/ journal = NoJournal \/ ~Loads
    /\ Return(p)
    /\ UNCHANGED <<ptr, disk, journal, pending, faults>>

\* Mutant of VerifyCommitted: a failed readback undoes the commit.
VerifyCommittedElseUndo(p) ==
    /\ pc[p] = "verifyCommitted"
    /\ Goto(p, IF VerifyTarget(mem[p].target) THEN "clear" ELSE "restoreCheck")
    /\ UNCHANGED <<ptr, disk, journal, pending, lock, mem, step, faults>>

\* A durable commit whose readback fails is reported, never undone.
VerifyCommitted(p) ==
    /\ pc[p] = "verifyCommitted"
    /\ IF VerifyTarget(mem[p].target)
         THEN Goto(p, "clear") /\ UNCHANGED <<lock, mem, step>>
         ELSE Return(p)
    /\ UNCHANGED <<ptr, disk, journal, pending, faults>>

\* restore(): a before-state that no longer verifies stops the undo before the
\* first pointer moves, and the journal stays.
RestoreCheck(p) ==
    /\ pc[p] = "restoreCheck"
    /\ IF VerifySnapshot(disk, mem[p].before)
         THEN Goto(p, "restore") /\ UNCHANGED <<lock, mem, step>>
         ELSE Return(p)
    /\ UNCHANGED <<ptr, disk, journal, pending, faults>>

ApplyBefore(p) == WritePointer(p, "restore", mem[p].before, "restoreVerify")

ApplyBeforeFails(p) == PointerFails(p, "restore", mem[p].before, "restoreFailed")

RestoreVerify(p) ==
    /\ pc[p] = "restoreVerify"
    /\ Goto(p, IF VerifyTarget(mem[p].before) THEN "clear" ELSE "restoreFailed")
    /\ UNCHANGED <<ptr, disk, journal, pending, lock, mem, step, faults>>

\* Mutant of RestoreFailed: the journal is dropped with the failed restore.
RestoreFailedDropsJournal(p) ==
    /\ pc[p] = "restoreFailed"
    /\ journal' = NoJournal
    /\ Return(p)
    /\ UNCHANGED <<ptr, disk, pending, faults>>

\* RECOVERY_REQUIRED is recorded, on a best effort, and the error returned.
RestoreFailed(p) ==
    /\ pc[p] = "restoreFailed"
    /\ journal' = [mem[p] EXCEPT !.phase = "RECOVERY_REQUIRED"]
    /\ Return(p)
    /\ UNCHANGED <<ptr, disk, pending, faults>>

-----------------------------------------------------------------------------
\* The invocation dies, or a store() / remove_journal() reports an error.
Crash(p) ==
    /\ pc[p] # "idle"
    /\ faults < MaxFaults
    /\ faults' = faults + 1
    /\ Return(p)
    /\ UNCHANGED <<ptr, disk, journal, pending>>

Rollback(p) ==
    \/ TakeSystemLock(p, "lockRollback", "rollback")
    \/ RollbackPlan(p)
    \/ RollbackRefused(p)
    \/ Store(p, "prepare", "PREPARED", "mark")
    \/ Store(p, "mark", "APPLYING", "apply")
    \/ ApplyTarget(p)
    \/ ApplyTargetFails(p)
    \/ Store(p, "markVerifying", "VERIFYING", "verify")
    \/ Verify(p)
    \/ Store(p, "commit", "COMMITTED", "clear")
    \/ RemoveJournal(p)

Recover(p) ==
    \/ TakeSystemLock(p, "lockRecover", "recover")
    \/ RecoverLoad(p)
    \/ RecoverRefused(p)
    \/ VerifyCommitted(p)
    \/ RestoreCheck(p)
    \/ ApplyBefore(p)
    \/ ApplyBeforeFails(p)
    \/ RestoreVerify(p)
    \/ RestoreFailed(p)

\* The disk: a generation is damaged, removed or put back from a backup.
Damage(g) ==
    /\ Cardinality({h \in Generation : disk[h] # "intact"} \cup {g}) <= MaxDamaged
    /\ disk[g] = "intact"
    /\ \E s \in {"damaged", "absent"} : disk' = [disk EXCEPT ![g] = s]
    /\ UNCHANGED <<ptr, journal, pending, lock, pc, mem, step, faults>>

Repair(g) ==
    /\ disk[g] # "intact"
    /\ disk' = [disk EXCEPT ![g] = "intact"]
    /\ UNCHANGED <<ptr, journal, pending, lock, pc, mem, step, faults>>

Next ==
    \/ \E p \in Proc : \/ TryInstallLock(p, "lockRollback")
                       \/ TryInstallLock(p, "lockRecover")
                       \/ Rollback(p)
                       \/ Recover(p)
                       \/ Crash(p)
    \/ \E g \in Generation : Damage(g) \/ Repair(g)

Spec == Init /\ [][Next]_vars

-----------------------------------------------------------------------------
(***************************************************************************)
(* Safety.                                                                 *)
(***************************************************************************)

\* However a rollback, an undo or a recovery is interrupted, the layers
\* disagree only while a journal that recover() will undo is on disk.  A
\* machine without a journal, or with a committed one, runs one generation.
MixedOnlyUnderJournal ==
    journal = NoJournal \/ journal.phase = "COMMITTED" => Coherent(ptr)

\* What a journal promises: every link is at its before or its target value,
\* so recovery never has to guess, and both snapshots are coherent.
JournalCoversPointers ==
    journal # NoJournal =>
        /\ Coherent(journal.before)
        /\ Coherent(journal.target)
        /\ \A l \in Link : ptr[l] \in {journal.before[l], journal.target[l]}

\* system/current is the commit marker: while a rollback moves forward it
\* selects the new system only when all seven other links already do.
CommitMarkerLast ==
    \A p \in Proc :
        /\ pc[p] \in {"apply", "markVerifying", "verify", "commit"}
        /\ ptr["system/current"] = mem[p].target["system/current"]
        => ptr = mem[p].target

\* A rollback whose COMMITTED record is durable is never undone, neither by a
\* recovery that finds its readback damaged nor by a second invocation.
CommittedNeverUndone ==
    [][journal # NoJournal /\ journal.phase = "COMMITTED"
         => ptr' = ptr /\ journal' \in {journal, NoJournal}]_vars

\* The selection the machine is committed to: an unfinished transaction does
\* not count, because recovery takes it back.
Selection == IF journal = NoJournal \/ journal.phase = "COMMITTED" THEN ptr ELSE journal.before

Atomic == INSTANCE AtomicRollback WITH selection <- Selection

\* The eight-link transaction with all its crashes implements a rollback that
\* happens in one step or not at all.
ImplementsAtomicRollback == Atomic!Spec

-----------------------------------------------------------------------------
(***************************************************************************)
(* The inductive invariant behind the properties above.                    *)
(***************************************************************************)

\* What every journal records, in memory or on disk.
PlannedJournal(j) ==
    /\ Coherent(j.before)
    /\ j.before["system/previous"] \in System
    /\ j.before["system/previous"] # j.before["system/current"]
    /\ SameSchema(j.before["system/current"], j.before["system/previous"])
    /\ j.target = RollbackTarget(j.before)

\* The links apply() has written when it is about to write element i.
Applied(i) == {ApplyOrder[j] : j \in 1 .. (i - 1)}

Working == Location \ {"idle", "lockRollback", "lockRecover"}

JournalOpen == Working \ {"rollback", "recover", "prepare"}

LocksHeld ==
    \A p \in Proc : /\ pc[p] # "idle" => lock["install"] = p
                    /\ pc[p] \in Working => lock["system"] = p

JournalInv ==
    /\ journal = NoJournal => Coherent(ptr)
    /\ journal # NoJournal =>
         /\ PlannedJournal(journal)
         /\ \A l \in Link : ptr[l] \in {journal.before[l], journal.target[l]}
         /\ journal.phase = "COMMITTED" => ptr = journal.target

\* Where an invocation is tells how far the links have moved.
ProcInv(p) ==
    /\ pc[p] = "prepare" =>
         journal = NoJournal /\ mem[p] \in Journal /\ mem[p].before = ptr /\ PlannedJournal(mem[p])
    /\ pc[p] \in JournalOpen => journal # NoJournal /\ mem[p] = journal
    /\ pc[p] = "mark" => ptr = journal.before
    /\ pc[p] = "apply" =>
         \A l \in Link : ptr[l] = IF l \in Applied(step[p]) THEN journal.target[l]
                                                           ELSE journal.before[l]
    /\ pc[p] = "restore" => \A l \in Applied(step[p]) : ptr[l] = journal.before[l]
    /\ pc[p] \in {"markVerifying", "verify", "commit"} => ptr = journal.target
    /\ pc[p] = "restoreVerify" => ptr = journal.before
    /\ pc[p] \in JournalOpen \ {"clear", "verifyCommitted"} => journal.phase # "COMMITTED"
    /\ pc[p] = "verifyCommitted" => journal.phase = "COMMITTED"
    /\ pc[p] = "clear" => journal.phase = "COMMITTED" \/ ptr = journal.before
    /\ pc[p] \notin {"apply", "restore"} => step[p] = 1

IInv == TypeOK /\ LocksHeld /\ JournalInv /\ \A p \in Proc : ProcInv(p)

-----------------------------------------------------------------------------
(***************************************************************************)
(* Liveness.  The command runs to its end once started, and the operator   *)
(* answers a pending journal by running recover, as the refusal of         *)
(* rollback tells them to; nothing makes anybody start a rollback.         *)
(***************************************************************************)
Fairness ==
    \A p \in Proc : /\ WF_vars(Rollback(p) \/ Recover(p))
                    /\ SF_vars(TryInstallLock(p, "lockRecover") /\ journal # NoJournal)

FairSpec == Spec /\ Fairness

\* Once the disk is and stays intact, a recovery gets through: no sequence of
\* crashes and half-done restores leaves a journal that recover() can never
\* clear.
RecoveryTerminates ==
    (pending = {} /\ <>[](\A g \in Generation : disk[g] = "intact"))
        => []<>(journal = NoJournal)
=============================================================================
