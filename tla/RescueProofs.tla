---------------------------- MODULE RescueProofs ----------------------------
(***************************************************************************)
(* Proofs about RescueTransaction, for any set of generations, any         *)
(* manifests, any number of concurrent invocations and any number of       *)
(* faults.                                                                 *)
(***************************************************************************)
EXTENDS RescueTransaction, TLAPS

\* A journal file that is absent is not mistaken for one that is present.
LEMMA NoJournalIsNone == NoJournal \notin Journal
BY DEF NoJournal, Journal, Phase

\* Coherent pointers of which a rollback may be planned give a coherent target
\* of the right shape.
LEMMA TargetOfPlan ==
    ASSUME NEW p \in Pointers, Coherent(p), p["system/previous"] \in System
    PROVE  RollbackTarget(p) \in Pointers /\ Coherent(RollbackTarget(p))
<1> DEFINE active == Manifest[p["system/current"]]
           previous == Manifest[p["system/previous"]]
<1>1. p["system/current"] \in System
  BY DEF Coherent
<1>2. active \in SystemMeta /\ previous \in SystemMeta
  BY <1>1, StoreAssumption
<1>3. /\ active.shell \in Shell /\ previous.shell \in Shell
      /\ active.dotfiles \in Dotfiles /\ previous.dotfiles \in Dotfiles
      /\ active.helpers \in Helpers \cup {None} /\ previous.helpers \in Helpers \cup {None}
  BY <1>2 DEF SystemMeta
<1>4. ASSUME NEW l \in Link
      PROVE  RollbackTarget(p)[l] \in Builds(l) \cup {None}
  BY <1>1, <1>3 DEF RollbackTarget, Link, Builds
<1>5. ASSUME NEW l \in Link
      PROVE  Builds(l) \subseteq Generation
  BY DEF Link, Builds, Generation
<1>6. RollbackTarget(p) \in [Link -> Generation \cup {None}]
  BY <1>4, <1>5 DEF RollbackTarget
<1>7. Coherent(RollbackTarget(p))
  BY DEF Coherent, RollbackTarget, Link
<1> QED BY <1>4, <1>6, <1>7 DEF Pointers

\* The loop of apply() visits every link and nothing else.
LEMMA OrderCoversLinks ==
    /\ \A i \in 1 .. 8 : ApplyOrder[i] \in Link
    /\ Applied(1) = {}
    /\ \A i \in 1 .. 8 : Applied(i + 1) = Applied(i) \cup {ApplyOrder[i]}
    /\ Applied(9) = Link
    /\ "system/current" \notin Applied(8)
<1>1. \A i \in 1 .. 8 : ApplyOrder[i] \in Link
  BY DEF ApplyOrder, Link
<1>2. Applied(1) = {}
  BY DEF Applied
<1>3. \A i \in 1 .. 8 : Applied(i + 1) = Applied(i) \cup {ApplyOrder[i]}
  BY DEF Applied
<1>4. Applied(9) = Link
  BY DEF Applied, ApplyOrder, Link
<1>5. "system/current" \notin Applied(8)
  BY DEF Applied, ApplyOrder
<1> QED BY <1>1, <1>2, <1>3, <1>4, <1>5

-----------------------------------------------------------------------------
\* Every initial state satisfies the inductive invariant.
LEMMA InitIInv == Init => IInv
<1> SUFFICES ASSUME Init PROVE IInv
  OBVIOUS
<1>1. ptr \in Pointers /\ Coherent(ptr)
  BY RescueAssumption DEF Init
<1>2. TypeOK
  BY <1>1, RescueAssumption DEF Init, TypeOK, Disk, Location
<1>3. LocksHeld
  BY DEF Init, LocksHeld, Working, Location
<1>4. JournalInv
  BY <1>1 DEF Init, JournalInv
<1>5. \A p \in Proc : ProcInv(p)
  BY DEF Init, ProcInv, JournalOpen, Working, Location
<1> QED BY <1>2, <1>3, <1>4, <1>5 DEF IInv

\* install.lock admits one invocation: while p runs, the others are idle.
LEMMA Exclusion ==
    ASSUME IInv, NEW p \in Proc, NEW q \in Proc, q # p, pc[p] # "idle"
    PROVE  pc[q] = "idle" /\ step[q] = 1
BY DEF IInv, LocksHeld, ProcInv

\* An idle invocation constrains nothing.
LEMMA IdleProcInv ==
    ASSUME NEW q \in Proc, pc[q] = "idle", step[q] = 1
    PROVE  ProcInv(q)
BY DEF ProcInv, JournalOpen, Working, Location

\* Steps of p that leave the other invocations where they are.
LEMMA OthersKeep ==
    ASSUME IInv, NEW p \in Proc, pc[p] # "idle", NEW x, NEW n,
           pc' = [pc EXCEPT ![p] = x], step' = [step EXCEPT ![p] = n]
    PROVE  \A q \in Proc \ {p} : ProcInv(q)'
<1> SUFFICES ASSUME NEW q \in Proc, q # p PROVE ProcInv(q)'
  OBVIOUS
<1>1. pc[q] = "idle" /\ step[q] = 1
  BY Exclusion
<1>2. pc'[q] = "idle" /\ step'[q] = 1
  BY <1>1 DEF IInv, TypeOK
<1> QED BY <1>2, IdleProcInv DEF ProcInv, JournalOpen, Working, Location

\* Returning from the command keeps the invariant when the journal does.
LEMMA ReturnKeeps ==
    ASSUME IInv, NEW p \in Proc, pc[p] # "idle", Return(p)
    PROVE  /\ LocksHeld'
           /\ \A q \in Proc : ProcInv(q)'
           /\ lock' \in [{"install", "system"} -> Proc \cup {None}]
           /\ pc' \in [Proc -> Location]
           /\ mem' \in [Proc -> Journal \cup {NoJournal}]
           /\ step' \in [Proc -> 1 .. 8]
<1>1. /\ lock' \in [{"install", "system"} -> Proc \cup {None}]
      /\ pc' \in [Proc -> Location]
      /\ mem' \in [Proc -> Journal \cup {NoJournal}]
      /\ step' \in [Proc -> 1 .. 8]
  BY DEF IInv, TypeOK, Return, Goto, Location
<1>2. \A q \in Proc : pc'[q] = "idle" /\ step'[q] = 1
  BY Exclusion DEF IInv, TypeOK, Return, Goto
<1>3. LocksHeld'
  BY <1>2 DEF LocksHeld, Working, Location
<1>4. \A q \in Proc : ProcInv(q)'
  BY <1>2 DEF ProcInv, JournalOpen, Working, Location
<1> QED BY <1>1, <1>3, <1>4

\* Taking either lock.
LEMMA LockStep ==
    ASSUME IInv, NEW p \in Proc,
           \/ TryInstallLock(p, "lockRollback")
           \/ TryInstallLock(p, "lockRecover")
           \/ TakeSystemLock(p, "lockRollback", "rollback")
           \/ TakeSystemLock(p, "lockRecover", "recover")
    PROVE  IInv'
<1>1. TypeOK'
  BY DEF IInv, TypeOK, TryInstallLock, TakeSystemLock, Goto, Location
<1>2. LocksHeld'
  BY RescueAssumption DEF IInv, TypeOK, LocksHeld, TryInstallLock, TakeSystemLock,
     Goto, Working, Location
<1>3. JournalInv'
  BY DEF IInv, JournalInv, TryInstallLock, TakeSystemLock
<1>4. ASSUME NEW q \in Proc PROVE ProcInv(q)'
  BY DEF IInv, TypeOK, ProcInv, TryInstallLock, TakeSystemLock, Goto,
     JournalOpen, Working, Location
<1> QED BY <1>1, <1>2, <1>3, <1>4 DEF IInv

\* Planning a rollback: the snapshot is coherent and a way back exists.
LEMMA PlanStep ==
    ASSUME IInv, NEW p \in Proc, RollbackPlan(p)
    PROVE  IInv'
<1>1. /\ Coherent(ptr) /\ ptr["system/previous"] \in System
      /\ ptr["system/previous"] # ptr["system/current"]
      /\ SameSchema(ptr["system/current"], ptr["system/previous"])
      /\ journal = NoJournal
  BY DEF RollbackPlan, RollbackAllowed, Planned, PlanRollback, Current, Previous,
     VerifySystemPath
<1>2. ptr \in Pointers
  BY DEF IInv, TypeOK
<1>3. RollbackTarget(ptr) \in Pointers
  BY <1>1, <1>2, TargetOfPlan
<1> DEFINE j == [phase |-> "PREPARED", before |-> ptr, target |-> RollbackTarget(ptr)]
<1>4. j \in Journal /\ PlannedJournal(j)
  BY <1>1, <1>2, <1>3 DEF Journal, Phase, PlannedJournal
<1>5. mem' = [mem EXCEPT ![p] = j] /\ pc' = [pc EXCEPT ![p] = "prepare"]
  BY DEF RollbackPlan, Goto
<1>6. TypeOK'
  BY <1>4, <1>5 DEF IInv, TypeOK, RollbackPlan, Location
<1>7. LocksHeld'
  BY DEF IInv, TypeOK, LocksHeld, RollbackPlan, Goto, Working, Location
<1>8. JournalInv'
  BY DEF IInv, JournalInv, RollbackPlan
<1>9. step' = [step EXCEPT ![p] = step[p]] /\ pc[p] # "idle" /\ step[p] = 1
  BY DEF IInv, TypeOK, RollbackPlan, ProcInv
<1>10. ProcInv(p)'
  <2>1. mem'[p] = j /\ pc'[p] = "prepare" /\ step'[p] = 1
    BY <1>5, <1>9 DEF IInv, TypeOK
  <2>2. ptr' = ptr /\ journal' = NoJournal
    BY <1>1 DEF RollbackPlan
  <2> QED BY <1>4, <2>1, <2>2 DEF ProcInv, JournalOpen, Working, Location, PlannedJournal
<1>11. \A q \in Proc \ {p} : ProcInv(q)'
  BY <1>5, <1>9, OthersKeep
<1> QED BY <1>6, <1>7, <1>8, <1>10, <1>11 DEF IInv

\* Writing the journal record of a phase.
LEMMA StoreStep ==
    ASSUME IInv, NEW p \in Proc,
           \/ Store(p, "prepare", "PREPARED", "mark")
           \/ Store(p, "mark", "APPLYING", "apply")
           \/ Store(p, "markVerifying", "VERIFYING", "verify")
           \/ Store(p, "commit", "COMMITTED", "clear")
    PROVE  IInv'
<1>1. mem[p] \in Journal /\ PlannedJournal(mem[p])
  BY NoJournalIsNone DEF IInv, TypeOK, ProcInv, JournalInv, Store, JournalOpen, Working, Location
<1>2. PICK ph \in {"PREPARED", "APPLYING", "VERIFYING", "COMMITTED"} :
        /\ journal' = [mem[p] EXCEPT !.phase = ph]
        /\ mem' = [mem EXCEPT ![p] = [mem[p] EXCEPT !.phase = ph]]
  BY DEF Store, IInv, TypeOK
<1>3. /\ journal' \in Journal
      /\ journal'.before = mem[p].before
      /\ journal'.target = mem[p].target
      /\ journal'.phase = ph
      /\ mem'[p] = journal'
  BY <1>1, <1>2 DEF Journal, Phase, IInv, TypeOK
<1>4. PlannedJournal(journal') /\ journal' # NoJournal
  BY <1>1, <1>3, NoJournalIsNone DEF PlannedJournal
<1>5. pc[p] # "idle" /\ step[p] = 1 /\ step' = step
  BY DEF Store, IInv, ProcInv
<1>6. TypeOK'
  BY <1>2, <1>3 DEF IInv, TypeOK, Store, Goto, Location
<1>7. LocksHeld'
  BY DEF IInv, TypeOK, LocksHeld, Store, Goto, Working, Location
<1>8. /\ pc[p] \in {"prepare", "mark"} => ptr = mem[p].before
      /\ pc[p] \in {"markVerifying", "commit"} => ptr = mem[p].target
      /\ pc[p] \in {"prepare", "mark", "markVerifying", "commit"}
      /\ ptr' = ptr
  BY DEF Store, IInv, ProcInv, JournalOpen, Working, Location
<1>9. ph = "COMMITTED" <=> pc[p] = "commit"
  BY <1>2, <1>1, <1>3 DEF Store, Journal
<1>10. JournalInv'
  BY <1>3, <1>4, <1>8, <1>9 DEF JournalInv
<1>11. ProcInv(p)'
  <2>1. \/ pc[p] = "prepare" /\ pc'[p] = "mark"
        \/ pc[p] = "mark" /\ pc'[p] = "apply"
        \/ pc[p] = "markVerifying" /\ pc'[p] = "verify"
        \/ pc[p] = "commit" /\ pc'[p] = "clear"
    BY DEF Store, Goto, IInv, TypeOK
  <2>2. step'[p] = 1 /\ Applied(1) = {}
    BY <1>5, OrderCoversLinks
  <2> QED BY <1>3, <1>4, <1>8, <1>9, <2>1, <2>2
          DEF ProcInv, JournalOpen, Working, Location
<1>12. \A q \in Proc \ {p} : ProcInv(q)'
  <2>1. \E x : pc' = [pc EXCEPT ![p] = x]
    BY DEF Store, Goto
  <2>2. step' = [step EXCEPT ![p] = step[p]]
    BY <1>5 DEF IInv, TypeOK
  <2> QED BY <1>5, <2>1, <2>2, OthersKeep
<1> QED BY <1>6, <1>7, <1>10, <1>11, <1>12 DEF IInv

\* A pointer value a snapshot records is a legal value for that link.
LEMMA WriteTyped ==
    ASSUME ptr \in Pointers, NEW v \in Pointers, NEW l \in Link
    PROVE  [ptr EXCEPT ![l] = v[l]] \in Pointers
BY DEF Pointers

\* One turn of apply(target): the links written so far are at the target.
LEMMA ApplyTargetStep ==
    ASSUME IInv, NEW p \in Proc, ApplyTarget(p)
    PROVE  IInv'
<1> DEFINE l == ApplyOrder[step[p]]
           v == mem[p].target
<1>1. /\ pc[p] = "apply" /\ step[p] \in 1 .. 8
      /\ journal \in Journal /\ journal # NoJournal /\ mem[p] = journal
      /\ PlannedJournal(journal) /\ journal.phase # "COMMITTED"
      /\ ptr \in Pointers /\ v \in Pointers
  BY DEF IInv, TypeOK, ProcInv, JournalInv, ApplyTarget, WritePointer, Journal,
     JournalOpen, Working, Location
<1>2. /\ ptr' = [ptr EXCEPT ![l] = v[l]]
      /\ step' = [step EXCEPT ![p] = IF step[p] = 8 THEN 1 ELSE step[p] + 1]
      /\ pc' = [pc EXCEPT ![p] = IF step[p] = 8 THEN "markVerifying" ELSE "apply"]
      /\ UNCHANGED <<disk, journal, pending, lock, mem, faults>>
  BY <1>1 DEF ApplyTarget, WritePointer, Goto, IInv, TypeOK
<1>3. l \in Link /\ Applied(step[p] + 1) = Applied(step[p]) \cup {l}
  BY <1>1, OrderCoversLinks
<1>4. ptr' \in Pointers
  BY <1>1, <1>2, <1>3, WriteTyped
<1>5. TypeOK'
  BY <1>1, <1>2, <1>4 DEF IInv, TypeOK, Location
<1>6. LocksHeld'
  BY <1>1, <1>2 DEF IInv, TypeOK, LocksHeld, Working, Location
<1>7. \A k \in Link : ptr'[k] = IF k \in Applied(step[p] + 1) THEN journal.target[k]
                                                              ELSE journal.before[k]
  <2>1. \A k \in Link : ptr[k] = IF k \in Applied(step[p]) THEN journal.target[k]
                                                          ELSE journal.before[k]
    BY <1>1 DEF IInv, ProcInv
  <2>2. \A k \in Link : ptr'[k] = IF k = l THEN journal.target[k] ELSE ptr[k]
    BY <1>1, <1>2, <1>3 DEF Pointers
  <2> QED BY <1>3, <2>1, <2>2
<1>8. JournalInv'
  BY <1>1, <1>2, <1>7 DEF JournalInv, PlannedJournal
<1>9. step[p] = 8 => ptr' = journal.target
  <2>1. SUFFICES ASSUME step[p] = 8 PROVE ptr' = journal.target
    OBVIOUS
  <2>2. \A k \in Link : ptr'[k] = journal.target[k]
    BY <1>7, <2>1, OrderCoversLinks
  <2> QED BY <1>1, <1>4, <2>2 DEF Pointers
<1>10. ProcInv(p)'
  <2>1. /\ step'[p] = IF step[p] = 8 THEN 1 ELSE step[p] + 1
        /\ pc'[p] = IF step[p] = 8 THEN "markVerifying" ELSE "apply"
    BY <1>2 DEF IInv, TypeOK
  <2>2. CASE step[p] = 8
    BY <1>1, <1>2, <1>9, <2>1, <2>2 DEF ProcInv, JournalOpen, Working, Location
  <2>3. CASE step[p] # 8
    BY <1>1, <1>2, <1>7, <2>1, <2>3 DEF ProcInv, JournalOpen, Working, Location
  <2> QED BY <2>2, <2>3
<1>11. \A q \in Proc \ {p} : ProcInv(q)'
  BY <1>1, <1>2, OthersKeep
<1> QED BY <1>5, <1>6, <1>8, <1>10, <1>11 DEF IInv

\* One turn of apply(before), from whatever mixture the crash left.
LEMMA ApplyBeforeStep ==
    ASSUME IInv, NEW p \in Proc, ApplyBefore(p)
    PROVE  IInv'
<1> DEFINE l == ApplyOrder[step[p]]
           v == mem[p].before
<1>1. /\ pc[p] = "restore" /\ step[p] \in 1 .. 8
      /\ journal \in Journal /\ journal # NoJournal /\ mem[p] = journal
      /\ PlannedJournal(journal) /\ journal.phase # "COMMITTED"
      /\ ptr \in Pointers /\ v \in Pointers
      /\ \A k \in Link : ptr[k] \in {journal.before[k], journal.target[k]}
  BY DEF IInv, TypeOK, ProcInv, JournalInv, ApplyBefore, WritePointer, Journal,
     JournalOpen, Working, Location
<1>2. /\ ptr' = [ptr EXCEPT ![l] = v[l]]
      /\ step' = [step EXCEPT ![p] = IF step[p] = 8 THEN 1 ELSE step[p] + 1]
      /\ pc' = [pc EXCEPT ![p] = IF step[p] = 8 THEN "restoreVerify" ELSE "restore"]
      /\ UNCHANGED <<disk, journal, pending, lock, mem, faults>>
  BY <1>1 DEF ApplyBefore, WritePointer, Goto, IInv, TypeOK
<1>3. l \in Link /\ Applied(step[p] + 1) = Applied(step[p]) \cup {l}
  BY <1>1, OrderCoversLinks
<1>4. ptr' \in Pointers
  BY <1>1, <1>2, <1>3, WriteTyped
<1>5. TypeOK'
  BY <1>1, <1>2, <1>4 DEF IInv, TypeOK, Location
<1>6. LocksHeld'
  BY <1>1, <1>2 DEF IInv, TypeOK, LocksHeld, Working, Location
<1>7. \A k \in Link : ptr'[k] = IF k = l THEN journal.before[k] ELSE ptr[k]
  BY <1>1, <1>2, <1>3 DEF Pointers
<1>8. \A k \in Applied(step[p] + 1) : k \in Link => ptr'[k] = journal.before[k]
  BY <1>1, <1>3, <1>7 DEF IInv, ProcInv
<1>9. Applied(step[p] + 1) \subseteq Link
  BY <1>1, OrderCoversLinks DEF Applied
<1>10. JournalInv'
  BY <1>1, <1>2, <1>7 DEF JournalInv, PlannedJournal
<1>11. step[p] = 8 => ptr' = journal.before
  <2>1. SUFFICES ASSUME step[p] = 8 PROVE ptr' = journal.before
    OBVIOUS
  <2>2. \A k \in Link : ptr'[k] = journal.before[k]
    BY <1>8, <2>1, OrderCoversLinks
  <2> QED BY <1>1, <1>4, <2>2 DEF Pointers
<1>12. ProcInv(p)'
  <2>1. /\ step'[p] = IF step[p] = 8 THEN 1 ELSE step[p] + 1
        /\ pc'[p] = IF step[p] = 8 THEN "restoreVerify" ELSE "restore"
    BY <1>2 DEF IInv, TypeOK
  <2>2. CASE step[p] = 8
    BY <1>1, <1>2, <1>11, <2>1, <2>2 DEF ProcInv, JournalOpen, Working, Location
  <2>3. CASE step[p] # 8
    BY <1>1, <1>2, <1>8, <1>9, <2>1, <2>3 DEF ProcInv, JournalOpen, Working, Location
  <2> QED BY <2>2, <2>3
<1>13. \A q \in Proc \ {p} : ProcInv(q)'
  BY <1>1, <1>2, OthersKeep
<1> QED BY <1>5, <1>6, <1>10, <1>12, <1>13 DEF IInv

\* A failed write: the link has its old value or the new one, nothing else.
LEMMA FailStep ==
    ASSUME IInv, NEW p \in Proc, ApplyTargetFails(p) \/ ApplyBeforeFails(p)
    PROVE  IInv'
<1> DEFINE l == ApplyOrder[step[p]]
<1>1. /\ pc[p] \in {"apply", "restore"} /\ step[p] \in 1 .. 8
      /\ journal \in Journal /\ journal # NoJournal /\ mem[p] = journal
      /\ PlannedJournal(journal) /\ journal.phase # "COMMITTED"
      /\ ptr \in Pointers /\ journal.before \in Pointers /\ journal.target \in Pointers
      /\ \A k \in Link : ptr[k] \in {journal.before[k], journal.target[k]}
  BY DEF IInv, TypeOK, ProcInv, JournalInv, ApplyTargetFails, ApplyBeforeFails,
     PointerFails, Journal, JournalOpen, Working, Location
<1>2. /\ step' = [step EXCEPT ![p] = 1]
      /\ \/ pc' = [pc EXCEPT ![p] = "restoreCheck"]
         \/ pc' = [pc EXCEPT ![p] = "restoreFailed"]
      /\ UNCHANGED <<disk, journal, pending, lock, mem>>
      /\ faults' \in 0 .. MaxFaults
  BY RescueAssumption DEF ApplyTargetFails, ApplyBeforeFails, PointerFails, Goto, IInv, TypeOK
<1>3. \/ ptr' = ptr
      \/ ptr' = [ptr EXCEPT ![l] = journal.before[l]]
      \/ ptr' = [ptr EXCEPT ![l] = journal.target[l]]
  BY <1>1 DEF ApplyTargetFails, ApplyBeforeFails, PointerFails
<1>4. l \in Link
  BY <1>1, OrderCoversLinks
<1>5. ptr' \in Pointers
  BY <1>1, <1>3, <1>4, WriteTyped
<1>6. TypeOK'
  BY <1>2, <1>5 DEF IInv, TypeOK, Location
<1>7. LocksHeld'
  BY <1>1, <1>2 DEF IInv, TypeOK, LocksHeld, Working, Location
<1>8. \A k \in Link : ptr'[k] \in {journal.before[k], journal.target[k]}
  BY <1>1, <1>3, <1>4 DEF Pointers
<1>9. JournalInv'
  BY <1>1, <1>2, <1>8 DEF JournalInv, PlannedJournal
<1>10. ProcInv(p)'
  BY <1>1, <1>2 DEF ProcInv, JournalOpen, Working, Location, IInv, TypeOK
<1>11. \A q \in Proc \ {p} : ProcInv(q)'
  BY <1>1, <1>2, OthersKeep
<1> QED BY <1>6, <1>7, <1>9, <1>10, <1>11 DEF IInv

\* Decisions that only move the program counter.
LEMMA DecideStep ==
    ASSUME IInv, NEW p \in Proc,
           \/ Verify(p)
           \/ RecoverLoad(p)
           \/ RestoreVerify(p)
           \/ VerifyCommitted(p) /\ VerifyTarget(mem[p].target)
           \/ RestoreCheck(p) /\ VerifySnapshot(disk, mem[p].before)
    PROVE  IInv'
<1>1. /\ pc[p] \in {"verify", "recover", "restoreVerify", "verifyCommitted", "restoreCheck"}
      /\ UNCHANGED <<ptr, disk, journal, pending, lock, step, faults>>
      /\ journal # NoJournal
      /\ step[p] = 1
  BY DEF IInv, Verify, RecoverLoad, RestoreVerify, VerifyCommitted, RestoreCheck,
     ProcInv, JournalOpen, Working, Location
<1>2. PICK x \in {"commit", "restoreCheck", "verifyCommitted", "clear", "restore",
                   "restoreFailed"} : pc' = [pc EXCEPT ![p] = x]
  BY DEF Verify, RecoverLoad, RestoreVerify, VerifyCommitted, RestoreCheck, Goto
<1>3. mem' = [mem EXCEPT ![p] = journal] /\ journal \in Journal
  BY DEF IInv, TypeOK, Verify, RecoverLoad, RestoreVerify, VerifyCommitted, RestoreCheck,
     ProcInv, JournalOpen, Working, Location
<1>4. TypeOK'
  BY <1>1, <1>2, <1>3 DEF IInv, TypeOK, Location
<1>5. LocksHeld'
  BY <1>1, <1>2 DEF IInv, TypeOK, LocksHeld, Working, Location
<1>6. JournalInv'
  BY <1>1 DEF IInv, JournalInv
<1>7. ProcInv(p)'
  <2>1. pc'[p] = x /\ mem'[p] = journal' /\ step'[p] = 1 /\ journal' = journal /\ ptr' = ptr
    BY <1>1, <1>2, <1>3 DEF IInv, TypeOK
  <2>2. x \in {"restoreCheck", "restore", "restoreFailed", "commit"} => journal.phase # "COMMITTED"
    BY <1>2 DEF IInv, TypeOK, ProcInv, Verify, RecoverLoad, RestoreVerify, VerifyCommitted,
       RestoreCheck, Goto, JournalOpen, Working, Location
  <2>3. x = "commit" => ptr = journal.target
    BY <1>2 DEF IInv, TypeOK, ProcInv, Verify, RecoverLoad, RestoreVerify, VerifyCommitted,
       RestoreCheck, Goto
  <2>4. x = "verifyCommitted" => journal.phase = "COMMITTED"
    BY <1>2 DEF IInv, TypeOK, ProcInv, Verify, RecoverLoad, RestoreVerify, VerifyCommitted,
       RestoreCheck, Goto
  <2>5. x = "clear" => journal.phase = "COMMITTED" \/ ptr = journal.before
    BY <1>2 DEF IInv, TypeOK, ProcInv, Verify, RecoverLoad, RestoreVerify, VerifyCommitted,
       RestoreCheck, Goto
  <2> QED BY <1>1, <2>1, <2>2, <2>3, <2>4, <2>5, OrderCoversLinks
          DEF ProcInv, JournalOpen, Working, Location
<1>8. \A q \in Proc \ {p} : ProcInv(q)'
  <2>1. step' = [step EXCEPT ![p] = step[p]] /\ pc[p] # "idle"
    BY <1>1 DEF IInv, TypeOK
  <2> QED BY <1>2, <2>1, OthersKeep
<1> QED BY <1>4, <1>5, <1>6, <1>7, <1>8 DEF IInv

\* Refusals, crashes, failed restores and the final remove_journal().
LEMMA ReturnStep ==
    ASSUME IInv, NEW p \in Proc,
           \/ RollbackRefused(p)
           \/ RecoverRefused(p)
           \/ VerifyCommitted(p) /\ ~VerifyTarget(mem[p].target)
           \/ RestoreCheck(p) /\ ~VerifySnapshot(disk, mem[p].before)
           \/ RestoreFailed(p)
           \/ RemoveJournal(p)
           \/ Crash(p)
    PROVE  IInv'
<1>1. /\ pc[p] # "idle" /\ Return(p) /\ UNCHANGED <<ptr, disk, pending>>
      /\ faults' \in 0 .. MaxFaults
  BY RescueAssumption DEF IInv, TypeOK, RollbackRefused, RecoverRefused, VerifyCommitted,
     RestoreCheck, RestoreFailed, RemoveJournal, Crash
<1>2. /\ journal' \in Journal \cup {NoJournal}
      /\ JournalInv'
  <2>1. CASE RemoveJournal(p)
    <3>1. /\ journal' = NoJournal /\ ptr' = ptr
          /\ journal # NoJournal
          /\ journal.phase = "COMMITTED" \/ ptr = journal.before
      BY <2>1 DEF RemoveJournal, IInv, ProcInv, JournalOpen, Working, Location
    <3>2. /\ PlannedJournal(journal) /\ journal \in Journal
          /\ journal.phase = "COMMITTED" => ptr = journal.target
      BY <3>1 DEF IInv, TypeOK, JournalInv
    <3>3. Coherent(journal.before) /\ Coherent(journal.target)
      BY <3>2, TargetOfPlan DEF PlannedJournal, Journal
    <3> QED BY <3>1, <3>2, <3>3 DEF JournalInv
  <2>2. CASE RestoreFailed(p)
    <3>1. /\ mem[p] = journal /\ journal \in Journal /\ journal # NoJournal /\ ptr' = ptr
          /\ journal' = [journal EXCEPT !.phase = "RECOVERY_REQUIRED"]
      BY <2>2 DEF RestoreFailed, IInv, TypeOK, ProcInv, JournalOpen, Working, Location
    <3>2. /\ journal' \in Journal /\ journal'.before = journal.before
          /\ journal'.target = journal.target /\ journal'.phase = "RECOVERY_REQUIRED"
      BY <3>1 DEF Journal, Phase
    <3> QED BY <3>1, <3>2, NoJournalIsNone DEF IInv, JournalInv, PlannedJournal
  <2>3. CASE UNCHANGED journal
    BY <1>1, <2>3 DEF IInv, TypeOK, JournalInv
  <2> QED BY <2>1, <2>2, <2>3 DEF RollbackRefused, RecoverRefused, VerifyCommitted,
             RestoreCheck, Crash
<1>3. TypeOK'
  BY <1>1, <1>2, ReturnKeeps DEF IInv, TypeOK
<1> QED BY <1>1, <1>2, <1>3, ReturnKeeps DEF IInv

\* Damage and repair touch no pointer and no journal.
LEMMA DiskStep ==
    ASSUME IInv, NEW g \in Generation, Damage(g) \/ Repair(g)
    PROVE  IInv'
<1>1. disk' \in Disk /\ UNCHANGED <<ptr, journal, pending, lock, pc, mem, step, faults>>
  BY DEF Damage, Repair, IInv, TypeOK, Disk
<1> QED BY <1>1 DEF IInv, TypeOK, LocksHeld, JournalInv, ProcInv

\* The inductive step: one case per action.
LEMMA NextIInv == IInv /\ [Next]_vars => IInv'
<1> SUFFICES ASSUME IInv, [Next]_vars PROVE IInv'
  OBVIOUS
<1>1. CASE UNCHANGED vars
  BY <1>1 DEF vars, IInv, TypeOK, LocksHeld, JournalInv, ProcInv
<1>2. ASSUME NEW g \in Generation, Damage(g) \/ Repair(g) PROVE IInv'
  BY <1>2, DiskStep
<1>3. ASSUME NEW p \in Proc,
             \/ TryInstallLock(p, "lockRollback")
             \/ TryInstallLock(p, "lockRecover")
             \/ Rollback(p) \/ Recover(p) \/ Crash(p)
      PROVE  IInv'
  <2>1. CASE TryInstallLock(p, "lockRollback") \/ TryInstallLock(p, "lockRecover")
    BY <2>1, LockStep
  <2>2. CASE Rollback(p)
    BY <2>2, LockStep, PlanStep, ReturnStep, StoreStep, ApplyTargetStep, FailStep, DecideStep
       DEF Rollback
  <2>3. CASE Recover(p)
    BY <2>3, LockStep, ReturnStep, ApplyBeforeStep, FailStep, DecideStep DEF Recover
  <2>4. CASE Crash(p)
    BY <2>4, ReturnStep
  <2> QED BY <1>3, <2>1, <2>2, <2>3, <2>4
<1> QED BY <1>1, <1>2, <1>3 DEF Next

\* The inductive invariant holds of every behaviour of the transaction.
THEOREM InductiveInvariant == Spec => []IInv
BY InitIInv, NextIInv, PTL DEF Spec

\* cortetsu-rescue never leaves layers of different generations selected
\* without a journal that recover() will undo.
THEOREM NeverMixedWithoutJournal == Spec => []MixedOnlyUnderJournal
<1>1. IInv => MixedOnlyUnderJournal
  <2> SUFFICES ASSUME IInv, journal = NoJournal \/ journal.phase = "COMMITTED"
               PROVE  Coherent(ptr)
    BY DEF MixedOnlyUnderJournal
  <2>1. CASE journal = NoJournal
    BY <2>1 DEF IInv, JournalInv
  <2>2. CASE journal # NoJournal
    <3>1. ptr = journal.target /\ PlannedJournal(journal) /\ journal \in Journal
      BY <2>2 DEF IInv, JournalInv, TypeOK
    <3> QED BY <3>1, TargetOfPlan DEF PlannedJournal, Journal
  <2> QED BY <2>1, <2>2
<1> QED BY <1>1, InductiveInvariant, PTL

\* The journal always holds both coherent snapshots the links are drawn from.
THEOREM JournalIsSufficient == Spec => []JournalCoversPointers
<1>1. IInv => JournalCoversPointers
  <2> SUFFICES ASSUME IInv, journal # NoJournal
               PROVE  /\ Coherent(journal.before) /\ Coherent(journal.target)
                      /\ \A l \in Link : ptr[l] \in {journal.before[l], journal.target[l]}
    BY DEF JournalCoversPointers
  <2>1. PlannedJournal(journal) /\ journal \in Journal
    BY DEF IInv, JournalInv, TypeOK
  <2>2. Coherent(journal.target)
    BY <2>1, TargetOfPlan DEF PlannedJournal, Journal
  <2> QED BY <2>1, <2>2 DEF IInv, JournalInv, PlannedJournal
<1> QED BY <1>1, InductiveInvariant, PTL

\* Nobody who reads system/current meets the new system before its other layers
\* are selected: a rollback that moves forward writes that link last.
THEOREM MarkerComesLast == Spec => []CommitMarkerLast
<1>1. IInv => CommitMarkerLast
  <2> SUFFICES ASSUME IInv, NEW p \in Proc,
                      pc[p] \in {"apply", "markVerifying", "verify", "commit"},
                      ptr["system/current"] = mem[p].target["system/current"]
               PROVE  ptr = mem[p].target
    BY DEF CommitMarkerLast
  <2>1. /\ mem[p] = journal /\ journal # NoJournal
        /\ PlannedJournal(journal) /\ ProcInv(p)
    BY DEF IInv, ProcInv, JournalInv, JournalOpen, Working, Location
  <2>2. CASE pc[p] = "apply"
    <3>1. journal.target["system/current"] # journal.before["system/current"]
      BY <2>1 DEF PlannedJournal, RollbackTarget, Link
    <3>2. ptr["system/current"] = journal.before["system/current"]
      <4>1. step[p] \in 1 .. 8
        BY DEF IInv, TypeOK
      <4>2. "system/current" \notin Applied(step[p])
        BY <4>1 DEF Applied, ApplyOrder
      <4> QED BY <2>1, <2>2, <4>2 DEF ProcInv, Link
    <3> QED BY <2>1, <3>1, <3>2
  <2>3. CASE pc[p] # "apply"
    BY <2>1, <2>3 DEF ProcInv
  <2> QED BY <2>2, <2>3
<1> QED BY <1>1, InductiveInvariant, PTL

-----------------------------------------------------------------------------
Pending(j) == j # NoJournal /\ j.phase # "COMMITTED"

\* What a step may do to the journal and the links together.
StepShape ==
    \/ UNCHANGED <<ptr, journal>>
    \/ journal = NoJournal /\ Pending(journal') /\ journal'.before = ptr /\ ptr' = ptr
    \/ Pending(journal) /\ journal' = journal
    \/ /\ Pending(journal) /\ Pending(journal')
       /\ journal'.before = journal.before /\ ptr' = ptr
    \/ /\ Pending(journal) /\ journal' # NoJournal /\ journal'.phase = "COMMITTED"
       /\ ptr = journal.target /\ ptr' = ptr
    \/ /\ journal # NoJournal /\ journal' = NoJournal /\ ptr' = ptr
       /\ journal.phase = "COMMITTED" \/ ptr = journal.before

\* Writing the journal record of a phase has one of those shapes.
LEMMA StoreShape ==
    ASSUME IInv, NEW p \in Proc,
           \/ Store(p, "prepare", "PREPARED", "mark")
           \/ Store(p, "mark", "APPLYING", "apply")
           \/ Store(p, "markVerifying", "VERIFYING", "verify")
           \/ Store(p, "commit", "COMMITTED", "clear")
    PROVE  StepShape
<1>1. CASE pc[p] = "prepare"
  <2>1. journal = NoJournal /\ mem[p] \in Journal /\ mem[p].before = ptr
    BY <1>1 DEF IInv, ProcInv
  <2>2. journal' = [mem[p] EXCEPT !.phase = "PREPARED"] /\ ptr' = ptr
    BY <1>1 DEF Store
  <2>3. journal' \in Journal /\ journal'.before = ptr /\ journal'.phase = "PREPARED"
    BY <2>1, <2>2 DEF Journal, Phase
  <2> QED BY <2>1, <2>2, <2>3, NoJournalIsNone DEF StepShape, Pending
<1>2. CASE pc[p] # "prepare"
  <2>1. /\ mem[p] = journal /\ journal \in Journal /\ Pending(journal)
        /\ pc[p] = "commit" => ptr = journal.target
    BY <1>2, NoJournalIsNone DEF IInv, TypeOK, ProcInv, Store, JournalOpen, Working, Location, Pending
  <2>2. PICK ph \in {"APPLYING", "VERIFYING", "COMMITTED"} :
          /\ journal' = [journal EXCEPT !.phase = ph] /\ ptr' = ptr
          /\ ph = "COMMITTED" => pc[p] = "commit"
    BY <1>2, <2>1 DEF Store
  <2>3. journal' \in Journal /\ journal'.before = journal.before /\ journal'.phase = ph
    BY <2>1, <2>2 DEF Journal, Phase
  <2> QED BY <2>1, <2>2, <2>3, NoJournalIsNone DEF StepShape, Pending
<1> QED BY <1>1, <1>2

\* Every step of the specification has one of those shapes.
LEMMA NextShape == IInv /\ [Next]_vars => StepShape
<1> SUFFICES ASSUME IInv, [Next]_vars PROVE StepShape
  OBVIOUS
<1>1. CASE UNCHANGED vars
  BY <1>1 DEF vars, StepShape
<1>2. ASSUME NEW g \in Generation, Damage(g) \/ Repair(g) PROVE StepShape
  BY <1>2 DEF Damage, Repair, StepShape
<1>3. ASSUME NEW p \in Proc,
             \/ ApplyTarget(p) \/ ApplyBefore(p)
             \/ ApplyTargetFails(p) \/ ApplyBeforeFails(p)
      PROVE  StepShape
  <2>1. pc[p] \in {"apply", "restore"} /\ journal' = journal
    BY <1>3 DEF ApplyTarget, ApplyBefore, ApplyTargetFails, ApplyBeforeFails,
       WritePointer, PointerFails
  <2>2. Pending(journal)
    BY <2>1 DEF IInv, ProcInv, JournalOpen, Working, Location, Pending
  <2> QED BY <2>1, <2>2 DEF StepShape
<1>4. ASSUME NEW p \in Proc, RemoveJournal(p) PROVE StepShape
  BY <1>4 DEF RemoveJournal, IInv, ProcInv, JournalOpen, Working, Location, StepShape
<1>5. ASSUME NEW p \in Proc, RestoreFailed(p) PROVE StepShape
  <2>1. /\ journal \in Journal /\ Pending(journal) /\ ptr' = ptr
        /\ journal' = [journal EXCEPT !.phase = "RECOVERY_REQUIRED"]
    BY <1>5 DEF RestoreFailed, IInv, TypeOK, ProcInv, JournalOpen, Working, Location, Pending
  <2>2. /\ journal' \in Journal /\ journal'.before = journal.before
        /\ journal'.phase = "RECOVERY_REQUIRED"
    BY <2>1 DEF Journal, Phase
  <2> QED BY <2>1, <2>2, NoJournalIsNone DEF StepShape, Pending
<1>6. ASSUME NEW p \in Proc,
             \/ TryInstallLock(p, "lockRollback") \/ TryInstallLock(p, "lockRecover")
             \/ TakeSystemLock(p, "lockRollback", "rollback")
             \/ TakeSystemLock(p, "lockRecover", "recover")
             \/ RollbackPlan(p) \/ RollbackRefused(p) \/ Verify(p)
             \/ RecoverLoad(p) \/ RecoverRefused(p) \/ VerifyCommitted(p)
             \/ RestoreCheck(p) \/ RestoreVerify(p) \/ Crash(p)
      PROVE  StepShape
  <2>1. UNCHANGED <<ptr, journal>>
    BY <1>6 DEF TryInstallLock, TakeSystemLock, RollbackPlan, RollbackRefused, Verify,
       RecoverLoad, RecoverRefused, VerifyCommitted, RestoreCheck, RestoreVerify, Crash
  <2> QED BY <2>1 DEF StepShape
<1> QED BY <1>1, <1>2, <1>3, <1>4, <1>5, <1>6, StoreShape DEF Next, Rollback, Recover

\* A durable commit is never undone, by any interleaving of invocations,
\* crashes and damage.
THEOREM CommitIsFinal == Spec => CommittedNeverUndone
<1>1. IInv /\ [Next]_vars =>
        [journal # NoJournal /\ journal.phase = "COMMITTED"
           => ptr' = ptr /\ journal' \in {journal, NoJournal}]_vars
  BY NextShape DEF StepShape, Pending
<1> QED BY <1>1, InductiveInvariant, PTL DEF Spec, CommittedNeverUndone

\* The journaled eight-link rollback with its undo and its recovery implements
\* the atomic exchange of generations.
THEOREM RollbackIsAtomic == Spec => ImplementsAtomicRollback
<1>1. Init => Atomic!Init
  BY DEF Init, Atomic!Init, Selection
<1>2. IInv /\ [Next]_vars => [Atomic!Next]_Selection
  <2> SUFFICES ASSUME IInv, [Next]_vars, Selection' # Selection
               PROVE  Atomic!SwapGenerations
    BY DEF Atomic!Next
  <2>1. /\ Pending(journal) /\ journal' # NoJournal /\ journal'.phase = "COMMITTED"
        /\ ptr = journal.target /\ ptr' = ptr
    BY NextShape DEF StepShape, Pending, Selection
  <2>2. PlannedJournal(journal)
    BY <2>1 DEF IInv, JournalInv, Pending
  <2>3. Selection = journal.before /\ Selection' = RollbackTarget(journal.before)
    BY <2>1, <2>2 DEF Selection, Pending, PlannedJournal
  <2> QED BY <2>2, <2>3 DEF PlannedJournal, Atomic!SwapGenerations, Atomic!RollbackTarget,
             RollbackTarget, Atomic!SameSchema, SameSchema, Atomic!Link, Link
<1> QED BY <1>1, <1>2, InductiveInvariant, PTL
        DEF Spec, ImplementsAtomicRollback, Atomic!Spec
=============================================================================
