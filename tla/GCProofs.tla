------------------------------- MODULE GCProofs -------------------------------
(***************************************************************************)
(* Proofs about the generation garbage collector beside the rescue         *)
(* transaction, for any store of generations, any number of invocations    *)
(* and any --keep.                                                         *)
(*                                                                         *)
(* The rescue transaction keeps its own inductive invariant: the collector *)
(* touches nothing but the disk, which that invariant does not mention.    *)
(* What is added is why a deletion is safe at the moment it happens, long  *)
(* after the plan was made: gc --apply took both locks when no invocation  *)
(* held them, none starts until it lets them go, so the links are still    *)
(* those the plan was made of, and the plan deletes nothing of theirs.     *)
(***************************************************************************)
EXTENDS GenerationGC, RescueProofs

\* What the links need: the generations they name, and for each system among
\* them its components and the schema-1 system that proves it.
Kept(p) ==
    (Linked(p) \cup UNION {{Manifest[s].shell, Manifest[s].dotfiles, Manifest[s].helpers,
                            Manifest[s].legacy} : s \in Linked(p) \cap System}) \ {None}

\* A collection at work is alone, and its plan spares what the links need.
CollectsAlone ==
    gc # "idle" =>
        /\ \A p \in Proc : pc[p] = "idle"
        /\ plan.delete \cap Kept(ptr) = {}

GCIInv == IInv /\ GCInv /\ CollectsAlone

-----------------------------------------------------------------------------
\* Whatever the disk and --keep, a plan retains generations only, and all the
\* links need are among them.
LEMMA RetainedCovers ==
    ASSUME NEW d, NEW p \in Pointers, NEW keep \in Nat
    PROVE  Retained(d, p, keep) \subseteq Generation /\ Kept(p) \subseteq Retained(d, p, keep)
<1> DEFINE systems == RetainedSystems(d, p, keep)
           protected == (Linked(p) \cup Pins) \cap System
<1>1. Linked(p) \subseteq Generation
  BY DEF Linked, Pointers
<1>2. Additional(d, protected, keep) \subseteq System
  BY CollectorAssumption DEF Additional
<1>3. systems \subseteq System
  <2>1. \A s \in System : Manifest[s].legacy \in System \cup {None}
    BY StoreAssumption DEF SystemMeta
  <2> QED BY <1>2, <2>1 DEF RetainedSystems, WithLegacyProof
<1>4. \A s \in System :
        /\ Manifest[s].shell \in Generation /\ Manifest[s].dotfiles \in Generation
        /\ Manifest[s].helpers \in Generation \cup {None}
  BY StoreAssumption DEF SystemMeta, Generation
<1>5. Retained(d, p, keep) \subseteq Generation
  <2> SUFFICES ASSUME NEW g \in Retained(d, p, keep) PROVE g \in Generation
    OBVIOUS
  <2>1. /\ g # None
        /\ \/ g \in Linked(p) \cup Pins \cup systems
           \/ \E s \in systems :
                g \in {Manifest[s].shell, Manifest[s].dotfiles, Manifest[s].helpers}
    BY DEF Retained
  <2>2. CASE g \in Linked(p) \cup Pins \cup systems
    BY <1>1, <1>3, <2>2, CollectorAssumption DEF Generation
  <2>3. CASE g \notin Linked(p) \cup Pins \cup systems
    BY <1>3, <1>4, <2>1, <2>3
  <2> QED BY <2>2, <2>3
<1>6. /\ Linked(p) \cap System \subseteq systems
      /\ \A s \in Linked(p) \cap System : Manifest[s].legacy \in systems \cup {None}
  BY DEF RetainedSystems, WithLegacyProof
<1>7. Kept(p) \subseteq Retained(d, p, keep)
  <2> SUFFICES ASSUME NEW g \in Kept(p) PROVE g \in Retained(d, p, keep)
    OBVIOUS
  <2>1. CASE g \in Linked(p)
    BY <2>1 DEF Kept, Retained
  <2>2. CASE g \notin Linked(p)
    <3>1. PICK s \in Linked(p) \cap System :
            g \in {Manifest[s].shell, Manifest[s].dotfiles, Manifest[s].helpers, Manifest[s].legacy}
      BY <2>2 DEF Kept
    <3>2. g # None
      BY DEF Kept
    <3> QED BY <1>6, <3>1, <3>2 DEF Retained
  <2> QED BY <2>1, <2>2
<1> QED BY <1>5, <1>7

\* So a plan keeps apart what it protects and what it deletes, and spares what
\* the links need.
LEMMA PlanSpares ==
    ASSUME NEW d, NEW p \in Pointers, NEW keep \in Keep
    PROVE  LET made == PlanOf(d, p, keep)
           IN  /\ made.keep \in Keep
               /\ made.protected \cup made.delete \subseteq Generation
               /\ made.protected \cap made.delete = {}
               /\ made.delete \cap Kept(p) = {}
<1>1. Retained(d, p, keep) \subseteq Generation /\ Kept(p) \subseteq Retained(d, p, keep)
  BY RetainedCovers, CollectorAssumption
<1> QED BY <1>1 DEF PlanOf, Present

\* The plan at work is a plan as any other.
LEMMA PlanAtWork ==
    ASSUME GCIInv, gc # "idle"
    PROVE  plan # None /\ plan.delete \subseteq Generation /\ plan.delete \cap Kept(ptr) = {}
BY DEF GCIInv, GCInv, GCTypeOK, CollectsAlone

-----------------------------------------------------------------------------
\* The invariant holds of a machine on which nothing was collected yet.
LEMMA InitGCIInv == GCInit => GCIInv
<1> SUFFICES ASSUME GCInit PROVE GCIInv
  OBVIOUS
<1>1. IInv
  BY InitIInv DEF GCInit
<1>2. GCTypeOK
  BY <1>1 DEF GCInit, GCTypeOK, IInv
<1>3. LinksLive
  <2>1. \A l \in Link : ptr[l] \in Generation \cup {None}
    BY <1>1 DEF IInv, TypeOK, Pointers
  <2> QED BY <2>1 DEF GCInit, Init, LinksLive, Exists
<1> QED BY <1>1, <1>2, <1>3 DEF GCIInv, GCInv, CollectsAlone, GCInit

\* The collector leaves alone everything the rescue transaction's invariant
\* speaks of.
LEMMA CollectorKeepsRescue ==
    ASSUME GCIInv, CollectorStep
    PROVE  /\ IInv'
           /\ UNCHANGED <<ptr, pc, lock>>
<1>1. disk' \in Disk /\ faults' \in 0 .. MaxFaults
  <2>1. CASE Delete
    BY <2>1 DEF Delete, Remaining, Present, GCIInv, IInv, TypeOK, Disk
  <2>2. CASE DeleteInterrupted
    <3>1. disk' \in Disk
      BY <2>2 DEF DeleteInterrupted, Remaining, Present, GCIInv, IInv, TypeOK, Disk
    <3>2. faults' \in 0 .. MaxFaults
      BY <2>2, RescueAssumption DEF DeleteInterrupted, GCIInv, IInv, TypeOK
    <3> QED BY <3>1, <3>2
  <2>3. CASE DryRun \/ ApplyPlan \/ Recheck \/ Finish
    BY <2>3 DEF DryRun, ApplyPlan, Recheck, Finish, vars, GCIInv, IInv, TypeOK
  <2> QED BY <2>1, <2>2, <2>3 DEF CollectorStep
<1>2. UNCHANGED <<ptr, journal, pending, lock, pc, mem, step>>
  BY DEF CollectorStep, DryRun, ApplyPlan, Recheck, Delete, DeleteInterrupted, Finish, vars
<1> QED BY <1>1, <1>2 DEF GCIInv, IInv, TypeOK, LocksHeld, JournalInv, ProcInv

\* Only what the plan deletes leaves the disk, in whatever way.
LEMMA OnlyThePlanGoes ==
    ASSUME GCIInv, CollectorStep, NEW g \in Kept(ptr)
    PROVE  disk'[g] = disk[g]
<1>1. CASE Delete \/ DeleteInterrupted
  <2>1. gc # "idle"
    BY <1>1 DEF Delete, DeleteInterrupted
  <2>2. g \notin plan.delete
    BY <2>1, PlanAtWork
  <2>3. PICK h \in plan.delete, x \in {"absent", "damaged"} :
          disk' \in {disk, [disk EXCEPT ![h] = x]}
    BY <1>1 DEF Delete, DeleteInterrupted, Remaining
  <2>4. disk \in Disk
    BY DEF GCIInv, IInv, TypeOK
  <2>5. g # h
    BY <2>2
  <2>6. [disk EXCEPT ![h] = x][g] = disk[g]
    BY <2>4, <2>5 DEF Disk
  <2> QED BY <2>3, <2>6
<1>2. CASE ~(Delete \/ DeleteInterrupted)
  BY <1>2 DEF CollectorStep, DryRun, ApplyPlan, Recheck, Finish, vars
<1> QED BY <1>1, <1>2

\* When gc --apply gets both locks, no invocation is under way.
LEMMA LocksFreeMeansIdle ==
    ASSUME IInv, LocksFree
    PROVE  \A p \in Proc : pc[p] = "idle"
BY RescueAssumption DEF IInv, LocksHeld, LocksFree

\* A step of the collector: it plans, checks, deletes, stops half-way, ends.
LEMMA CollectorKeepsInv ==
    ASSUME GCIInv, CollectorStep
    PROVE  GCIInv'
<1>1. IInv' /\ UNCHANGED <<ptr, pc, lock>>
  BY CollectorKeepsRescue
<1>2. ptr \in Pointers
  BY DEF GCIInv, IInv, TypeOK
<1>3. LinksLive'
  <2> SUFFICES ASSUME NEW l \in Link, ptr[l] # None PROVE Exists(disk', ptr[l])
    BY <1>1 DEF LinksLive
  <2>1. ptr[l] \in Kept(ptr)
    BY DEF Kept, Linked
  <2>2. Exists(disk, ptr[l])
    BY DEF GCIInv, GCInv, LinksLive
  <2> QED BY <2>1, <2>2, OnlyThePlanGoes DEF Exists
<1>4. TypeOK'
  BY <1>1 DEF IInv
<1>5. CASE DryRun
  <2>1. PICK keep \in Keep : approved' = PlanOf(disk, ptr, keep)
    BY <1>5 DEF DryRun
  <2>2. UNCHANGED <<gc, plan>> /\ gc = "idle" /\ plan = None
    BY <1>5 DEF DryRun, GCIInv, GCInv, GCTypeOK
  <2>3. GCTypeOK'
    BY <1>2, <1>4, <2>1, <2>2, PlanSpares DEF GCTypeOK
  <2> QED BY <1>1, <1>3, <2>2, <2>3 DEF GCIInv, GCInv, CollectsAlone
<1>6. CASE ApplyPlan
  <2>1. /\ approved # None /\ plan' = approved /\ approved' = approved /\ gc' = "backup"
        /\ approved = PlanOf(disk, ptr, approved.keep)
    BY <1>6 DEF ApplyPlan
  <2>2. approved.keep \in Keep
    BY <2>1 DEF GCIInv, GCInv, GCTypeOK
  <2>3. approved.delete \cap Kept(ptr) = {}
    BY <1>2, <2>1, <2>2, PlanSpares
  <2>4. \A p \in Proc : pc[p] = "idle"
    BY <1>6, LocksFreeMeansIdle DEF ApplyPlan, GCIInv
  <2>5. GCTypeOK'
    BY <1>4, <2>1 DEF GCTypeOK, GCIInv, GCInv
  <2> QED BY <1>1, <1>3, <2>1, <2>3, <2>4, <2>5 DEF GCIInv, GCInv, CollectsAlone
<1>7. CASE Recheck \/ Delete \/ DeleteInterrupted \/ Finish
  <2>1. /\ approved' = approved
        /\ \/ gc' \in {gc, "delete"} /\ plan' = plan
           \/ gc' = "idle" /\ plan' = None
        /\ gc # "idle"
    BY <1>7 DEF Recheck, Delete, DeleteInterrupted, Finish, gcVars
  <2>2. GCTypeOK'
    BY <1>4, <2>1 DEF GCTypeOK, GCIInv, GCInv
  <2>3. CollectsAlone'
    BY <1>1, <2>1 DEF CollectsAlone, GCIInv
  <2> QED BY <1>1, <1>3, <2>2, <2>3 DEF GCIInv, GCInv
<1> QED BY <1>5, <1>6, <1>7 DEF CollectorStep

-----------------------------------------------------------------------------
\* What the rescue commands write are links to generations that exist, and the
\* disk is none of their business.
LEMMA RescueKeepsLinksLive ==
    ASSUME GCIInv, RescueStep
    PROVE  LinksLive'
<1>1. PICK p \in Proc : \/ TryInstallLock(p, "lockRollback") \/ TryInstallLock(p, "lockRecover")
                        \/ Rollback(p) \/ Recover(p) \/ Crash(p)
  BY DEF RescueStep
<1>2. LinksLive /\ ptr \in Pointers
  BY DEF GCIInv, GCInv, IInv, TypeOK
<1>3. CASE ptr' = ptr /\ disk' = disk
  BY <1>2, <1>3 DEF LinksLive
<1>4. ASSUME NEW l \in Link, NEW v, CanWrite(l, v), ptr' = [ptr EXCEPT ![l] = v], disk' = disk
      PROVE  LinksLive'
  BY <1>2, <1>4 DEF LinksLive, CanWrite, Pointers
<1>5. step[p] \in 1 .. 8 /\ ApplyOrder[step[p]] \in Link
  BY OrderCoversLinks DEF GCIInv, IInv, TypeOK
<1>6. CASE ApplyTarget(p) \/ ApplyBefore(p)
  BY <1>4, <1>5, <1>6 DEF ApplyTarget, ApplyBefore, WritePointer
<1>7. CASE ApplyTargetFails(p) \/ ApplyBeforeFails(p)
  BY <1>3, <1>4, <1>5, <1>7 DEF ApplyTargetFails, ApplyBeforeFails, PointerFails
<1>8. CASE ~(ApplyTarget(p) \/ ApplyBefore(p) \/ ApplyTargetFails(p) \/ ApplyBeforeFails(p))
  <2>1. ptr' = ptr /\ disk' = disk
    BY <1>1, <1>8 DEF Rollback, Recover, TryInstallLock, TakeSystemLock, RollbackPlan,
       RollbackRefused, Store, Verify, RemoveJournal, RecoverLoad, RecoverRefused,
       VerifyCommitted, RestoreCheck, RestoreVerify, RestoreFailed, Crash
  <2> QED BY <1>3, <2>1
<1> QED BY <1>6, <1>7, <1>8

\* No rescue command takes a step while a collection is at work.
LEMMA RescueWaits ==
    ASSUME GCIInv, RescueStep
    PROVE  gc = "idle" /\ UNCHANGED gcVars
<1> SUFFICES ASSUME gc # "idle" PROVE FALSE
  BY DEF RescueStep
<1>1. \A p \in Proc : pc[p] = "idle"
  BY DEF GCIInv, CollectsAlone
<1> QED BY <1>1 DEF RescueStep, Rollback, Recover, Crash, TakeSystemLock, RollbackPlan,
       RollbackRefused, Store, ApplyTarget, ApplyTargetFails, WritePointer, PointerFails,
       Verify, RemoveJournal, RecoverLoad, RecoverRefused, VerifyCommitted, RestoreCheck,
       ApplyBefore, ApplyBeforeFails, RestoreVerify, RestoreFailed

\* A step of a rescue command.
LEMMA RescueKeepsInv ==
    ASSUME GCIInv, RescueStep
    PROVE  GCIInv'
<1>1. IInv'
  <2>1. Next
    BY DEF RescueStep, Next
  <2> QED BY <2>1, NextIInv DEF GCIInv
<1>2. gc = "idle" /\ UNCHANGED <<gc, approved, plan>>
  BY RescueWaits DEF gcVars
<1>3. GCTypeOK'
  BY <1>1, <1>2 DEF GCTypeOK, GCIInv, GCInv, IInv
<1> QED BY <1>1, <1>2, <1>3, RescueKeepsLinksLive DEF GCIInv, GCInv, CollectsAlone

\* The inductive step.
LEMMA NextGCIInv == GCIInv /\ [RescueStep \/ CollectorStep]_allVars => GCIInv'
<1>1. ASSUME GCIInv, UNCHANGED allVars PROVE GCIInv'
  BY <1>1 DEF allVars, gcVars, vars, GCIInv, IInv, TypeOK, LocksHeld, JournalInv, ProcInv,
     GCInv, GCTypeOK, LinksLive, CollectsAlone
<1> QED BY <1>1, RescueKeepsInv, CollectorKeepsInv

\* The inductive invariant holds of every behaviour.
THEOREM GCInductiveInvariant == GCSpec => []GCIInv
BY InitGCIInv, NextGCIInv, PTL DEF GCSpec

\* gc.rs: no link ever dangles, whatever is collected, interrupted, rolled back
\* or recovered in between, and a plan never deletes what it protects.
THEOREM NoLinkDangles == GCSpec => []GCInv
<1>1. GCIInv => GCInv
  BY DEF GCIInv
<1> QED BY <1>1, GCInductiveInvariant, PTL

\* gc.rs: no step of a collection takes a possible rollback away.
THEOREM RollbackStaysPossible == GCSpec => RollbackSurvives
<1>1. GCIInv /\ [RescueStep \/ CollectorStep]_allVars =>
        [CollectorStep /\ PlanRollback(disk, ptr) => PlanRollback(disk', ptr')]_allVars
  <2> SUFFICES ASSUME GCIInv, CollectorStep, PlanRollback(disk, ptr)
               PROVE  PlanRollback(disk', ptr')
    OBVIOUS
  <2>1. ptr' = ptr
    BY CollectorKeepsRescue
  <2>2. ASSUME NEW s \in Linked(ptr) \cap System, VerifySystemPath(disk, s)
        PROVE  VerifySystemPath(disk', s)
    <3>1. s \in Kept(ptr)
      BY StoreAssumption DEF Kept, Generation
    <3>2. {Manifest[s].shell, Manifest[s].dotfiles, Manifest[s].helpers, Manifest[s].legacy}
            \subseteq Kept(ptr) \cup {None}
      BY DEF Kept
    <3>3. \A g \in Kept(ptr) : Intact(disk, g) => Intact(disk', g)
      BY OnlyThePlanGoes DEF Intact
    <3>4. \A g \in {Manifest[s].shell, Manifest[s].dotfiles, Manifest[s].helpers,
                    Manifest[s].legacy} : Intact(disk, g) => Intact(disk', g)
      BY <3>2, <3>3, StoreAssumption DEF Intact
    <3> QED BY <2>2, <3>1, <3>3, <3>4 DEF VerifySystemPath, IntactOrNone
  <2>3. \A l \in {"system/current", "system/previous"} :
          ptr[l] \in System => ptr[l] \in Linked(ptr) \cap System
    BY StoreAssumption DEF Linked, Link, Generation
  <2> QED BY <2>1, <2>2, <2>3 DEF PlanRollback, Current, Previous, VerifySystemPath
<1> QED BY <1>1, GCInductiveInvariant, PTL DEF GCSpec, RollbackSurvives
=============================================================================
