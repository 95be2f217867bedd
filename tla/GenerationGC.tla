----------------------------- MODULE GenerationGC -----------------------------
(***************************************************************************)
(* gc.rs beside the rescue transaction: a dry run shows a plan, the user   *)
(* approves it by its id, and `gc --apply' computes it again under every   *)
(* generation lock and deletes it, one directory at a time.                *)
(*                                                                         *)
(* The plan id is a digest of the whole plan, so plans are compared as     *)
(* values.  While gc holds its locks no rescue command runs; in between,   *)
(* and after a crash of either, they alternate freely.                     *)
(***************************************************************************)
EXTENDS RescueTransaction

CONSTANTS
    Pins,     \* generations named in pins/<layer>.txt
    Newest,   \* system ids, newest first
    Keep      \* values of --keep the user may pass

ASSUME CollectorAssumption ==
    /\ Pins \subseteq Generation
    /\ Newest \in Seq(System)
    /\ System = {Newest[i] : i \in 1 .. Len(Newest)}
    /\ Keep \subseteq Nat

VARIABLES
    gc,        \* what the collector is doing
    approved,  \* the plan the user has seen, or None
    plan       \* the plan gc --apply is carrying out, or None

gcVars == <<gc, approved, plan>>
allVars == <<vars, gcVars>>

-----------------------------------------------------------------------------
Present(d) == {g \in Generation : Exists(d, g)}

Collected == <<System, Dotfiles, Shell, Helpers>>

\* Mutant of Linked: the previous generation of a layer is not protected.
LinkedCurrentOnly(p) ==
    {p[l] : l \in {"system/current", "system/previous", "shell/current", "dotfiles/current",
                   "helpers/current"}} \ {None}

\* current and previous of every layer.
Linked(p) == {p[l] : l \in Link} \ {None}

\* The newest systems not protected already, as many as --keep says.
Additional(d, protected, keep) ==
    LET candidates == {i \in 1 .. Len(Newest) : Exists(d, Newest[i]) /\ Newest[i] \notin protected}
    IN  {Newest[i] : i \in {j \in candidates : Cardinality(candidates \cap 1 .. (j - 1)) < keep}}

\* Mutant of WithLegacyProof: the schema-1 source of a checkpoint is garbage.
WithoutLegacyProof(systems) == systems

\* Checkpoints keep the schema-1 system that proves them.
WithLegacyProof(systems) == systems \cup ({Manifest[s].legacy : s \in systems} \ {None})

RetainedSystems(d, p, keep) ==
    LET protected == (Linked(p) \cup Pins) \cap System
    IN  WithLegacyProof(protected \cup Additional(d, protected, keep))

\* ... with the components their manifests name.
Retained(d, p, keep) ==
    LET systems == RetainedSystems(d, p, keep)
    IN  (Linked(p) \cup Pins \cup systems \cup
         UNION {{Manifest[s].shell, Manifest[s].dotfiles, Manifest[s].helpers} : s \in systems})
        \ {None}

\* build(): any of these errors aborts the collection before it deletes.  Of a
\* damaged shell, validate_shell() may say either.
PlanComputes(d, p, keep) ==
    /\ \A l \in Link : p[l] = None \/ Exists(d, p[l])
    /\ \A l \in {"system/current", "shell/current", "dotfiles/current"} : p[l] # None
    /\ Present(d) \cap Helpers # {} => p["helpers/current"] # None
    /\ Pins \subseteq Present(d)
    /\ \A s \in RetainedSystems(d, p, keep) : VerifySystemPath(d, s)
    /\ Current(d, p)
    /\ \A g \in Retained(d, p, keep) : IF g \in Shell THEN Exists(d, g) ELSE Intact(d, g)

PlanOf(d, p, keep) ==
    [keep |-> keep, links |-> p, protected |-> Retained(d, p, keep),
     delete |-> Present(d) \ Retained(d, p, keep)]

-----------------------------------------------------------------------------
\* The dry run, without locks.
DryRun ==
    /\ gc = "idle"
    /\ \E keep \in Keep :
         /\ PlanComputes(disk, ptr, keep)
         /\ approved' = PlanOf(disk, ptr, keep)
    /\ UNCHANGED <<vars, gc, plan>>

\* Every lock is tried, none is waited for.  check_mutation() looks at the
\* install journal only.
LocksFree == lock["install"] = None /\ lock["system"] = None

\* gc --apply --plan-id: under the locks the plan is still the approved one.
ApplyPlan ==
    /\ gc = "idle"
    /\ approved # None
    /\ LocksFree
    /\ "install" \notin pending
    /\ PlanComputes(disk, ptr, approved.keep)
    /\ PlanOf(disk, ptr, approved.keep) = approved
    /\ plan' = approved
    /\ gc' = "backup"
    /\ UNCHANGED <<vars, approved>>

\* The metadata backup is written and the plan computed once more.
Recheck ==
    /\ gc = "backup"
    /\ LET same == PlanComputes(disk, ptr, plan.keep) /\ PlanOf(disk, ptr, plan.keep) = plan
       IN  \/ same /\ gc' = "delete" /\ UNCHANGED plan
           \/ /\ ~same \/ \E g \in plan.protected \cap Shell : ~Intact(disk, g)
              /\ gc' = "idle" /\ plan' = None
    /\ UNCHANGED <<vars, approved>>

\* The layer whose turn it is: system metadata before the components.
Remaining(layer) == plan.delete \cap layer \cap Present(disk)

Turn(i) == Remaining(Collected[i]) # {} /\ \A j \in 1 .. (i - 1) : Remaining(Collected[j]) = {}

Delete ==
    /\ gc = "delete"
    /\ \E i \in 1 .. 4 : Turn(i) /\ \E g \in Remaining(Collected[i]) :
         disk' = [disk EXCEPT ![g] = "absent"]
    /\ UNCHANGED <<ptr, journal, pending, lock, pc, mem, step, faults, gcVars>>

\* remove_dir_all() stops half-way; the call, and its locks, are gone.
DeleteInterrupted ==
    /\ gc = "delete"
    /\ faults < MaxFaults
    /\ faults' = faults + 1
    /\ \E i \in 1 .. 4 : Turn(i) /\ \E g \in Remaining(Collected[i]) :
         disk' \in {disk, [disk EXCEPT ![g] = "damaged"]}
    /\ gc' = "idle"
    /\ plan' = None
    /\ UNCHANGED <<ptr, journal, pending, lock, pc, mem, step, approved>>

Finish ==
    /\ gc = "delete"
    /\ plan.delete \cap Present(disk) = {}
    /\ gc' = "idle"
    /\ plan' = None
    /\ UNCHANGED <<vars, approved>>

CollectorStep == DryRun \/ ApplyPlan \/ Recheck \/ Delete \/ DeleteInterrupted \/ Finish

\* The rescue commands; gc holds install.lock from ApplyPlan on.
RescueStep ==
    /\ \E p \in Proc : \/ gc = "idle" /\ TryInstallLock(p, "lockRollback")
                       \/ gc = "idle" /\ TryInstallLock(p, "lockRecover")
                       \/ Rollback(p)
                       \/ Recover(p)
                       \/ Crash(p)
    /\ UNCHANGED gcVars

GCInit == Init /\ gc = "idle" /\ approved = None /\ plan = None

GCSpec == GCInit /\ [][RescueStep \/ CollectorStep]_allVars

-----------------------------------------------------------------------------
GCTypeOK ==
    /\ TypeOK
    /\ gc \in {"idle", "backup", "delete"}
    /\ (gc = "idle") <=> (plan = None)
    /\ \A x \in {approved, plan} \ {None} :
         /\ x.keep \in Keep
         /\ x.protected \cup x.delete \subseteq Generation
         /\ x.protected \cap x.delete = {}

\* No link ever dangles: neither a collection, interrupted or not, nor the
\* rescue commands that run between its plan and its deletions leave a
\* selection behind that names a generation which is gone.
LinksLive == \A l \in Link : ptr[l] = None \/ Exists(disk, ptr[l])

\* At every moment, also between two deletions and after a crash among them: a
\* plan keeps apart what it protects and what it deletes, and no link dangles.
GCInv == GCTypeOK /\ LinksLive

\* A rollback that was possible stays possible through a collection: current,
\* previous, their components and the proof of a checkpoint survive it.
RollbackSurvives ==
    [][CollectorStep /\ PlanRollback(disk, ptr) => PlanRollback(disk', ptr')]_allVars

\* The durable journal makes an interrupted rollback recoverable: recover can
\* load it as long as it is there.
JournalStaysLoadable == Loads
=============================================================================
