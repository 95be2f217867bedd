-------------------------- MODULE GenerationStore --------------------------
(***************************************************************************)
(* The immutable generations of the platform and the eight pointers that   *)
(* select them.  A system generation names one shell, one dotfiles and     *)
(* (schema 2) one helper generation; "current" and "previous" exist for    *)
(* each of the four layers.  Everything here is a constant-level operator  *)
(* on a pointer snapshot p and a disk d; the transactions that move the    *)
(* pointers are in the modules that extend this one.                       *)
(*                                                                         *)
(* A generation on disk is intact, damaged (its directory exists and a     *)
(* digest no longer matches) or absent.                                    *)
(***************************************************************************)
EXTENDS Naturals, FiniteSets

CONSTANTS
    System, Shell, Dotfiles, Helpers,  \* generation ids, one set per layer
    None,                              \* a pointer that does not exist
    Manifest                           \* SYSTEM.json of every system generation

Generation == System \cup Shell \cup Dotfiles \cup Helpers

\* SYSTEM.json: helpers = None is schema 1; legacy is legacySourceSystem, the
\* schema-1 generation a migration checkpoint was made from.
SystemMeta == [shell : Shell, dotfiles : Dotfiles,
               helpers : Helpers \cup {None}, legacy : System \cup {None}]

ASSUME StoreAssumption ==
    /\ None \notin Generation
    /\ System \cap (Shell \cup Dotfiles \cup Helpers) = {}
    /\ Shell \cap (Dotfiles \cup Helpers) = {}
    /\ Dotfiles \cap Helpers = {}
    /\ Manifest \in [System -> SystemMeta]

Link == {"system/current",   "system/previous",
         "shell/current",    "shell/previous",
         "dotfiles/current", "dotfiles/previous",
         "helpers/current",  "helpers/previous"}

\* The directory of generations a link may select from.
Builds(l) == CASE l \in {"system/current", "system/previous"}     -> System
               [] l \in {"shell/current", "shell/previous"}       -> Shell
               [] l \in {"dotfiles/current", "dotfiles/previous"} -> Dotfiles
               [] l \in {"helpers/current", "helpers/previous"}   -> Helpers

Pointers == {p \in [Link -> Generation \cup {None}] :
                \A l \in Link : p[l] \in Builds(l) \cup {None}}

Disk == [Generation -> {"intact", "damaged", "absent"}]

-----------------------------------------------------------------------------
\* managed_generation: the directory exists under its builds root.
Exists(d, g) == g \in Generation /\ d[g] # "absent"

\* The digests recorded in the generation's own manifest still match.
Intact(d, g) == g \in Generation /\ d[g] = "intact"

IntactOrNone(d, g) == g = None \/ Intact(d, g)

\* A legacy checkpoint must agree with the schema-1 system it was made from.
LegacyMatches(s) ==
    LET old == Manifest[Manifest[s].legacy]
    IN  /\ old.helpers = None
        /\ old.shell = Manifest[s].shell
        /\ old.dotfiles = Manifest[s].dotfiles

VerifySystemPath(d, s) ==
    /\ s \in System
    /\ Intact(d, s)
    /\ Intact(d, Manifest[s].shell)
    /\ Intact(d, Manifest[s].dotfiles)
    /\ IntactOrNone(d, Manifest[s].helpers)
    /\ Manifest[s].legacy # None => Intact(d, Manifest[s].legacy) /\ LegacyMatches(s)

\* The component pointers are the ones system/current's manifest names.
Coherent(p) ==
    /\ p["system/current"] \in System
    /\ p["shell/current"] = Manifest[p["system/current"]].shell
    /\ p["dotfiles/current"] = Manifest[p["system/current"]].dotfiles
    /\ p["helpers/current"] = Manifest[p["system/current"]].helpers

Current(d, p) == Coherent(p) /\ VerifySystemPath(d, p["system/current"])

Previous(d, p) == VerifySystemPath(d, p["system/previous"])

SameSchema(s, t) == (Manifest[s].helpers = None) <=> (Manifest[t].helpers = None)

PlanRollback(d, p) ==
    /\ Current(d, p)
    /\ Previous(d, p)
    /\ p["system/current"] # p["system/previous"]
    /\ SameSchema(p["system/current"], p["system/previous"])

\* Pointers::validate, also what existing_pointer demands of every live link:
\* no pointer of the snapshot names a generation that is gone.
Validate(d, p) == \A l \in Link : p[l] = None \/ Exists(d, p[l])

\* Mutant of RollbackTarget: the helper pointer keeps the active bundle.
RollbackTargetKeepsHelpers(p) ==
    [l \in Link |->
        CASE l = "system/current"    -> p["system/previous"]
          [] l = "system/previous"   -> p["system/current"]
          [] l = "shell/current"     -> Manifest[p["system/previous"]].shell
          [] l = "shell/previous"    -> Manifest[p["system/current"]].shell
          [] l = "dotfiles/current"  -> Manifest[p["system/previous"]].dotfiles
          [] l = "dotfiles/previous" -> Manifest[p["system/current"]].dotfiles
          [] OTHER                   -> p[l]]

\* The pointers a rollback from p selects: the previous system with its own
\* components, the active one as the new previous.
RollbackTarget(p) ==
    LET active   == Manifest[p["system/current"]]
        previous == Manifest[p["system/previous"]]
    IN  [l \in Link |->
            CASE l = "system/current"    -> p["system/previous"]
              [] l = "system/previous"   -> p["system/current"]
              [] l = "shell/current"     -> previous.shell
              [] l = "shell/previous"    -> active.shell
              [] l = "dotfiles/current"  -> previous.dotfiles
              [] l = "dotfiles/previous" -> active.dotfiles
              [] l = "helpers/current"   -> previous.helpers
              [] l = "helpers/previous"  -> active.helpers]

\* planned(): every check made before a rollback journal is written.
Planned(d, p) ==
    /\ PlanRollback(d, p)
    /\ Manifest[p["system/current"]].helpers = None => p["helpers/previous"] = None
    /\ Validate(d, p)
    /\ Validate(d, RollbackTarget(p))

\* verify_snapshot_contents(): the snapshot is coherent and every generation it
\* names verifies, the previous ones included.
VerifySnapshot(d, p) ==
    /\ Validate(d, p)
    /\ Current(d, p)
    /\ Previous(d, p)
    /\ IntactOrNone(d, p["shell/previous"])
    /\ IntactOrNone(d, p["dotfiles/previous"])
    /\ IntactOrNone(d, p["helpers/previous"])
=============================================================================
