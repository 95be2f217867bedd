------------------------------ MODULE DndOwner ------------------------------
(***************************************************************************)
(* The owner of the do-not-disturb state (notification-helper, owner.rs).  *)
(*                                                                         *)
(* Every command takes notifications-rs.lock, so one command runs at a     *)
(* time; op is the command that holds the lock.  It may crash between any  *)
(* two durable writes (an I/O error that makes it return early leaves the  *)
(* same files).  The status file is also an ordinary file of the user's:   *)
(* an editor or an older program writes it without the lock.               *)
(*                                                                         *)
(* A status is what decode() reads from the file; equal bytes are equal    *)
(* statuses.  The directory of the owner exists from the start.            *)
(***************************************************************************)
EXTENDS Naturals, FiniteSets

CONSTANTS
    None,
    AutoKey,          \* idempotency keys automation calls with
    ManualKey,        \* random keys manual() draws
    MaxRevision,      \* MAX_REVISION
    MaxRecords,       \* MAX_RECORDS
    Override,         \* how long a manual choice pauses automation
    Retention,        \* RETENTION_SECS
    MaxClock,         \* bound on time
    MaxFaults,        \* bound on crashes and I/O errors
    MaxEdits,         \* bound on edits from outside
    EditInside        \* the points inside a command where an edit may fall

ASSUME DndAssumption ==
    /\ None \notin AutoKey \cup ManualKey
    /\ AutoKey \cap ManualKey = {}
    /\ {MaxRevision, MaxRecords, Override, Retention, MaxClock, MaxFaults, MaxEdits} \subseteq Nat
    /\ MaxRevision > 0

VARIABLES
    status,    \* notification-status.json
    anchor,    \* dnd-observed.json: the status the owner last saw
    journal,   \* dnd-journal.json
    receipt,   \* dnd-requests/<key>.json
    op,        \* the command holding the lock
    clock,     \* now()
    faults,    \* crashes and I/O errors so far
    edits,     \* edits from outside so far
    told,      \* the last stored state a command printed
    acted,     \* keys of automation whose change has reached the file
    choice     \* the user's last choice: state, and the end of its pause

files == <<status, anchor, journal, receipt>>
history == <<told, acted, choice>>
vars == <<files, op, clock, faults, edits, history>>

Key == AutoKey \cup ManualKey

Status == [dnd : BOOLEAN, revision : 0 .. MaxRevision, until : 0 .. MaxClock + Override]

Default == [dnd |-> FALSE, revision |-> 0, until |-> 0]

\* decode() of a missing file.
Decode(bytes) == IF bytes = None THEN Default ELSE bytes

Record ==
    [key : Key, expected : 0 .. MaxRevision, want : {"on", "off"},
     before : Status \cup {None}, after : Status,
     phase : {"PREPARED", "VERIFIED", "ABORTED"}, expires : 0 .. MaxClock + Retention]

Location == {"recover", "restore", "abort", "dropJournal", "ensureFile", "observe", "noteStatus",
             "noteAnchor", "act", "write", "readback", "anchor", "dropOwn", "forget"}

ASSUME EditAssumption == EditInside \subseteq Location

\* The arguments of apply_locked().
Request == [key : Key, expected : 0 .. MaxRevision, want : {"on", "off"}]

Command ==
    [kind : {"snapshot", "ensure", "recover", "set", "manual"}, at : Location,
     request : Request \cup {None}, seen : Status \cup {None}]

Choice == [dnd : BOOLEAN, until : Nat]

\* None is none of the values it stands for the absence of.
ASSUME NoneAssumption ==
    /\ None \notin Status /\ None \notin Record
    /\ None \notin Request /\ None \notin Command
    /\ None \notin Choice

TypeOK ==
    /\ status \in Status \cup {None}
    /\ anchor \in Status \cup {None}
    /\ journal \in Record \cup {None}
    /\ receipt \in [Key -> Record \cup {None}]
    /\ op \in Command \cup {None}
    /\ clock \in 0 .. MaxClock
    /\ faults \in 0 .. MaxFaults
    /\ edits \in 0 .. MaxEdits
    /\ told \in Status \cup {None}
    /\ acted \subseteq AutoKey
    /\ choice \in Choice \cup {None}

\* Nothing, or what a program older than the owner left.
Init ==
    /\ status \in {None, [dnd |-> TRUE, revision |-> 0, until |-> 0]}
    /\ anchor = None
    /\ journal = None
    /\ receipt = [k \in Key |-> None]
    /\ op = None
    /\ clock = 0
    /\ faults = 0
    /\ edits = 0
    /\ told = None
    /\ acted = {}
    /\ choice = None

-----------------------------------------------------------------------------
At(location) == op # None /\ op.at = location

Goto(location) == op' = [op EXCEPT !.at = location]

\* The command returns an error; the lock goes with the process.
Refuse == op' = None /\ UNCHANGED <<files, clock, faults, edits, history>>

\* Bookkeeping of the steps that neither print, nor act for a key, nor choose.
Quiet == UNCHANGED <<clock, faults, edits, history>>

\* A missing file is printed as the default, which is no stored state.
Tell(bytes) == told' = IF bytes = None THEN told ELSE bytes

Automatic == op.kind = "set"

\* The command takes the lock.  Its arguments are first looked at after
\* recover_locked() and observe_locked(), and are chosen there.
Call(kind) ==
    /\ op = None
    /\ op' = [kind |-> kind, at |-> "recover", request |-> None, seen |-> None]
    /\ Quiet
    /\ UNCHANGED files

-----------------------------------------------------------------------------
\* recover_locked()
Committed ==
    LET r == receipt[journal.key] IN
    r # None /\ r.phase = "VERIFIED" /\ r.after = journal.after

Recovered == CASE op.kind = "recover" -> op' = None
               [] op.kind = "ensure"  -> Goto("ensureFile")
               [] OTHER               -> Goto("observe")

RecoverNothing ==
    /\ At("recover")
    /\ journal = None
    /\ Recovered
    /\ Quiet
    /\ UNCHANGED files

\* Mutant of RecoverCommitted: the stale anchor is left alone.
RecoverCommittedKeepsAnchor ==
    /\ At("recover")
    /\ journal # None /\ Committed
    /\ Goto("dropJournal")
    /\ Quiet
    /\ UNCHANGED files

RecoverCommitted ==
    /\ At("recover")
    /\ journal # None /\ Committed
    /\ anchor' = journal.after
    /\ Goto("dropJournal")
    /\ Quiet
    /\ UNCHANGED <<status, journal, receipt>>

RecoverCheck ==
    /\ At("recover")
    /\ journal # None /\ ~Committed
    /\ status \in {journal.before, journal.after}
    /\ Goto(IF status = journal.before THEN "abort" ELSE "restore")
    /\ Quiet
    /\ UNCHANGED files

RecoverRefused ==
    /\ At("recover")
    /\ journal # None /\ ~Committed
    /\ status \notin {journal.before, journal.after}
    /\ Refuse

Restore ==
    /\ At("restore")
    /\ status' = journal.before
    /\ Goto("abort")
    /\ Quiet
    /\ UNCHANGED <<anchor, journal, receipt>>

\* Mutant of Abort: the request may be tried again with the same key.
AbortForgets ==
    /\ At("abort")
    /\ Goto("dropJournal")
    /\ Quiet
    /\ UNCHANGED files

Abort ==
    /\ At("abort")
    /\ receipt' = [receipt EXCEPT ![journal.key] = [journal EXCEPT !.phase = "ABORTED"]]
    /\ Goto("dropJournal")
    /\ Quiet
    /\ UNCHANGED <<status, anchor, journal>>

\* Mutant of DropJournal: an undone change keeps its journal.
DropJournalCommittedOnly ==
    /\ At("dropJournal")
    /\ journal' = IF Committed THEN None ELSE journal
    /\ Recovered
    /\ Quiet
    /\ UNCHANGED <<status, anchor, receipt>>

DropJournal ==
    /\ At("dropJournal")
    /\ journal' = None
    /\ Recovered
    /\ Quiet
    /\ UNCHANGED <<status, anchor, receipt>>

-----------------------------------------------------------------------------
\* ensure()
EnsureFile ==
    /\ At("ensureFile")
    /\ status' = Decode(status)
    /\ Goto("observe")
    /\ Quiet
    /\ UNCHANGED <<anchor, journal, receipt>>

\* observe_locked(): a status that is not the one last seen was edited from
\* outside, and becomes a manual choice with a revision of its own.
Noticed == anchor # None /\ status # anchor

\* Mutant of NoticedRevision: the revision of the edited file is trusted.
NoticedRevisionTrusted == Decode(status).revision + 1

NoticedRevision ==
    IF Decode(status).revision > anchor.revision
    THEN Decode(status).revision + 1 ELSE anchor.revision + 1

Observable ==
    anchor # None => /\ anchor.revision < MaxRevision
                     /\ Noticed => NoticedRevision <= MaxRevision

ObserveRefused == At("observe") /\ ~Observable /\ Refuse

Observe ==
    /\ At("observe")
    /\ Observable
    /\ op' = IF Noticed
             THEN [op EXCEPT !.at = "noteStatus",
                             !.seen = [Decode(status) EXCEPT !.revision = NoticedRevision,
                                                             !.until = clock + Override]]
             ELSE [op EXCEPT !.at = IF anchor = None /\ status # None THEN "noteAnchor" ELSE "act",
                             !.seen = status]
    /\ Quiet
    /\ UNCHANGED files

NoteStatus ==
    /\ At("noteStatus")
    /\ status' = op.seen
    /\ Goto("noteAnchor")
    /\ Quiet
    /\ UNCHANGED <<anchor, journal, receipt>>

NoteAnchor ==
    /\ At("noteAnchor")
    /\ anchor' = op.seen
    /\ Goto("act")
    /\ Quiet
    /\ UNCHANGED <<status, journal, receipt>>

-----------------------------------------------------------------------------
SnapshotTells ==
    /\ At("act")
    /\ op.kind = "snapshot"
    /\ Tell(op.seen)
    /\ op' = None
    /\ UNCHANGED <<files, clock, faults, edits, acted, choice>>

EnsureReturns == At("act") /\ op.kind = "ensure" /\ Refuse

\* manual(): it expects what it has just read; apply_locked() then recovers
\* and observes again.
ManualReads ==
    /\ At("act")
    /\ op.kind = "manual" /\ op.request = None
    /\ LET s == Decode(op.seen) IN
         \E mode \in {"on", "off", "toggle"}, k \in {k \in ManualKey : receipt[k] = None} :
           op' = [op EXCEPT !.at = "recover",
                            !.request = [key |-> k, expected |-> s.revision,
                                         want |-> CASE mode # "toggle" -> mode
                                                    [] s.dnd           -> "off"
                                                    [] OTHER           -> "on"]]
    /\ Quiet
    /\ UNCHANGED files

\* No random key can be had.
ManualFails == At("act") /\ op.kind = "manual" /\ op.request = None /\ Refuse

\* apply_locked(); automation calls it with any request, and again with one
\* it has made before.
Applying(request) ==
    /\ At("act")
    /\ \/ Automatic /\ request \in [key : AutoKey, expected : 0 .. MaxRevision, want : {"on", "off"}]
       \/ op.kind = "manual" /\ op.request # None /\ request = op.request

Replayed(request) ==
    LET r == receipt[request.key] IN
    /\ r # None
    /\ r.expected = request.expected /\ r.want = request.want
    /\ r.phase = "VERIFIED"
    /\ clock <= r.expires
    /\ r.after = op.seen

\* Mutant of ApplyAllowed: automation does not wait for the end of the pause.
ApplyAllowedUnpaused(request) ==
    /\ request.expected < MaxRevision
    /\ receipt[request.key] = None
    /\ Decode(op.seen).revision = request.expected
    /\ Automatic => Cardinality({k \in Key : receipt[k] # None}) < MaxRecords

ApplyAllowed(request) ==
    /\ request.expected < MaxRevision
    /\ receipt[request.key] = None
    /\ Decode(op.seen).revision = request.expected
    /\ Automatic => /\ Decode(op.seen).until <= clock
                    /\ Cardinality({k \in Key : receipt[k] # None}) < MaxRecords

Replay(request) ==
    /\ Applying(request)
    /\ Replayed(request)
    /\ Tell(op.seen)
    /\ op' = None
    /\ UNCHANGED <<files, clock, faults, edits, acted, choice>>

ApplyRefused(request) ==
    Applying(request) /\ ~Replayed(request) /\ ~ApplyAllowed(request) /\ Refuse

Prepare(request) ==
    /\ Applying(request)
    /\ ApplyAllowed(request)
    /\ journal' = [key |-> request.key, expected |-> request.expected, want |-> request.want,
                   before |-> op.seen,
                   after |-> [dnd |-> request.want = "on", revision |-> request.expected + 1,
                              until |-> IF Automatic THEN Decode(op.seen).until
                                        ELSE clock + Override],
                   phase |-> "PREPARED", expires |-> clock + Retention]
    /\ op' = [op EXCEPT !.at = "write", !.request = None, !.seen = None]
    /\ Quiet
    /\ UNCHANGED <<status, anchor, receipt>>

Write ==
    /\ At("write")
    /\ status' = journal.after
    /\ acted' = acted \cup ({journal.key} \cap AutoKey)
    /\ Goto("readback")
    /\ UNCHANGED <<anchor, journal, receipt, clock, faults, edits, told, choice>>

ReadbackFails == At("readback") /\ status # journal.after /\ Refuse

\* The durable receipt is the commit.
Verify ==
    /\ At("readback")
    /\ status = journal.after
    /\ receipt' = [receipt EXCEPT ![journal.key] = [journal EXCEPT !.phase = "VERIFIED"]]
    /\ choice' = IF Automatic THEN choice
                 ELSE [dnd |-> journal.after.dnd, until |-> journal.after.until]
    /\ Goto("anchor")
    /\ UNCHANGED <<status, anchor, journal, clock, faults, edits, told, acted>>

WriteAnchor ==
    /\ At("anchor")
    /\ anchor' = journal.after
    /\ Goto("dropOwn")
    /\ Quiet
    /\ UNCHANGED <<status, journal, receipt>>

DropOwnJournal ==
    /\ At("dropOwn")
    /\ journal' = None
    /\ IF Automatic
       THEN op' = None /\ Tell(journal.after)
       ELSE /\ op' = [op EXCEPT !.at = "forget", !.seen = journal.after,
                                !.request = [key |-> journal.key, expected |-> journal.expected,
                                             want |-> journal.want]]
            /\ UNCHANGED told
    /\ UNCHANGED <<status, anchor, receipt, clock, faults, edits, acted, choice>>

\* A random key is never used again; its receipt need not take room.
ForgetReceipt ==
    /\ At("forget")
    /\ receipt' = [receipt EXCEPT ![op.request.key] = None]
    /\ Tell(op.seen)
    /\ op' = None
    /\ UNCHANGED <<status, anchor, journal, clock, faults, edits, acted, choice>>

-----------------------------------------------------------------------------
Crash ==
    /\ op # None
    /\ faults < MaxFaults
    /\ faults' = faults + 1
    /\ op' = None
    /\ UNCHANGED <<files, clock, edits, history>>

Tick == clock < MaxClock /\ clock' = clock + 1 /\ UNCHANGED <<files, op, faults, edits, history>>

\* What the owner will compare the file with.
Seen == IF journal # None /\ Committed THEN journal.after ELSE anchor

\* The user's file: dnd switched by hand, a file of a program that knows no
\* revision, one with a revision near the last, or none at all.
EditedFiles ==
    {[dnd |-> d, revision |-> r, until |-> 0] : d \in BOOLEAN, r \in {0, MaxRevision - 1}}
        \cup (IF status = None THEN {} ELSE {[status EXCEPT !.dnd = ~@]}) \cup {None}

\* A file edited to other bytes is the user's choice, with a pause of its own if
\* it switches what the owner has seen, and under the owner's pause if not.  The
\* bytes an unfinished change was to write are taken for that change.
Chosen(bytes) ==
    IF Seen = None \/ (journal # None /\ ~Committed /\ bytes = journal.after) THEN None
    ELSE [dnd |-> Decode(bytes).dnd,
          until |-> IF Decode(bytes).dnd # Seen.dnd THEN clock + Override ELSE Seen.until]

Edit ==
    /\ edits < MaxEdits
    /\ op # None => op.at \in EditInside
    /\ edits' = edits + 1
    /\ \E bytes \in EditedFiles \ {status} : status' = bytes /\ choice' = Chosen(bytes)
    /\ UNCHANGED <<anchor, journal, receipt, op, clock, faults, told, acted>>

OwnerStep ==
    \/ RecoverNothing \/ RecoverCommitted \/ RecoverCheck \/ RecoverRefused
    \/ Restore \/ Abort \/ DropJournal
    \/ EnsureFile \/ Observe \/ ObserveRefused \/ NoteStatus \/ NoteAnchor
    \/ SnapshotTells \/ EnsureReturns \/ ManualReads \/ ManualFails
    \/ \E request \in Request : Replay(request) \/ ApplyRefused(request) \/ Prepare(request)
    \/ Write \/ ReadbackFails \/ Verify
    \/ WriteAnchor \/ DropOwnJournal \/ ForgetReceipt

Arrive == \E kind \in {"snapshot", "ensure", "recover", "set", "manual"} : Call(kind)

Next ==
    \/ Arrive
    \/ OwnerStep
    \/ Crash \/ Tick \/ Edit

Spec == Init /\ [][Next]_vars

-----------------------------------------------------------------------------
\* What a command prints is never contradicted: a later one prints the same
\* state or one of a higher revision, whatever crashed, was undone or was
\* edited from outside in between.  Compare-and-swap on the revision rests on
\* this.
ToldNeverContradicted ==
    [][told # None /\ told' # told => told'.revision > told.revision]_vars

\* A key of automation changes the file at most once, over every retry, crash
\* and recovery.
KeyActsOnce == [][At("write") /\ Automatic /\ status' # status /\ op' # op => journal.key \notin acted]_vars

\* While the pause of the user's last choice lasts, a command or an edit, the
\* file holds that choice, unless a later manual command is halfway.
UserChoiceHolds ==
    choice # None /\ clock < choice.until
        => \/ Decode(status).dnd = choice.dnd
           \/ journal # None /\ journal.key \in ManualKey /\ ~Committed

\* The owner pauses automation for the user only, never for a change of its
\* own that a crash kept it from recording.
PauseIsTheUsers == edits = 0 /\ choice = None => Decode(status).until = 0 \/ journal # None

\* The files hold what their readers accept, whatever a crash left of a change,
\* and automation is paused by the user alone.
DndInv == TypeOK /\ PauseIsTheUsers

-----------------------------------------------------------------------------
\* A command that runs goes on running, and commands keep coming: the shell
\* calls ensure at every start, and its timer and the policy snapshot.
FairSpec == Spec /\ WF_vars(OwnerStep) /\ WF_vars(Arrive)

\* Without edits from outside, no crash leaves a journal behind for good:
\* the next commands undo or finish what it describes.
JournalCleared == [](edits = 0) => []<>(journal = None)
=============================================================================
