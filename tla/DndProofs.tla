------------------------------ MODULE DndProofs ------------------------------
(***************************************************************************)
(* Proofs about the owner of the do-not-disturb state, for any keys and    *)
(* bounds, any number of crashes and any edits of the status file from     *)
(* outside, wherever in a command they fall.                               *)
(*                                                                         *)
(* Nothing is assumed of the status file but that it is one: the argument  *)
(* rests on the anchor, the journal and the receipts, which only the owner *)
(* writes.                                                                 *)
(***************************************************************************)
EXTENDS DndOwner, TLAPS

\* What a command knows where it is.
CommandInv ==
    op # None =>
        /\ op.at \in {"restore", "abort"} => journal # None /\ ~Committed
        /\ op.at = "dropJournal" =>
             /\ journal # None /\ receipt[journal.key] # None
             /\ Committed => anchor = journal.after
        /\ op.at \in {"ensureFile", "observe", "noteStatus", "noteAnchor", "act", "forget"} =>
             journal = None
        /\ op.at \in {"write", "readback"} => journal # None /\ ~Committed
        /\ op.at = "write" => receipt[journal.key] = None
        /\ op.at \in {"anchor", "dropOwn"} => journal # None /\ Committed
        /\ op.at = "dropOwn" => anchor = journal.after
        /\ op.at \in {"write", "readback", "anchor", "dropOwn"} =>
             journal.key \in IF Automatic THEN AutoKey ELSE ManualKey
        /\ op.at \in {"noteStatus", "noteAnchor"} =>
             /\ op.seen # None
             /\ anchor # None => op.seen.revision > anchor.revision
        /\ op.at \in {"act", "forget"} => op.seen = anchor
        /\ op.at = "forget" => op.seen # None /\ op.request # None
        /\ op.request # None => op.request.key \in ManualKey

\* The owner's own order: a change that is not committed starts from the anchor
\* and has a later revision, and nothing printed is later than what the owner
\* will compare the file with.
RevisionInv ==
    /\ journal # None /\ ~Committed =>
         /\ journal.before = anchor
         /\ anchor # None => journal.after.revision > anchor.revision
    /\ told # None => Seen # None /\ (Seen = told \/ Seen.revision > told.revision)

\* A key that has acted has its receipt, or the journal in which it will get one.
KeyInv ==
    \A k \in acted : receipt[k] # None \/ (journal # None /\ journal.key = k /\ ~At("write"))

\* As long as nobody else edits the file, it is what the owner wrote last, and
\* it pauses nothing as long as the user has not chosen.
UneditedInv ==
    edits = 0 =>
        /\ journal = None => anchor \in {None, status}
        /\ journal # None => status = journal.after \/ (~Committed /\ status = journal.before)
        /\ journal # None /\ ~Committed /\ (At("abort") \/ At("dropJournal")) =>
             status = journal.before
        /\ ~At("noteStatus")
        /\ At("noteAnchor") => op.seen = status
        /\ At("act") => status = anchor
        /\ choice = None =>
             /\ Decode(anchor).until = 0
             /\ journal = None => Decode(status).until = 0
             /\ journal # None /\ (Committed \/ journal.key \in AutoKey) => journal.after.until = 0

IInv == TypeOK /\ CommandInv /\ RevisionInv /\ KeyInv /\ UneditedInv

-----------------------------------------------------------------------------
\* The constants are what they are for.
LEMMA Constants ==
    /\ MaxRevision \in Nat /\ MaxRevision > 0
    /\ MaxClock \in Nat /\ Override \in Nat /\ Retention \in Nat
    /\ MaxFaults \in Nat /\ MaxEdits \in Nat
    /\ None \notin Key /\ AutoKey \cap ManualKey = {}
BY DndAssumption DEF Key

\* What a missing file decodes to is a status.
LEMMA DecodeTyped == ASSUME NEW bytes \in Status \cup {None} PROVE Decode(bytes) \in Status
BY Constants DEF Decode, Default, Status

\* A journal becomes a receipt by its phase alone.
LEMMA ReceiptOf ==
    ASSUME NEW j \in Record, NEW phase \in {"VERIFIED", "ABORTED"}
    PROVE  /\ [j EXCEPT !.phase = phase] \in Record
           /\ [j EXCEPT !.phase = phase].phase = phase
           /\ [j EXCEPT !.phase = phase].after = j.after
BY DEF Record

\* Nothing done yet, or the file of an older program.
LEMMA InitIInv == Init => IInv
<1> SUFFICES ASSUME Init PROVE IInv
  OBVIOUS
<1>1. status \in Status \cup {None} /\ (status # None => status.until = 0)
  <2>1. PICK old : old = [dnd |-> TRUE, revision |-> 0, until |-> 0]
    OBVIOUS
  <2>2. old \in Status /\ old.until = 0
    BY <2>1, Constants DEF Status
  <2> QED BY <2>1, <2>2 DEF Init
<1>2. TypeOK
  BY <1>1, Constants DEF Init, TypeOK
<1>3. CommandInv /\ RevisionInv /\ KeyInv
  BY DEF Init, CommandInv, RevisionInv, KeyInv
<1>4. UneditedInv
  BY <1>1 DEF Init, UneditedInv, At, Decode, Default
<1> QED BY <1>2, <1>3, <1>4 DEF IInv

-----------------------------------------------------------------------------
\* The command ends, with or without an error, or it dies.
LEMMA EndStep ==
    ASSUME IInv, op' = None, faults' \in 0 .. MaxFaults, UNCHANGED <<files, clock, edits, history>>
    PROVE  IInv'
<1>1. TypeOK' /\ CommandInv' /\ RevisionInv' /\ KeyInv' /\ UneditedInv'
  BY DEF IInv, TypeOK, CommandInv, RevisionInv, KeyInv, UneditedInv, files, history, At, Committed,
     Seen
<1> QED BY <1>1 DEF IInv

\* The command prints the anchor, and ends.
LEMMA TellStep ==
    ASSUME IInv, At("act"), Tell(op.seen), op' = None,
           UNCHANGED <<files, clock, faults, edits, acted, choice>>
    PROVE  IInv'
<1>1. journal = None /\ op.seen = anchor
  BY DEF IInv, CommandInv, At
<1>2. TypeOK' /\ CommandInv' /\ KeyInv' /\ UneditedInv'
  BY DEF IInv, TypeOK, CommandInv, KeyInv, UneditedInv, files, Tell, At, Committed, Command
<1>3. RevisionInv'
  BY <1>1 DEF IInv, RevisionInv, files, Tell, Committed, Seen
<1> QED BY <1>2, <1>3 DEF IInv

\* The command goes on, and nothing else happens.
LEMMA MoveStep ==
    ASSUME IInv, op # None, NEW location \in Location, Goto(location),
           UNCHANGED <<files, clock, faults, edits, history>>,
           location \notin {"dropJournal", "noteStatus", "noteAnchor", "act", "anchor", "dropOwn", "forget",
                            "write", "readback"},
           location \in {"ensureFile", "observe"} => journal = None,
           location \in {"restore", "abort"} => journal # None /\ ~Committed,
           location = "abort" => status = journal.before
    PROVE  IInv'
<1>1. /\ op' \in Command /\ op'.at = location
      /\ op'.kind = op.kind /\ op'.request = op.request /\ op'.seen = op.seen
  BY DEF IInv, TypeOK, Command, Goto
<1>2. TypeOK' /\ RevisionInv'
  BY <1>1 DEF IInv, TypeOK, RevisionInv, files, history, Committed, Seen
<1>3. CommandInv'
  BY <1>1 DEF IInv, CommandInv, files, Committed
<1>4. KeyInv'
  BY <1>1, Constants DEF IInv, KeyInv, files, history, At, TypeOK
<1>5. UneditedInv'
  BY <1>1 DEF IInv, UneditedInv, files, history, At, Committed
<1> QED BY <1>2, <1>3, <1>4, <1>5 DEF IInv

-----------------------------------------------------------------------------
\* recover_locked(): no journal, one that waits for its undo, or one that
\* cannot be undone.
LEMMA RecoverStep ==
    ASSUME IInv, RecoverNothing \/ RecoverCheck \/ RecoverRefused
    PROVE  IInv'
<1>1. CASE RecoverNothing
  <2>1. CASE op' = None
    BY <1>1, <2>1, EndStep DEF RecoverNothing, Quiet, IInv, TypeOK
  <2>2. CASE op' # None
    BY <1>1, <2>2, MoveStep DEF RecoverNothing, Recovered, Quiet, At, Location
  <2> QED BY <2>1, <2>2
<1>2. CASE RecoverCheck
  BY <1>2, MoveStep DEF RecoverCheck, Quiet, At, Location
<1>3. CASE RecoverRefused
  BY <1>3, EndStep DEF RecoverRefused, Refuse, IInv, TypeOK
<1> QED BY <1>1, <1>2, <1>3

\* The change was committed: the anchor catches up with it.
LEMMA RecoverCommittedStep == ASSUME IInv, RecoverCommitted PROVE IInv'
<1>1. /\ op # None /\ journal # None /\ Committed /\ op.at = "recover"
      /\ op' \in Command /\ op'.at = "dropJournal"
      /\ op'.kind = op.kind /\ op'.request = op.request /\ op'.seen = op.seen
      /\ anchor' = journal.after /\ journal.after \in Status
      /\ UNCHANGED <<status, journal, receipt, clock, faults, edits, told, acted, choice>>
  BY DEF RecoverCommitted, At, Goto, Quiet, history, IInv, TypeOK, Command, Location, Record
<1>2. Committed' /\ receipt[journal.key] # None
  BY <1>1 DEF Committed
<1>3. TypeOK'
  BY <1>1 DEF IInv, TypeOK
<1>4. CommandInv' /\ RevisionInv'
  BY <1>1, <1>2 DEF IInv, CommandInv, RevisionInv, Seen
<1>5. KeyInv'
  BY <1>1 DEF IInv, KeyInv, At
<1>6. UneditedInv'
  BY <1>1, <1>2, Constants DEF IInv, TypeOK, UneditedInv, At, Decode, Default, Status
<1> QED BY <1>3, <1>4, <1>5, <1>6 DEF IInv

\* The undo writes the status that was there before.
LEMMA RestoreStep == ASSUME IInv, Restore PROVE IInv'
<1>1. /\ op # None /\ journal # None /\ ~Committed /\ op.at = "restore"
      /\ op' \in Command /\ op'.at = "abort"
      /\ op'.kind = op.kind /\ op'.request = op.request /\ op'.seen = op.seen
      /\ status' = journal.before /\ journal.before \in Status \cup {None}
      /\ UNCHANGED <<anchor, journal, receipt, clock, faults, edits, told, acted, choice>>
  BY DEF Restore, At, Goto, Quiet, history, IInv, TypeOK, CommandInv, Command, Location, Record
<1>2. ~Committed' /\ (Seen' = Seen)
  BY <1>1 DEF Committed, Seen
<1>3. TypeOK'
  BY <1>1 DEF IInv, TypeOK
<1>4. CommandInv' /\ RevisionInv'
  BY <1>1, <1>2 DEF IInv, CommandInv, RevisionInv
<1>5. KeyInv'
  BY <1>1 DEF IInv, KeyInv, At
<1>6. UneditedInv'
  BY <1>1, <1>2 DEF IInv, UneditedInv, At
<1> QED BY <1>3, <1>4, <1>5, <1>6 DEF IInv

\* The receipt of an undone change.
LEMMA AbortStep == ASSUME IInv, Abort PROVE IInv'
<1>1. /\ op # None /\ journal \in Record /\ journal # None /\ ~Committed /\ op.at = "abort"
      /\ op' \in Command /\ op'.at = "dropJournal"
      /\ op'.kind = op.kind /\ op'.request = op.request /\ op'.seen = op.seen
      /\ receipt' = [receipt EXCEPT ![journal.key] = [journal EXCEPT !.phase = "ABORTED"]]
      /\ UNCHANGED <<status, anchor, journal, clock, faults, edits, told, acted, choice>>
  BY DEF Abort, At, Goto, Quiet, history, IInv, TypeOK, CommandInv, Command, Location
<1>2. PICK aborted \in Record :
        aborted = [journal EXCEPT !.phase = "ABORTED"] /\ aborted.phase = "ABORTED"
  BY <1>1, ReceiptOf
<1>3. journal.key \in Key /\ receipt \in [Key -> Record \cup {None}]
  BY <1>1 DEF IInv, TypeOK, Record
<1>4. receipt'[journal.key] = aborted /\ receipt' \in [Key -> Record \cup {None}]
  BY <1>1, <1>2, <1>3
<1>5. ~Committed' /\ Seen' = Seen /\ aborted # None
  BY <1>1, <1>2, <1>4, NoneAssumption DEF Committed, Seen
<1>6. TypeOK'
  BY <1>1, <1>4 DEF IInv, TypeOK
<1>7. CommandInv' /\ RevisionInv'
  BY <1>1, <1>4, <1>5 DEF IInv, CommandInv, RevisionInv
<1>8. KeyInv'
  BY <1>1, <1>3, <1>4, <1>5 DEF IInv, KeyInv, At
<1>9. UneditedInv'
  BY <1>1, <1>5 DEF IInv, UneditedInv, At
<1> QED BY <1>6, <1>7, <1>8, <1>9 DEF IInv

\* The journal of a change that was undone, or committed, is removed.
LEMMA DropJournalStep == ASSUME IInv, DropJournal PROVE IInv'
<1>1. /\ op # None /\ journal # None /\ op.at = "dropJournal"
      /\ journal' = None /\ receipt[journal.key] # None
      /\ Committed => anchor = journal.after
      /\ UNCHANGED <<status, anchor, receipt, clock, faults, edits, told, acted, choice>>
  BY DEF DropJournal, At, Quiet, history, IInv, CommandInv
<1>2. \/ op' = None
      \/ /\ op' \in Command /\ op'.at \in {"ensureFile", "observe"}
         /\ op'.kind = op.kind /\ op'.request = op.request /\ op'.seen = op.seen
  BY <1>1 DEF DropJournal, Recovered, Goto, IInv, TypeOK, Command, Location
<1>3. TypeOK'
  BY <1>1, <1>2 DEF IInv, TypeOK
<1>4. CommandInv' /\ RevisionInv'
  BY <1>1, <1>2 DEF IInv, CommandInv, RevisionInv, Seen
<1>5. KeyInv'
  BY <1>1 DEF IInv, KeyInv
<1>6. UneditedInv'
  <2> SUFFICES ASSUME edits = 0 PROVE UneditedInv'
    BY <1>1 DEF UneditedInv
  <2>1. status = anchor
    BY <1>1 DEF IInv, UneditedInv, RevisionInv, At
  <2> QED BY <1>1, <1>2, <2>1 DEF IInv, UneditedInv, At
<1> QED BY <1>3, <1>4, <1>5, <1>6 DEF IInv

-----------------------------------------------------------------------------
\* ensure() writes the file that was missing.
LEMMA EnsureFileStep == ASSUME IInv, EnsureFile PROVE IInv'
<1>1. /\ op # None /\ journal = None /\ op.at = "ensureFile"
      /\ op' \in Command /\ op'.at = "observe"
      /\ op'.kind = op.kind /\ op'.request = op.request /\ op'.seen = op.seen
      /\ status' = Decode(status) /\ status' \in Status
      /\ UNCHANGED <<anchor, journal, receipt, clock, faults, edits, told, acted, choice>>
  BY DecodeTyped DEF EnsureFile, At, Goto, Quiet, history, IInv, TypeOK, CommandInv, Command, Location
<1>2. TypeOK'
  BY <1>1 DEF IInv, TypeOK
<1>3. CommandInv' /\ RevisionInv'
  BY <1>1 DEF IInv, CommandInv, RevisionInv, Seen
<1>4. KeyInv'
  BY <1>1 DEF IInv, KeyInv, At
<1>5. UneditedInv'
  BY <1>1 DEF IInv, UneditedInv, At, Decode
<1> QED BY <1>2, <1>3, <1>4, <1>5 DEF IInv

\* The manual choice an edit becomes: what the file says, of a revision of its
\* own, with a pause that starts now.
LEMMA NoticedStatus ==
    ASSUME IInv, Noticed, Observable
    PROVE  \E seen \in Status :
              /\ seen = [Decode(status) EXCEPT !.revision = NoticedRevision, !.until = clock + Override]
              /\ seen.revision > anchor.revision
              /\ seen.dnd = Decode(status).dnd /\ seen.until = clock + Override
<1>1. PICK seen : seen = [Decode(status) EXCEPT !.revision = NoticedRevision, !.until = clock + Override]
  OBVIOUS
<1>2. Decode(status) \in Status /\ anchor # None /\ anchor \in Status
  BY DecodeTyped DEF Noticed, IInv, TypeOK
<1>3. NoticedRevision \in 0 .. MaxRevision /\ NoticedRevision > anchor.revision
  BY <1>2, Constants DEF Noticed, Observable, NoticedRevision, Status
<1>4. clock + Override \in 0 .. MaxClock + Override
  BY Constants DEF IInv, TypeOK
<1>5. seen \in Status /\ seen.revision = NoticedRevision
  BY <1>1, <1>2, <1>3, <1>4 DEF Status
<1>6. seen.dnd = Decode(status).dnd /\ seen.until = clock + Override
  BY <1>1, <1>2 DEF Status
<1> QED BY <1>1, <1>3, <1>5, <1>6

\* observe_locked(): what is seen is the anchor, or later than the anchor.
LEMMA ObserveStep == ASSUME IInv, Observe PROVE IInv'
<1>1. /\ op \in Command /\ op # None /\ journal = None /\ op.at = "observe" /\ Observable
      /\ UNCHANGED <<files, clock, faults, edits, history>>
      /\ status \in Status \cup {None} /\ anchor \in Status \cup {None}
  BY DEF Observe, At, Quiet, IInv, TypeOK, CommandInv
<1>2. /\ op' \in Command /\ op'.kind = op.kind /\ op'.request = op.request
      /\ \/ /\ Noticed /\ op'.at = "noteStatus" /\ op'.seen # None
            /\ op'.seen.revision > anchor.revision
         \/ /\ ~Noticed /\ anchor = None /\ status # None
            /\ op'.at = "noteAnchor" /\ op'.seen = status
         \/ ~Noticed /\ op'.at = "act" /\ op'.seen = status /\ status = anchor
  <2>1. CASE Noticed
    <3>1. PICK seen \in Status :
             /\ seen = [Decode(status) EXCEPT !.revision = NoticedRevision, !.until = clock + Override]
             /\ seen.revision > anchor.revision
      BY <1>1, <2>1, NoticedStatus
    <3>2. op' = [op EXCEPT !.at = "noteStatus", !.seen = seen]
      BY <2>1, <3>1 DEF Observe
    <3>3. /\ op' \in Command /\ op'.kind = op.kind /\ op'.request = op.request
          /\ op'.at = "noteStatus" /\ op'.seen = seen
      BY <1>1, <3>2 DEF Command, Location
    <3> QED BY <2>1, <3>1, <3>3, NoneAssumption
  <2>2. CASE ~Noticed
    <3>1. PICK next \in {"noteAnchor", "act"} :
            /\ op' = [op EXCEPT !.at = next, !.seen = status]
            /\ next = "noteAnchor" <=> anchor = None /\ status # None
      BY <2>2 DEF Observe
    <3>2. /\ op' \in Command /\ op'.kind = op.kind /\ op'.request = op.request
          /\ op'.at = next /\ op'.seen = status
      BY <1>1, <3>1 DEF Command, Location
    <3> QED BY <2>2, <3>1, <3>2 DEF Noticed
  <2> QED BY <2>1, <2>2
<1>3. TypeOK' /\ RevisionInv'
  BY <1>1, <1>2 DEF IInv, TypeOK, RevisionInv, Seen, files, history
<1>4. CommandInv'
  BY <1>1, <1>2 DEF IInv, CommandInv, files
<1>5. KeyInv'
  BY <1>1 DEF IInv, KeyInv, files, history
<1>6. UneditedInv'
  BY <1>1, <1>2 DEF IInv, UneditedInv, At, Noticed, files, history
<1> QED BY <1>3, <1>4, <1>5, <1>6 DEF IInv

\* The edit from outside becomes a state of its own: file, then anchor.
LEMMA NoteStep == ASSUME IInv, NoteStatus \/ NoteAnchor PROVE IInv'
<1>1. /\ op # None /\ journal = None /\ op.at \in {"noteStatus", "noteAnchor"}
      /\ op.seen \in Status /\ op.seen # None
      /\ anchor # None => op.seen.revision > anchor.revision
      /\ op' \in Command
      /\ op'.kind = op.kind /\ op'.request = op.request /\ op'.seen = op.seen
      /\ UNCHANGED <<journal, receipt, clock, faults, edits, told, acted, choice>>
  BY DEF NoteStatus, NoteAnchor, At, Goto, Quiet, history, IInv, TypeOK, CommandInv, Command, Location
<1>2. \/ NoteStatus /\ op'.at = "noteAnchor" /\ status' = op.seen /\ anchor' = anchor
      \/ NoteAnchor /\ op'.at = "act" /\ anchor' = op.seen /\ status' = status
  BY <1>1 DEF NoteStatus, NoteAnchor, Goto, IInv, TypeOK, Command
<1>3. TypeOK'
  BY <1>1, <1>2 DEF IInv, TypeOK
<1>4. CommandInv'
  BY <1>1, <1>2 DEF IInv, CommandInv
<1>5. RevisionInv'
  <2>1. anchor \in Status \cup {None} /\ told \in Status \cup {None}
    BY DEF IInv, TypeOK
  <2> QED BY <1>1, <1>2, <2>1, Constants DEF IInv, RevisionInv, Seen, Status
<1>6. KeyInv'
  BY <1>1 DEF IInv, KeyInv
<1>7. UneditedInv'
  BY <1>1, <1>2 DEF IInv, UneditedInv, At, NoteStatus, NoteAnchor
<1> QED BY <1>3, <1>4, <1>5, <1>6, <1>7 DEF IInv

-----------------------------------------------------------------------------
\* manual() takes a random key that nothing has used.
LEMMA ManualReadsStep == ASSUME IInv, ManualReads PROVE IInv'
<1>1. /\ op \in Command /\ op # None /\ journal = None
      /\ UNCHANGED <<files, clock, faults, edits, history>>
  BY DEF ManualReads, At, Quiet, IInv, TypeOK, CommandInv
<1>2. PICK k \in ManualKey, want \in {"on", "off"} :
        op' = [op EXCEPT !.at = "recover",
                         !.request = [key |-> k, expected |-> Decode(op.seen).revision,
                                      want |-> want]]
  BY DEF ManualReads
<1>3. PICK request \in Request :
        request = [key |-> k, expected |-> Decode(op.seen).revision, want |-> want]
  BY <1>1, DecodeTyped DEF Command, Request, Key, Status
<1>4. /\ op' \in Command /\ op'.at = "recover" /\ op'.kind = op.kind
      /\ op'.request = request /\ request.key = k
  BY <1>1, <1>2, <1>3 DEF Command, Location
<1>5. TypeOK' /\ RevisionInv'
  BY <1>1, <1>4 DEF IInv, TypeOK, RevisionInv, files, history, Seen
<1>6. CommandInv'
  BY <1>1, <1>4 DEF IInv, CommandInv, files
<1>7. KeyInv' /\ UneditedInv'
  BY <1>1, <1>4 DEF IInv, KeyInv, UneditedInv, files, history, At
<1> QED BY <1>5, <1>6, <1>7 DEF IInv

\* The journal of a change: from the anchor, to a later revision, for a key
\* that has not acted.
LEMMA PrepareStep == ASSUME IInv, NEW request \in Request, Prepare(request) PROVE IInv'
<1>1. /\ op \in Command /\ op # None /\ op.at = "act" /\ journal = None /\ op.seen = anchor
      /\ anchor \in Status \cup {None}
      /\ request.expected < MaxRevision /\ receipt[request.key] = None
      /\ Decode(anchor).revision = request.expected
      /\ op.kind \in {"set", "manual"}
      /\ request.key \in IF Automatic THEN AutoKey ELSE ManualKey
      /\ UNCHANGED <<status, anchor, receipt, clock, faults, edits, told, acted, choice>>
  BY DEF Prepare, Applying, ApplyAllowed, At, Quiet, history, IInv, TypeOK, CommandInv, Automatic
<1>2. PICK until \in 0 .. MaxClock + Override :
        /\ until = IF Automatic THEN Decode(anchor).until ELSE clock + Override
  BY <1>1, DecodeTyped, Constants DEF IInv, TypeOK, Status
<1>3. PICK after : after = [dnd |-> request.want = "on", revision |-> request.expected + 1,
                            until |-> until]
  OBVIOUS
<1>4. after \in Status /\ after.revision = request.expected + 1 /\ after.until = until
  BY <1>1, <1>2, <1>3, Constants DEF Status, Request
<1>5. journal' = [key |-> request.key, expected |-> request.expected, want |-> request.want,
                  before |-> anchor, after |-> after, phase |-> "PREPARED",
                  expires |-> clock + Retention]
  BY <1>1, <1>2, <1>3 DEF Prepare
<1>6. clock + Retention \in 0 .. MaxClock + Retention
  BY Constants DEF IInv, TypeOK
<1>7. /\ journal' \in Record /\ journal' # None
      /\ journal'.key = request.key /\ journal'.before = anchor /\ journal'.after = after
  BY <1>1, <1>4, <1>5, <1>6, NoneAssumption DEF Record, Request
<1>8. /\ op' \in Command /\ op'.at = "write" /\ op'.kind = op.kind /\ op'.request = None
  BY <1>1 DEF Prepare, Command, Location
<1>9. ~Committed' /\ Seen' = Seen /\ Seen = anchor
  BY <1>1, <1>7 DEF Committed, Seen
<1>10. TypeOK'
  BY <1>1, <1>7, <1>8 DEF IInv, TypeOK
<1>11. CommandInv'
  BY <1>1, <1>7, <1>8, <1>9 DEF CommandInv, Automatic
<1>12. RevisionInv'
  <2>1. anchor # None => after.revision > anchor.revision
    BY <1>1, <1>4 DEF Decode, Status
  <2> QED BY <1>1, <1>7, <1>9, <2>1 DEF IInv, RevisionInv
<1>13. KeyInv'
  BY <1>1 DEF IInv, KeyInv
<1>14. UneditedInv'
  <2>1. edits = 0 => status = anchor
    BY <1>1 DEF IInv, UneditedInv, At
  <2>2. edits = 0 /\ choice = None /\ request.key \in AutoKey => after.until = 0
    BY <1>1, <1>2, <1>4, Constants DEF IInv, UneditedInv
  <2> QED BY <1>1, <1>7, <1>8, <1>9, <2>1, <2>2 DEF IInv, UneditedInv, At
<1> QED BY <1>10, <1>11, <1>12, <1>13, <1>14 DEF IInv

\* The change reaches the file.
LEMMA WriteStep == ASSUME IInv, Write PROVE IInv'
<1>1. /\ op \in Command /\ op # None /\ op.at = "write" /\ journal \in Record /\ journal # None
      /\ ~Committed /\ status' = journal.after /\ acted' = acted \cup ({journal.key} \cap AutoKey)
      /\ UNCHANGED <<anchor, journal, receipt, clock, faults, edits, told, choice>>
  BY DEF Write, At, IInv, TypeOK, CommandInv
<1>2. /\ op' \in Command /\ op'.at = "readback"
      /\ op'.kind = op.kind /\ op'.request = op.request /\ op'.seen = op.seen
  BY <1>1 DEF Write, Goto, Command, Location
<1>3. ~Committed' /\ Seen' = Seen
  BY <1>1 DEF Committed, Seen
<1>4. TypeOK'
  BY <1>1, <1>2 DEF IInv, TypeOK, Record
<1>5. CommandInv' /\ RevisionInv'
  BY <1>1, <1>2, <1>3 DEF IInv, CommandInv, RevisionInv, Automatic
<1>6. KeyInv'
  BY <1>1, <1>2 DEF IInv, KeyInv, At
<1>7. UneditedInv'
  BY <1>1, <1>2, <1>3 DEF IInv, UneditedInv, At
<1> QED BY <1>4, <1>5, <1>6, <1>7 DEF IInv

\* The receipt commits the change: the owner now compares with it.
LEMMA VerifyStep == ASSUME IInv, Verify PROVE IInv'
<1>1. /\ op \in Command /\ op # None /\ op.at = "readback" /\ journal \in Record /\ journal # None
      /\ ~Committed /\ status = journal.after /\ journal.after \in Status
      /\ receipt' = [receipt EXCEPT ![journal.key] = [journal EXCEPT !.phase = "VERIFIED"]]
      /\ choice' = IF Automatic THEN choice
                   ELSE [dnd |-> journal.after.dnd, until |-> journal.after.until]
      /\ UNCHANGED <<status, anchor, journal, clock, faults, edits, told, acted>>
  BY DEF Verify, At, IInv, TypeOK, CommandInv, Record
<1>2. PICK verified \in Record :
        /\ verified = [journal EXCEPT !.phase = "VERIFIED"]
        /\ verified.phase = "VERIFIED" /\ verified.after = journal.after
  BY <1>1, ReceiptOf
<1>3. journal.key \in Key /\ receipt \in [Key -> Record \cup {None}]
  BY <1>1 DEF IInv, TypeOK, Record
<1>4. receipt'[journal.key] = verified /\ receipt' \in [Key -> Record \cup {None}]
  BY <1>1, <1>2, <1>3
<1>5. Committed' /\ Seen' = journal.after /\ Seen = anchor
  BY <1>1, <1>2, <1>4, NoneAssumption DEF Committed, Seen
<1>6. /\ op' \in Command /\ op'.at = "anchor"
      /\ op'.kind = op.kind /\ op'.request = op.request /\ op'.seen = op.seen
  BY <1>1 DEF Verify, Goto, Command, Location
<1>7. choice' \in Choice \cup {None} /\ (~Automatic => choice' # None)
  <2>1. CASE Automatic
    BY <1>1, <2>1 DEF IInv, TypeOK
  <2>2. CASE ~Automatic
    BY <1>1, <2>2, Constants, NoneAssumption DEF Status, Choice
  <2> QED BY <2>1, <2>2
<1>8. TypeOK'
  BY <1>1, <1>4, <1>6, <1>7 DEF IInv, TypeOK
<1>9. CommandInv'
  BY <1>1, <1>5, <1>6 DEF IInv, CommandInv, Automatic
<1>10. RevisionInv'
  <2>1. anchor \in Status \cup {None} /\ told \in Status \cup {None}
    BY DEF IInv, TypeOK
  <2> QED BY <1>1, <1>5, <2>1, NoneAssumption DEF IInv, RevisionInv, Status
<1>11. KeyInv'
  BY <1>1, <1>3, <1>6 DEF IInv, KeyInv, At
<1>12. UneditedInv'
  BY <1>1, <1>5, <1>6, <1>7 DEF IInv, UneditedInv, CommandInv, At
<1> QED BY <1>8, <1>9, <1>10, <1>11, <1>12 DEF IInv

\* The anchor follows the committed change.
LEMMA WriteAnchorStep == ASSUME IInv, WriteAnchor PROVE IInv'
<1>1. /\ op \in Command /\ op # None /\ op.at = "anchor" /\ journal \in Record /\ journal # None
      /\ Committed /\ anchor' = journal.after
      /\ UNCHANGED <<status, journal, receipt, clock, faults, edits, told, acted, choice>>
  BY DEF WriteAnchor, At, Quiet, history, IInv, TypeOK, CommandInv
<1>2. /\ op' \in Command /\ op'.at = "dropOwn"
      /\ op'.kind = op.kind /\ op'.request = op.request /\ op'.seen = op.seen
  BY <1>1 DEF WriteAnchor, Goto, Command, Location
<1>3. Committed' /\ Seen' = Seen
  BY <1>1 DEF Committed, Seen
<1>4. TypeOK'
  BY <1>1, <1>2 DEF IInv, TypeOK, Record
<1>5. CommandInv' /\ RevisionInv'
  BY <1>1, <1>2, <1>3 DEF IInv, CommandInv, RevisionInv, Automatic
<1>6. KeyInv'
  BY <1>1, <1>2 DEF IInv, KeyInv, At
<1>7. UneditedInv'
  <2>1. journal.after \in Status /\ journal.after # None
    BY <1>1, NoneAssumption DEF Record
  <2> QED BY <1>1, <1>2, <1>3, <2>1 DEF IInv, UneditedInv, At, Decode
<1> QED BY <1>4, <1>5, <1>6, <1>7 DEF IInv

\* The journal of a change that reached its end is removed.
LEMMA DropOwnJournalStep == ASSUME IInv, DropOwnJournal PROVE IInv'
<1>1. /\ op \in Command /\ op # None /\ op.at = "dropOwn" /\ journal \in Record /\ journal # None
      /\ Committed /\ anchor = journal.after /\ journal' = None
      /\ journal.key \in IF Automatic THEN AutoKey ELSE ManualKey
      /\ UNCHANGED <<status, anchor, receipt, clock, faults, edits, acted, choice>>
  BY DEF DropOwnJournal, At, IInv, TypeOK, CommandInv
<1>2. /\ anchor \in Status /\ anchor # None /\ Seen = anchor /\ Seen' = anchor
      /\ receipt[journal.key] # None
  BY <1>1, NoneAssumption DEF Seen, Committed, Record
<1>3. \/ op' = None /\ told' = anchor
      \/ /\ op' \in Command /\ op'.at = "forget" /\ op'.seen = anchor
         /\ op'.request # None /\ op'.request.key \in ManualKey /\ told' = told
  <2>1. CASE Automatic
    BY <1>1, <1>2, <2>1 DEF DropOwnJournal, Tell
  <2>2. CASE ~Automatic
    <3>1. PICK request : request = [key |-> journal.key, expected |-> journal.expected,
                                    want |-> journal.want]
      OBVIOUS
    <3>2. request \in Request /\ request.key = journal.key
      BY <1>1, <3>1 DEF Record, Request
    <3>3. op' = [op EXCEPT !.at = "forget", !.seen = anchor, !.request = request]
      BY <1>1, <2>2, <3>1 DEF DropOwnJournal
    <3>4. op' \in Command /\ op'.at = "forget" /\ op'.seen = anchor /\ op'.request = request
      BY <1>1, <1>2, <3>2, <3>3 DEF Command, Location
    <3> QED BY <1>1, <2>2, <3>2, <3>4, NoneAssumption DEF DropOwnJournal
  <2> QED BY <2>1, <2>2
<1>4. TypeOK'
  BY <1>1, <1>2, <1>3 DEF IInv, TypeOK
<1>5. CommandInv' /\ RevisionInv'
  BY <1>1, <1>2, <1>3 DEF IInv, CommandInv, RevisionInv
<1>6. KeyInv'
  BY <1>1, <1>2 DEF IInv, KeyInv
<1>7. UneditedInv'
  BY <1>1, <1>2, <1>3 DEF IInv, UneditedInv, At, Decode
<1> QED BY <1>4, <1>5, <1>6, <1>7 DEF IInv

\* The receipt of a random key goes: no key of automation loses its own.
LEMMA ForgetReceiptStep == ASSUME IInv, ForgetReceipt PROVE IInv'
<1>1. /\ op # None /\ journal = None /\ op' = None
      /\ op.seen = anchor /\ anchor # None /\ op.request.key \in ManualKey
      /\ receipt' = [receipt EXCEPT ![op.request.key] = None] /\ told' = anchor
      /\ UNCHANGED <<status, anchor, journal, clock, faults, edits, acted, choice>>
  BY DEF ForgetReceipt, At, Tell, IInv, CommandInv
<1>2. receipt \in [Key -> Record \cup {None}] /\ acted \subseteq AutoKey
  BY DEF IInv, TypeOK
<1>3. TypeOK'
  BY <1>1, <1>2 DEF IInv, TypeOK
<1>4. CommandInv' /\ RevisionInv'
  BY <1>1 DEF CommandInv, RevisionInv, Seen
<1>5. KeyInv'
  BY <1>1, <1>2, Constants DEF IInv, KeyInv, Key
<1>6. UneditedInv'
  BY <1>1 DEF IInv, UneditedInv, At
<1> QED BY <1>3, <1>4, <1>5, <1>6 DEF IInv

-----------------------------------------------------------------------------
\* A command arrives.
LEMMA ArriveStep == ASSUME IInv, Arrive PROVE IInv'
<1>1. PICK kind \in {"snapshot", "ensure", "recover", "set", "manual"} : Call(kind)
  BY DEF Arrive
<1>2. /\ op' \in Command /\ op' # None /\ op'.at = "recover" /\ op'.request = None
      /\ UNCHANGED <<files, clock, faults, edits, history>>
  BY <1>1, NoneAssumption DEF Call, Quiet, Command, Location
<1>3. TypeOK' /\ CommandInv' /\ RevisionInv'
  BY <1>2 DEF IInv, TypeOK, CommandInv, RevisionInv, files, history, Committed, Seen
<1>4. KeyInv' /\ UneditedInv'
  BY <1>2 DEF IInv, KeyInv, UneditedInv, files, history, At, Committed
<1> QED BY <1>3, <1>4 DEF IInv

\* An edit from outside, or the time: the owner's own files stay.
LEMMA OutsideStep == ASSUME IInv, Edit \/ Tick PROVE IInv'
<1>1. /\ UNCHANGED <<anchor, journal, receipt, op, faults, told, acted>>
      /\ \/ edits' = edits + 1 /\ edits < MaxEdits
         \/ UNCHANGED <<status, edits, choice>>
  BY DEF Edit, Tick, files, history
<1>2. clock' \in 0 .. MaxClock
  BY Constants DEF Edit, Tick, IInv, TypeOK
<1>3. status' \in Status \cup {None}
  <2>1. CASE Tick
    BY <2>1 DEF Tick, files, IInv, TypeOK
  <2>2. ASSUME NEW bytes \in EditedFiles PROVE bytes \in Status \cup {None}
    <3>1. CASE status # None /\ bytes = [status EXCEPT !.dnd = ~@]
      BY <3>1 DEF Status, IInv, TypeOK
    <3>2. ASSUME NEW d \in BOOLEAN, NEW r \in {0, MaxRevision - 1},
                 bytes = [dnd |-> d, revision |-> r, until |-> 0]
          PROVE  bytes \in Status
      BY <3>2, Constants DEF Status
    <3> QED BY <2>2, <3>1, <3>2 DEF EditedFiles
  <2> QED BY <2>1, <2>2 DEF Edit
<1>4. choice' \in Choice \cup {None}
  <2>1. CASE Tick
    BY <2>1 DEF Tick, history, IInv, TypeOK
  <2>2. clock + Override \in Nat
    BY Constants DEF IInv, TypeOK
  <2>3. Decode(status').dnd \in BOOLEAN
    BY <1>3, DecodeTyped DEF Status
  <2>4. Seen # None => Seen.until \in Nat
    BY Constants DEF Seen, IInv, TypeOK, Record, Status
  <2> QED BY <2>1, <2>2, <2>3, <2>4 DEF Edit, Chosen, Choice, IInv, TypeOK
<1>5. TypeOK'
  BY <1>1, <1>2, <1>3, <1>4, Constants DEF IInv, TypeOK
<1>6. CommandInv' /\ RevisionInv' /\ KeyInv'
  BY <1>1 DEF IInv, CommandInv, RevisionInv, KeyInv, Committed, Seen, Automatic, At
<1>7. UneditedInv'
  BY <1>1 DEF IInv, TypeOK, UneditedInv, Committed, At
<1> QED BY <1>5, <1>6, <1>7 DEF IInv

\* The inductive step: one case per action.
LEMMA NextIInv == IInv /\ [Next]_vars => IInv'
<1> SUFFICES ASSUME IInv, [Next]_vars PROVE IInv'
  OBVIOUS
<1>1. CASE UNCHANGED vars
  BY <1>1 DEF vars, files, history, IInv, TypeOK, CommandInv, RevisionInv, KeyInv, UneditedInv,
     Committed, Seen, Automatic, At
<1>2. CASE SnapshotTells \/ \E request \in Request : Replay(request)
  BY <1>2, TellStep DEF SnapshotTells, Replay, Applying
<1>3. CASE \/ ObserveRefused \/ EnsureReturns \/ ManualFails \/ ReadbackFails \/ Crash
           \/ \E request \in Request : ApplyRefused(request)
  <2>1. faults' \in 0 .. MaxFaults
    BY <1>3, Constants DEF ObserveRefused, EnsureReturns, ManualFails, ReadbackFails, Crash,
       ApplyRefused, Refuse, IInv, TypeOK
  <2> QED BY <1>3, <2>1, EndStep DEF ObserveRefused, EnsureReturns, ManualFails, ReadbackFails,
             Crash, ApplyRefused, Refuse
<1> QED BY <1>1, <1>2, <1>3, RecoverStep, RecoverCommittedStep, RestoreStep, AbortStep,
           DropJournalStep, EnsureFileStep, ObserveStep, NoteStep, ManualReadsStep, PrepareStep,
           WriteStep, VerifyStep, WriteAnchorStep, DropOwnJournalStep, ForgetReceiptStep,
           ArriveStep, OutsideStep DEF Next, OwnerStep

\* The inductive invariant holds of every behaviour.
THEOREM InductiveInvariant == Spec => []IInv
BY InitIInv, NextIInv, PTL DEF Spec

\* owner.rs: the files are what their readers accept, and without edits from
\* outside nothing but the user's own choice pauses automation.
THEOREM OnlyTheUserPauses == Spec => []DndInv
<1>1. IInv => DndInv
  BY DEF IInv, UneditedInv, DndInv, PauseIsTheUsers
<1> QED BY <1>1, InductiveInvariant, PTL

\* owner.rs: what a command has printed is never contradicted by a later one,
\* whatever crashed, was undone or was edited from outside in between.
THEOREM PrintedRevisionsGrow == Spec => ToldNeverContradicted
<1>1. IInv /\ [Next]_vars =>
        [told # None /\ told' # told => told'.revision > told.revision]_vars
  <2> SUFFICES ASSUME IInv, Next, told # None, told' # told
               PROVE  told'.revision > told.revision
    BY DEF vars, history
  <2>1. \/ SnapshotTells \/ DropOwnJournal \/ ForgetReceipt
        \/ \E request \in Request : Replay(request)
    BY DEF Next, OwnerStep, Arrive, Call, Quiet, Refuse, history, RecoverNothing, RecoverCommitted,
       RecoverCheck, RecoverRefused, Restore, Abort, DropJournal, EnsureFile, Observe,
       ObserveRefused, NoteStatus, NoteAnchor, EnsureReturns, ManualReads, ManualFails,
       ApplyRefused, Prepare, Write, ReadbackFails, Verify, WriteAnchor, Crash, Tick, Edit
  <2>2. told' = Seen
    <3>1. CASE DropOwnJournal
      BY <2>1, <3>1 DEF DropOwnJournal, At, Tell, Seen, IInv, CommandInv
    <3>2. CASE ~DropOwnJournal
      <4>1. At("act") \/ At("forget")
        BY <2>1, <3>2 DEF SnapshotTells, ForgetReceipt, Replay, Applying
      <4>2. told' = op.seen
        BY <2>1, <3>2 DEF SnapshotTells, ForgetReceipt, Replay, Tell
      <4> QED BY <4>1, <4>2 DEF At, Seen, IInv, CommandInv
    <3> QED BY <3>1, <3>2
  <2> QED BY <2>2 DEF IInv, RevisionInv
<1> QED BY <1>1, InductiveInvariant, PTL DEF Spec, ToldNeverContradicted

\* owner.rs: a key of automation changes the file at most once, over every
\* retry, crash and recovery.
THEOREM AKeyActsOnce == Spec => KeyActsOnce
<1>1. IInv /\ [Next]_vars =>
        [At("write") /\ Automatic /\ status' # status /\ op' # op => journal.key \notin acted]_vars
  <2> SUFFICES ASSUME IInv, At("write"), journal.key \in acted PROVE FALSE
    OBVIOUS
  <2>1. receipt[journal.key] = None
    BY DEF IInv, CommandInv, At
  <2> QED BY <2>1 DEF IInv, KeyInv
<1> QED BY <1>1, InductiveInvariant, PTL DEF Spec, KeyActsOnce

-----------------------------------------------------------------------------
\* The user's choice, for any edits but those between a read of the file and
\* its replacement.
Windows == {"noteStatus", "noteAnchor", "act", "write", "restore"}

Active == choice # None /\ clock < choice.until

\* A status that says what the user chose and pauses automation as long.
Knows(bytes) == Decode(bytes).dnd = choice.dnd /\ choice.until <= Decode(bytes).until

StatusTells == Decode(status).dnd = choice.dnd

\* No pause ends later than one that starts now.
Due(bytes) == Decode(bytes).until <= clock + Override

Pending == journal # None /\ ~Committed

\* The owner knows the choice, or the file tells it and will be noticed:
\* a change that is undone does not touch it, and automation prepares none.
ChoiceInv ==
    /\ Due(status) /\ Due(anchor) /\ (journal # None => Due(journal.after))
    /\ choice # None => Seen # None /\ choice.until <= clock + Override
    /\ Pending /\ journal.key \in AutoKey => Decode(Seen).until <= clock
    /\ Active => \/ Knows(Seen)
                 \/ /\ StatusTells /\ choice.dnd # Decode(Seen).dnd
                    /\ Pending => status # journal.after
    /\ Active /\ (~Pending \/ At("abort") \/ At("dropJournal")) => StatusTells

\* Where nobody edits, the file is still what the command has read.
WindowInv ==
    /\ At("noteStatus") => Due(op.seen) /\ (Active => Knows(op.seen))
    /\ At("noteAnchor") \/ At("act") => op.seen = status /\ (Active => Knows(status))
    /\ At("write") => status = anchor
    /\ At("restore") => status = journal.after

UserInv == IInv /\ ChoiceInv /\ WindowInv

\* Every pause is a number.
LEMMA Numbers ==
    ASSUME IInv
    PROVE  /\ clock \in Nat /\ Override \in Nat
           /\ choice # None => choice.until \in Nat
           /\ \A bytes \in Status \cup {None} : Decode(bytes).until \in Nat
           /\ status \in Status \cup {None} /\ anchor \in Status \cup {None} /\ Seen \in Status \cup {None}
           /\ journal # None => journal.after \in Status /\ journal.before \in Status \cup {None}
<1>1. \A bytes \in Status \cup {None} : Decode(bytes).until \in Nat
  BY DecodeTyped, Constants DEF Status
<1> QED BY <1>1, Constants DEF IInv, TypeOK, Seen, Record, Choice

\* While a change is pending, the owner compares with what it started from.
LEMMA PendingSeen == ASSUME IInv, Pending PROVE Seen = anchor /\ journal.before = anchor
BY DEF IInv, RevisionInv, Pending, Seen

\* The command moves, ends or dies outside the windows, and files stay.
LEMMA ChoiceMoves ==
    ASSUME UserInv, UNCHANGED <<files, clock, choice>>,
           op' # None => op'.at \notin Windows \cup {"abort", "dropJournal"}
    PROVE  ChoiceInv' /\ WindowInv'
<1>1. WindowInv'
  BY DEF WindowInv, Windows, At
<1>2. ChoiceInv'
  BY DEF UserInv, ChoiceInv, files, Due, Knows, StatusTells, Active, Pending, Committed, Seen, At
<1> QED BY <1>1, <1>2

LEMMA RecoverChoice ==
    ASSUME UserInv, RecoverNothing \/ RecoverCheck \/ RecoverRefused
    PROVE  ChoiceInv' /\ WindowInv'
<1>1. CASE RecoverNothing
  <2>1. op' # None => op'.at \in {"ensureFile", "observe"}
    BY <1>1 DEF RecoverNothing, Recovered, Goto, At, UserInv, IInv, TypeOK, Command
  <2> QED BY <1>1, <2>1, ChoiceMoves DEF RecoverNothing, Quiet, history, Windows
<1>2. CASE RecoverRefused
  BY <1>2, ChoiceMoves DEF RecoverRefused, Refuse, history
<1>3. CASE RecoverCheck
  <2>1. /\ Pending /\ UNCHANGED <<files, clock, choice>> /\ op' # None
        /\ \/ status = journal.before /\ op'.at = "abort"
           \/ status = journal.after /\ op'.at = "restore"
    BY <1>3, NoneAssumption DEF RecoverCheck, Quiet, history, Goto, At, Pending, UserInv, IInv,
       TypeOK, Command, Location
  <2>2. WindowInv'
    BY <2>1 DEF WindowInv, files, At
  <2>3. op'.at = "abort" /\ Active => StatusTells
    <3>1. status = journal.before => status = Seen
      BY <2>1, PendingSeen DEF UserInv
    <3> QED BY <2>1, <3>1 DEF UserInv, ChoiceInv, Knows, StatusTells
  <2>4. ChoiceInv'
    BY <2>1, <2>3 DEF UserInv, ChoiceInv, files, Due, Knows, StatusTells, Active, Pending, Committed, Seen, At
  <2> QED BY <2>2, <2>4
<1> QED BY <1>1, <1>2, <1>3

LEMMA RecoverCommittedChoice == ASSUME UserInv, RecoverCommitted PROVE ChoiceInv' /\ WindowInv'
<1>1. /\ journal # None /\ Committed /\ op' # None /\ op'.at = "dropJournal" /\ anchor' = journal.after
      /\ UNCHANGED <<status, journal, receipt, clock, choice>>
  BY NoneAssumption DEF RecoverCommitted, At, Goto, Quiet, history, UserInv, IInv, TypeOK, Command, Location
<1>2. Committed' /\ Seen' = Seen
  BY <1>1 DEF Committed, Seen
<1>3. WindowInv'
  BY <1>1 DEF WindowInv, At
<1>4. ChoiceInv'
  BY <1>1, <1>2 DEF UserInv, ChoiceInv, Due, Knows, StatusTells, Active, Pending, At
<1> QED BY <1>3, <1>4

\* The undo: what it writes is what the owner had seen.
LEMMA RestoreChoice == ASSUME UserInv, Restore PROVE ChoiceInv' /\ WindowInv'
<1>1. /\ Pending /\ At("restore") /\ status = journal.after /\ status' = anchor
      /\ op' # None /\ op'.at = "abort"
      /\ UNCHANGED <<anchor, journal, receipt, clock, choice>>
  BY PendingSeen, NoneAssumption DEF Restore, At, Goto, Quiet, history, UserInv, WindowInv, IInv,
     TypeOK, CommandInv, Pending, Command, Location
<1>2. Pending' /\ Seen' = anchor /\ Seen = anchor
  BY <1>1, PendingSeen DEF UserInv, Pending, Committed, Seen
<1>3. WindowInv'
  BY <1>1 DEF WindowInv, At
<1>4. Active => Knows(anchor)
  BY <1>1, <1>2 DEF UserInv, ChoiceInv
<1>5. ChoiceInv'
  BY <1>1, <1>2, <1>4 DEF UserInv, ChoiceInv, Due, Knows, StatusTells, Active, At
<1> QED BY <1>3, <1>5

LEMMA AbortChoice == ASSUME UserInv, Abort PROVE ChoiceInv' /\ WindowInv'
<1>1. /\ At("abort") /\ Pending /\ op' # None /\ op'.at = "dropJournal"
      /\ journal.key \in Key /\ journal \in Record /\ receipt \in [Key -> Record \cup {None}]
      /\ receipt' = [receipt EXCEPT ![journal.key] = [journal EXCEPT !.phase = "ABORTED"]]
      /\ UNCHANGED <<status, anchor, journal, clock, choice>>
  BY NoneAssumption DEF Abort, At, Goto, Quiet, history, UserInv, IInv, TypeOK, CommandInv, Pending, Command,
     Location, Record
<1>2. Pending' /\ Seen' = Seen
  <2>1. receipt'[journal.key].phase = "ABORTED"
    BY <1>1, ReceiptOf
  <2> QED BY <1>1, <2>1 DEF Pending, Committed, Seen
<1>3. WindowInv'
  BY <1>1 DEF WindowInv, At
<1>4. ChoiceInv'
  BY <1>1, <1>2 DEF UserInv, ChoiceInv, Due, Knows, StatusTells, Active, At
<1> QED BY <1>3, <1>4

LEMMA DropJournalChoice == ASSUME UserInv, DropJournal PROVE ChoiceInv' /\ WindowInv'
<1>1. /\ At("dropJournal") /\ journal # None /\ journal' = None /\ (Committed => anchor = journal.after)
      /\ op' # None => op'.at \in {"ensureFile", "observe"}
      /\ UNCHANGED <<status, anchor, receipt, clock, choice>>
  BY DEF DropJournal, Recovered, At, Goto, Quiet, history, UserInv, IInv, TypeOK, CommandInv, Command
<1>2. Seen' = anchor /\ Seen = anchor /\ ~Pending'
  BY <1>1 DEF Seen, Pending
<1>3. WindowInv'
  BY <1>1 DEF WindowInv, At
<1>4. ChoiceInv'
  BY <1>1, <1>2 DEF UserInv, ChoiceInv, Due, Knows, StatusTells, Active, At
<1> QED BY <1>3, <1>4

LEMMA EnsureFileChoice == ASSUME UserInv, EnsureFile PROVE ChoiceInv' /\ WindowInv'
<1>1. /\ journal = None /\ op' # None /\ op'.at = "observe" /\ status' = Decode(status)
      /\ UNCHANGED <<anchor, journal, receipt, clock, choice>>
  BY NoneAssumption DEF EnsureFile, At, Goto, Quiet, history, UserInv, IInv, TypeOK, CommandInv,
     Command, Location
<1>2. Decode(status') = Decode(status)
  <2>1. Decode(status) # None
    BY DecodeTyped, NoneAssumption DEF UserInv, IInv, TypeOK
  <2> QED BY <1>1, <2>1 DEF Decode
<1>3. ~Pending /\ ~Pending' /\ Seen' = Seen
  BY <1>1 DEF Pending, Seen
<1>4. WindowInv'
  BY <1>1 DEF WindowInv, At
<1>5. ChoiceInv'
  BY <1>1, <1>2, <1>3 DEF UserInv, ChoiceInv, Due, Knows, StatusTells, Active, At
<1> QED BY <1>4, <1>5

\* An edit that switches what the owner has seen is noticed here, and the pause
\* it gets is as long as the user's; any other choice the anchor holds.
LEMMA ObserveChoice == ASSUME UserInv, Observe PROVE ChoiceInv' /\ WindowInv'
<1>1. /\ op \in Command /\ journal = None /\ UNCHANGED <<files, clock, choice>>
      /\ status \in Status \cup {None}
  BY DEF Observe, At, Quiet, history, UserInv, IInv, TypeOK, CommandInv
<1>2. Seen = anchor /\ ~Pending
  BY <1>1 DEF Seen, Pending
<1>3. Active => choice.until <= clock + Override
  BY DEF UserInv, ChoiceInv, Active
<1>4. CASE Noticed
  <2>1. PICK seen \in Status :
           /\ seen = [Decode(status) EXCEPT !.revision = NoticedRevision, !.until = clock + Override]
           /\ seen.dnd = Decode(status).dnd /\ seen.until = clock + Override
    BY <1>4, NoticedStatus DEF Observe, UserInv
  <2>2. op' = [op EXCEPT !.at = "noteStatus", !.seen = seen]
    BY <1>4, <2>1 DEF Observe
  <2>3. op' # None /\ op'.at = "noteStatus" /\ op'.seen = seen /\ Decode(seen) = seen
    BY <1>1, <2>2, NoneAssumption DEF Command, Location, Decode
  <2>4. Active => StatusTells
    BY <1>2 DEF UserInv, ChoiceInv
  <2>5. Due(seen) /\ (Active => Knows(seen))
    <3>1. Decode(seen).until = clock + Override /\ Decode(seen).dnd = Decode(status).dnd
      BY <2>1, <2>3
    <3>2. clock + Override <= clock + Override
      BY Numbers DEF UserInv
    <3> QED BY <1>3, <2>4, <3>1, <3>2 DEF Due, Knows, StatusTells
  <2>6. WindowInv'
    BY <1>1, <2>3, <2>5 DEF WindowInv, At, Due, Knows, Active
  <2>7. ChoiceInv'
    BY <1>1, <1>2, <2>3 DEF UserInv, ChoiceInv, files, Due, Knows, StatusTells, Active, Pending,
       Committed, Seen, At
  <2> QED BY <2>6, <2>7
<1>5. CASE ~Noticed
  <2>1. PICK next \in {"noteAnchor", "act"} : op' = [op EXCEPT !.at = next, !.seen = status]
    BY <1>5 DEF Observe
  <2>2. op' # None /\ op'.at = next /\ op'.seen = status
    BY <1>1, <2>1, NoneAssumption DEF Command, Location
  <2>3. Active => Knows(status)
    BY <1>2, <1>5 DEF Noticed, UserInv, ChoiceInv, Active, Knows, StatusTells
  <2>4. WindowInv'
    BY <1>1, <2>2, <2>3 DEF WindowInv, At, files, Knows, Active
  <2>5. ChoiceInv'
    BY <1>1, <1>2, <2>2 DEF UserInv, ChoiceInv, files, Due, Knows, StatusTells, Active, Pending,
       Committed, Seen, At
  <2> QED BY <2>4, <2>5
<1> QED BY <1>4, <1>5

LEMMA NoteChoice == ASSUME UserInv, NoteStatus \/ NoteAnchor PROVE ChoiceInv' /\ WindowInv'
<1>1. /\ op \in Command /\ journal = None /\ op.seen \in Status /\ op.seen # None
      /\ UNCHANGED <<journal, receipt, clock, choice>>
  BY NoneAssumption DEF NoteStatus, NoteAnchor, At, Quiet, history, UserInv, IInv, TypeOK, CommandInv, Command
<1>2. Seen = anchor /\ Seen' = anchor' /\ ~Pending /\ ~Pending'
  BY <1>1 DEF Seen, Pending
<1>3. CASE NoteStatus
  <2>1. /\ op' # None /\ op'.at = "noteAnchor" /\ op'.seen = op.seen /\ status' = op.seen /\ anchor' = anchor
        /\ Due(op.seen) /\ (Active => Knows(op.seen))
    BY <1>1, <1>3, NoneAssumption DEF NoteStatus, Goto, At, UserInv, WindowInv, Command, Location
  <2>2. WindowInv'
    BY <1>1, <2>1 DEF WindowInv, At, Knows, Active
  <2>3. ChoiceInv'
    BY <1>1, <1>2, <2>1 DEF UserInv, ChoiceInv, Due, Knows, StatusTells, Active, At
  <2> QED BY <2>2, <2>3
<1>4. CASE NoteAnchor
  <2>1. /\ op' # None /\ op'.at = "act" /\ op'.seen = op.seen /\ anchor' = op.seen /\ status' = status
        /\ op.seen = status /\ (Active => Knows(status))
    BY <1>1, <1>4, NoneAssumption DEF NoteAnchor, Goto, At, UserInv, WindowInv, Command, Location
  <2>2. WindowInv'
    BY <1>1, <2>1 DEF WindowInv, At, Knows, Active
  <2>3. ChoiceInv'
    BY <1>1, <1>2, <2>1 DEF UserInv, ChoiceInv, Due, Knows, StatusTells, Active, At
  <2> QED BY <2>2, <2>3
<1> QED BY <1>3, <1>4

LEMMA ManualReadsChoice == ASSUME UserInv, ManualReads PROVE ChoiceInv' /\ WindowInv'
<1>1. /\ op \in Command /\ UNCHANGED <<files, clock, choice>>
  BY DEF ManualReads, At, Quiet, history, UserInv, IInv, TypeOK
<1>2. op' # None => op'.at = "recover"
  BY <1>1 DEF ManualReads, Command, Location
<1> QED BY <1>1, <1>2, ChoiceMoves DEF Windows

\* What automation prepares, it prepares when no pause runs.
LEMMA PrepareChoice ==
    ASSUME UserInv, NEW request \in Request, Prepare(request)
    PROVE  ChoiceInv' /\ WindowInv'
<1>1. /\ op \in Command /\ journal = None /\ At("act") /\ op.seen = anchor /\ op.seen = status
      /\ (Active => Knows(status))
      /\ UNCHANGED <<status, anchor, receipt, clock, choice>>
      /\ request.key \in IF Automatic THEN AutoKey ELSE ManualKey
      /\ receipt[request.key] = None /\ (Automatic => Decode(anchor).until <= clock)
  BY DEF Prepare, Applying, ApplyAllowed, At, Quiet, history, UserInv, WindowInv, IInv, TypeOK,
     CommandInv, Automatic
<1>2. PICK until \in 0 .. MaxClock + Override :
        /\ until = IF Automatic THEN Decode(anchor).until ELSE clock + Override
  BY <1>1, DecodeTyped, Constants DEF UserInv, IInv, TypeOK, Status
<1>3. PICK after : after = [dnd |-> request.want = "on", revision |-> request.expected + 1, until |-> until]
  OBVIOUS
<1>4. journal' = [key |-> request.key, expected |-> request.expected, want |-> request.want,
                  before |-> anchor, after |-> after, phase |-> "PREPARED", expires |-> clock + Retention]
  BY <1>1, <1>2, <1>3 DEF Prepare
<1>5. /\ journal'.key = request.key /\ journal'.after = after /\ journal' # None /\ after.until = until
      /\ after # None
  <2>1. IInv'
    BY PrepareStep DEF UserInv
  <2>2. op' # None /\ op'.at = "write"
    BY <1>1, NoneAssumption DEF Prepare, Command, Location
  <2> QED BY <1>3, <1>4, <2>1, <2>2, NoneAssumption DEF IInv, CommandInv, TypeOK, Record
<1>6. Pending' /\ Seen' = anchor /\ Seen = anchor /\ ~Pending
  BY <1>1, <1>5 DEF Pending, Committed, Seen
<1>7. Due(after) /\ Due(anchor)
  <2>1. Decode(after).until = until
    BY <1>5 DEF Decode
  <2>2. Due(anchor) /\ Decode(anchor).until <= clock + Override
    BY DEF UserInv, ChoiceInv, Due
  <2>3. until <= clock + Override
    <3>1. clock + Override <= clock + Override
      BY Numbers DEF UserInv
    <3> QED BY <1>2, <2>2, <3>1
  <2> QED BY <2>1, <2>2, <2>3 DEF Due
<1>8. op' # None /\ op'.at = "write"
  BY <1>1, NoneAssumption DEF Prepare, Command, Location
<1>9. WindowInv'
  BY <1>1, <1>8 DEF WindowInv, At
<1>10. request.key \in AutoKey => Automatic
  BY <1>1, Constants
<1>11. ChoiceInv'
  BY <1>1, <1>5, <1>6, <1>7, <1>8, <1>10 DEF UserInv, ChoiceInv, Due, Knows, StatusTells, Active, At
<1> QED BY <1>9, <1>11

\* A change is written over what the owner has seen, which then knows the choice.
LEMMA WriteChoice == ASSUME UserInv, Write PROVE ChoiceInv' /\ WindowInv'
<1>1. /\ Pending /\ journal # None /\ status = anchor /\ status' = journal.after
      /\ op' # None /\ op'.at = "readback"
      /\ UNCHANGED <<anchor, journal, receipt, clock, choice>>
  BY NoneAssumption DEF Write, At, Goto, UserInv, WindowInv, IInv, TypeOK, CommandInv, Pending,
     Command, Location
<1>2. Pending' /\ Seen' = anchor /\ Seen = anchor
  BY <1>1, PendingSeen DEF UserInv, Pending, Committed, Seen
<1>3. WindowInv'
  BY <1>1 DEF WindowInv, At
<1>4. Active => Knows(anchor)
  BY <1>1, <1>2 DEF UserInv, ChoiceInv, StatusTells
<1>5. ChoiceInv'
  BY <1>1, <1>2, <1>4 DEF UserInv, ChoiceInv, Due, Knows, StatusTells, Active, At
<1> QED BY <1>3, <1>5

\* A manual change is the user's new choice; a change of automation commits
\* only when the last choice no longer holds automation back.
LEMMA VerifyChoice == ASSUME UserInv, Verify PROVE ChoiceInv' /\ WindowInv'
<1>1. /\ op \in Command /\ Pending /\ status = journal.after /\ op' # None /\ op'.at = "anchor"
      /\ journal \in Record /\ receipt \in [Key -> Record \cup {None}]
      /\ journal.key \in IF Automatic THEN AutoKey ELSE ManualKey
      /\ receipt' = [receipt EXCEPT ![journal.key] = [journal EXCEPT !.phase = "VERIFIED"]]
      /\ choice' = IF Automatic THEN choice
                   ELSE [dnd |-> journal.after.dnd, until |-> journal.after.until]
      /\ UNCHANGED <<status, anchor, journal, clock>>
  BY NoneAssumption DEF Verify, At, Goto, UserInv, IInv, TypeOK, CommandInv, Pending, Command, Location
<1>2. /\ journal.key \in Key /\ journal.after \in Status /\ journal.after # None
      /\ Decode(journal.after) = journal.after
  BY <1>1, NoneAssumption DEF Record, Decode
<1>3. PICK verified \in Record :
        /\ verified = [journal EXCEPT !.phase = "VERIFIED"]
        /\ verified.phase = "VERIFIED" /\ verified.after = journal.after
  BY <1>1, ReceiptOf
<1>4. receipt'[journal.key] = verified
  BY <1>1, <1>2, <1>3
<1>5. Committed' /\ ~Pending' /\ Seen' = journal.after
  BY <1>1, <1>3, <1>4, NoneAssumption DEF Pending, Committed, Seen
<1>6. WindowInv'
  BY <1>1 DEF WindowInv, At
<1>7. CASE Automatic
  <2>1. ~Active
    <3> SUFFICES ASSUME Active PROVE FALSE
      OBVIOUS
    <3>1. Decode(Seen).until <= clock /\ Knows(Seen)
      BY <1>1, <1>7 DEF UserInv, ChoiceInv
    <3> QED BY <3>1, Numbers DEF Knows, Active, UserInv
  <2> QED BY <1>1, <1>2, <1>5, <1>6, <1>7, <2>1 DEF UserInv, ChoiceInv, Due, Active
<1>8. CASE ~Automatic
  <2>1. PICK chosen : chosen = [dnd |-> journal.after.dnd, until |-> journal.after.until]
    OBVIOUS
  <2>2. choice' = chosen /\ chosen.dnd = journal.after.dnd /\ chosen.until = journal.after.until
    BY <1>1, <1>8, <2>1
  <2>3. journal.after.until <= clock + Override /\ journal.after.until <= journal.after.until
    BY <1>1, <1>2, Constants DEF UserInv, ChoiceInv, Due, Pending, Status
  <2>4. Knows(Seen)' /\ StatusTells'
    BY <1>1, <1>2, <1>5, <2>2, <2>3 DEF Knows, StatusTells
  <2>5. Due(status)' /\ Due(anchor)' /\ Due(journal.after)'
    BY <1>1, <1>2, <2>3 DEF UserInv, ChoiceInv, Due
  <2> QED BY <1>1, <1>2, <1>5, <1>6, <2>2, <2>3, <2>4, <2>5 DEF ChoiceInv
<1> QED BY <1>7, <1>8

\* After the commit the journal, the anchor and the receipt of a random key
\* change, and not what the owner compares with.
LEMMA WriteAnchorChoice == ASSUME UserInv, WriteAnchor PROVE ChoiceInv' /\ WindowInv'
<1>1. /\ journal # None /\ Committed /\ op' # None /\ op'.at = "dropOwn" /\ anchor' = journal.after
      /\ UNCHANGED <<status, journal, receipt, clock, choice>>
  BY NoneAssumption DEF WriteAnchor, At, Goto, Quiet, history, UserInv, IInv, TypeOK, CommandInv,
     Command, Location
<1>2. Committed' /\ Seen' = Seen
  BY <1>1 DEF Committed, Seen
<1>3. WindowInv'
  BY <1>1 DEF WindowInv, At
<1>4. ChoiceInv'
  BY <1>1, <1>2 DEF UserInv, ChoiceInv, Due, Knows, StatusTells, Active, Pending, At
<1> QED BY <1>3, <1>4

LEMMA DropOwnJournalChoice == ASSUME UserInv, DropOwnJournal PROVE ChoiceInv' /\ WindowInv'
<1>1. /\ op \in Command /\ journal # None /\ Committed /\ anchor = journal.after /\ journal' = None
      /\ UNCHANGED <<status, anchor, receipt, clock, choice>>
  BY DEF DropOwnJournal, At, UserInv, IInv, TypeOK, CommandInv
<1>2. op' # None => op'.at = "forget"
  BY <1>1 DEF DropOwnJournal, Command, Location
<1>3. Seen' = anchor /\ Seen = anchor /\ ~Pending /\ ~Pending'
  BY <1>1 DEF Seen, Pending
<1>4. WindowInv'
  BY <1>2 DEF WindowInv, At
<1>5. ChoiceInv'
  BY <1>1, <1>3 DEF UserInv, ChoiceInv, Due, Knows, StatusTells, Active
<1> QED BY <1>4, <1>5

LEMMA ForgetReceiptChoice == ASSUME UserInv, ForgetReceipt PROVE ChoiceInv' /\ WindowInv'
<1>1. /\ journal = None /\ op' = None /\ UNCHANGED <<status, anchor, journal, clock, choice>>
  BY DEF ForgetReceipt, At, UserInv, IInv, CommandInv
<1>2. Seen' = Seen /\ ~Pending /\ ~Pending'
  BY <1>1 DEF Seen, Pending
<1>3. WindowInv'
  BY <1>1 DEF WindowInv, At
<1>4. ChoiceInv'
  BY <1>1, <1>2 DEF UserInv, ChoiceInv, Due, Knows, StatusTells, Active
<1> QED BY <1>3, <1>4

\* As time passes pauses end.
LEMMA TickChoice == ASSUME UserInv, Tick PROVE ChoiceInv' /\ WindowInv'
<1>1. clock' = clock + 1 /\ UNCHANGED <<files, op, choice>>
  BY DEF Tick, history
<1>2. clock \in Nat /\ Override \in Nat /\ (choice # None => choice.until \in Nat)
  BY Numbers DEF UserInv
<1>3. Active' => Active
  BY <1>1, <1>2 DEF Active
<1>4. \A bytes \in Status \cup {None} : Due(bytes) => Due(bytes)'
  BY <1>1, <1>2, Numbers DEF Due, UserInv
<1>5. Seen' = Seen /\ (Pending' <=> Pending) /\ (StatusTells' <=> StatusTells)
  BY <1>1 DEF files, Seen, Pending, Committed, StatusTells
<1>6. \A bytes : Knows(bytes)' <=> Knows(bytes)
  BY <1>1 DEF Knows
<1>7. At("noteStatus") => op.seen \in Status \cup {None}
  BY DEF At, UserInv, IInv, TypeOK, Command
<1>8. WindowInv'
  BY <1>1, <1>3, <1>4, <1>6, <1>7 DEF UserInv, WindowInv, files, At
<1>9. ChoiceInv'
  <2>1. Due(status)' /\ Due(anchor)' /\ (journal' # None => Due(journal.after)')
    BY <1>1, <1>4, Numbers DEF UserInv, ChoiceInv, files, Due
  <2>2. choice' # None => Seen' # None /\ choice'.until <= clock' + Override
    BY <1>1, <1>2, <1>5 DEF UserInv, ChoiceInv
  <2>3. Decode(Seen).until <= clock => Decode(Seen).until <= clock'
    BY <1>1, <1>2, Numbers DEF UserInv
  <2> QED BY <1>1, <1>3, <1>5, <1>6, <2>1, <2>2, <2>3 DEF UserInv, ChoiceInv, files, At
<1> QED BY <1>8, <1>9

\* An edit outside the windows is the user's new choice.
LEMMA EditChoice == ASSUME UserInv, EditInside \cap Windows = {}, Edit PROVE ChoiceInv' /\ WindowInv'
<1>1. PICK bytes \in EditedFiles \ {status} : status' = bytes /\ choice' = Chosen(bytes)
  BY DEF Edit
<1>2. /\ UNCHANGED <<anchor, journal, receipt, op, clock>> /\ (op # None => op.at \notin Windows)
  BY DEF Edit
<1>3. Seen' = Seen /\ (Pending' <=> Pending)
  BY <1>2 DEF Seen, Pending, Committed
<1>4. WindowInv'
  BY <1>2 DEF WindowInv, Windows, At
<1>5. Due(bytes)
  <2>1. Decode(bytes).until \in {0, Decode(status).until}
    <3>1. CASE bytes = None
      BY <3>1 DEF Decode, Default
    <3>2. CASE bytes # None /\ status # None /\ bytes = [status EXCEPT !.dnd = ~@]
      BY <3>2 DEF Decode, UserInv, IInv, TypeOK, Status
    <3>3. ASSUME NEW d \in BOOLEAN, NEW r \in {0, MaxRevision - 1}, bytes # None,
                 bytes = [dnd |-> d, revision |-> r, until |-> 0]
          PROVE  Decode(bytes).until = 0
      BY <3>3 DEF Decode
    <3> QED BY <3>1, <3>2, <3>3 DEF EditedFiles
  <2>2. 0 <= clock + Override
    BY Numbers DEF UserInv
  <2> QED BY <2>1, <2>2 DEF UserInv, ChoiceInv, Due
<1>6. Seen # None => Due(Seen) /\ Decode(Seen) = Seen
  BY DEF UserInv, ChoiceInv, Seen, Decode
<1>7. /\ Due(status)' /\ Due(anchor)' /\ (journal' # None => Due(journal.after)')
      /\ Pending' /\ journal'.key \in AutoKey => Decode(Seen').until <= clock'
  <2>1. Due(status)' /\ Due(anchor)' /\ (journal' # None => Due(journal.after)')
    BY <1>1, <1>2, <1>5 DEF UserInv, ChoiceInv, Due
  <2> QED BY <1>2, <1>3, <2>1 DEF UserInv, ChoiceInv
<1>8. CASE choice' = None
  BY <1>4, <1>7, <1>8 DEF ChoiceInv, Active
<1>9. CASE choice' # None
  <2>1. /\ Seen # None /\ (Pending => status' # journal.after)
        /\ choice' = [dnd |-> Decode(status').dnd,
                      until |-> IF Decode(status').dnd # Seen.dnd THEN clock + Override ELSE Seen.until]
    BY <1>1, <1>9 DEF Chosen, Pending
  <2>2. PICK until : until = IF Decode(status').dnd # Seen.dnd THEN clock + Override ELSE Seen.until
    OBVIOUS
  <2>3. choice'.dnd = Decode(status').dnd /\ choice'.until = until
    BY <2>1, <2>2
  <2>4. until <= clock + Override /\ Seen.until <= Seen.until
    BY <1>6, <2>1, <2>2, Numbers DEF Due, UserInv
  <2>5. StatusTells'
    BY <2>3 DEF StatusTells
  <2>6. Knows(Seen)' \/ choice'.dnd # Decode(Seen').dnd
    BY <1>3, <1>6, <2>1, <2>2, <2>3, <2>4 DEF Knows
  <2>7. Seen' # None /\ choice'.until <= clock' + Override /\ (Pending' => status' # journal'.after)
    BY <1>2, <1>3, <2>1, <2>3, <2>4
  <2> QED BY <1>4, <1>7, <2>5, <2>6, <2>7 DEF ChoiceInv
<1> QED BY <1>8, <1>9

\* The inductive step: one case per action.
LEMMA NextUserInv == ASSUME EditInside \cap Windows = {}, UserInv, [Next]_vars PROVE UserInv'
<1>1. IInv'
  BY NextIInv DEF UserInv
<1>2. CASE UNCHANGED vars
  <2>1. UNCHANGED <<files, op, clock, choice>>
    BY <1>2 DEF vars, history
  <2>2. WindowInv'
    BY <2>1 DEF UserInv, WindowInv, files, Due, Knows, Active, At
  <2>3. ChoiceInv'
    BY <2>1 DEF UserInv, ChoiceInv, files, Due, Knows, StatusTells, Active, Pending, Committed, Seen, At
  <2> QED BY <1>1, <2>2, <2>3 DEF UserInv
<1>3. CASE \/ SnapshotTells \/ ObserveRefused \/ EnsureReturns \/ ManualFails \/ ReadbackFails \/ Crash
           \/ \E request \in Request : ApplyRefused(request) \/ Replay(request)
  <2>1. op' = None /\ UNCHANGED <<files, clock, choice>>
    BY <1>3 DEF SnapshotTells, ObserveRefused, EnsureReturns, ManualFails, ReadbackFails, Crash,
       ApplyRefused, Replay, Refuse, history
  <2> QED BY <1>1, <2>1, ChoiceMoves DEF UserInv
<1>4. CASE Arrive
  <2>1. op'.at = "recover" /\ UNCHANGED <<files, clock, choice>>
    BY <1>4 DEF Arrive, Call, Quiet, history
  <2> QED BY <1>1, <2>1, ChoiceMoves DEF UserInv, Windows
<1>5. CASE Next /\ ~Arrive
  BY <1>1, <1>3, <1>5, RecoverChoice, RecoverCommittedChoice, RestoreChoice, AbortChoice, DropJournalChoice,
     EnsureFileChoice, ObserveChoice, NoteChoice, ManualReadsChoice, PrepareChoice, WriteChoice, VerifyChoice,
     WriteAnchorChoice, DropOwnJournalChoice, ForgetReceiptChoice, TickChoice, EditChoice
     DEF Next, OwnerStep, UserInv
<1> QED BY <1>2, <1>4, <1>5

\* owner.rs: where the user does not edit the file between the read of a command
\* and its replacement, the file holds the user's last choice, a command or an
\* edit, while its pause lasts, whatever automation asks for and whatever crashes.
THEOREM UserChoiceLasts ==
    ASSUME EditInside \cap Windows = {} PROVE Spec => []UserChoiceHolds
<1>1. Init => UserInv
  <2> SUFFICES ASSUME Init PROVE UserInv
    OBVIOUS
  <2>1. IInv
    BY InitIInv
  <2>2. Decode(status).until = 0 /\ Decode(anchor).until = 0
    <3>1. PICK old : old = [dnd |-> TRUE, revision |-> 0, until |-> 0]
      OBVIOUS
    <3>2. old.until = 0
      BY <3>1
    <3> QED BY <3>1, <3>2 DEF Init, Decode, Default
  <2>3. 0 <= clock + Override
    BY <2>1, Numbers
  <2>4. ChoiceInv /\ WindowInv
    BY <2>2, <2>3 DEF Init, ChoiceInv, WindowInv, Due, Pending, Active, At
  <2> QED BY <2>1, <2>4 DEF UserInv
<1>2. UserInv /\ [Next]_vars => UserInv'
  BY NextUserInv
<1>3. UserInv => UserChoiceHolds
  <2> SUFFICES ASSUME UserInv, choice # None, clock < choice.until, Pending, journal.key \notin ManualKey
               PROVE  StatusTells
    BY DEF UserChoiceHolds, UserInv, ChoiceInv, Active, Pending, StatusTells
  <2>1. journal.key \in AutoKey
    BY DEF UserInv, IInv, TypeOK, Record, Key, Pending
  <2>2. Decode(Seen).until <= clock /\ (Knows(Seen) \/ StatusTells)
    BY <2>1 DEF UserInv, ChoiceInv, Active
  <2>3. ~Knows(Seen)
    BY <2>2, Numbers DEF Knows, UserInv
  <2> QED BY <2>2, <2>3
<1> QED BY <1>1, <1>2, <1>3, PTL DEF Spec
=============================================================================
