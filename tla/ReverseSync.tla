------------------------------ MODULE ReverseSync ------------------------------
(***************************************************************************)
(* "rule sync-rules" (src/cli/importing.rs): carries the entries of an     *)
(* edited generated file back into the bodies of the rules they came from. *)
(* The command reads all the rules first and then updates the changed ones *)
(* one by one; when an update fails it puts back the bodies it read for    *)
(* the updates before.  An update writes the body, then the search         *)
(* document.  --check and --dry-run stop after reading and change nothing. *)
(*                                                                         *)
(* The command does not lock the store: another process may update or      *)
(* delete rules meanwhile.                                                 *)
(***************************************************************************)
EXTENDS Naturals, FiniteSets, Sequences, SequencesExt

CONSTANTS
  Ids,        \* rules
  SpecDocs,   \* those of the file kind spec-doc
  Bodies,     \* rule bodies
  Files,      \* generated files: sequences of entries [id, body]
  Absent,     \* no such rule
  None,       \* no request, no failed entry
  MaxFaults,  \* bound: failing writes and crashes
  MaxEdits    \* bound: updates by other processes

Entry == [id : Ids, body : Bodies]

\* A file as the promise sees it.
Pairs(f) == {<<f[i].id, f[i].body>> : i \in DOMAIN f}

ASSUME EntryAssumption ==
  /\ SpecDocs \subseteq Ids /\ Absent \notin Bodies
  /\ None \notin Ids /\ None \notin {Pairs(f) : f \in Files}
  /\ Files \subseteq Seq(Entry)
  /\ MaxFaults \in Nat /\ MaxEdits \in Nat

VARIABLES
  body,     \* [Ids -> Bodies \cup {Absent}]: the folders
  doc,      \* [Ids -> Bodies \cup {Absent}]: the search documents
  run,      \* the command in progress
  calm,     \* history: no other process, no crash, and only the first write
            \* of an update may fail
  outcome,  \* history: how the last command ended
  file,     \* history: the entries of the last command
  start,    \* history: bodies and documents it started from
  failed,   \* history: the entry whose update failed
  edited,   \* history: rules others changed since it started
  faults,   \* history: faults so far
  edits     \* history: edits so far

vars == <<body, doc, run, calm, outcome, file, start, failed, edited, faults, edits>>
history == <<calm, file, start, edited, edits>>

-----------------------------------------------------------------------------
Change == [id : Ids, old : Bodies, new : Bodies]

Steps == {"idle", "apply", "doc", "undo", "undo_doc"}

\* "count" changes are applied; the updates go up, the rollback comes down.
NoRun == [step |-> "idle", changes |-> <<>>, count |-> 0, errors |-> FALSE]

Busy == run.step # "idle"

Upcoming == run.changes[run.count + 1]
Latest   == run.changes[run.count]

Init ==
  /\ body \in [Ids -> Bodies]
  /\ doc = body
  /\ run = NoRun
  /\ calm \in BOOLEAN
  /\ outcome = "none"
  /\ file = <<>>
  /\ start = [body |-> body, doc |-> doc]
  /\ failed = None
  /\ edited = {}
  /\ faults = 0
  /\ edits = 0

(***************************************************************************)
(* sync_rules_file up to its first write.                                  *)
(***************************************************************************)
\* No orphan ids and no spec documents.
Accepted(f) ==
  \A i \in DOMAIN f : body[f[i].id] # Absent /\ f[i].id \notin SpecDocs

\* The places of the entries that differ from what the store has now.
Differing(f) == {i \in DOMAIN f : body[f[i].id] # f[i].body}

InOrder(places) ==
  {o \in SetToSeqs(places) : \A j, k \in DOMAIN o : j < k => o[j] < o[k]}

ChangeOf(e) == [id |-> e.id, old |-> body[e.id], new |-> e.body]

\* The entries that changed, in the order of the file: there is one such order.
Changes(f) == {[k \in DOMAIN o |-> ChangeOf(f[o[k]])] : o \in InOrder(Differing(f))}

Begin(f) ==
  /\ ~Busy
  /\ Accepted(f)
  /\ \E changes \in Changes(f) :
       run' = [NoRun EXCEPT !.step = "apply", !.changes = changes]
  /\ outcome' = "none"
  /\ file' = f
  /\ start' = [body |-> body, doc |-> doc]
  /\ failed' = None
  /\ edited' = {}
  /\ UNCHANGED <<body, doc, calm, faults, edits>>

Refuse(f) ==
  /\ ~Busy
  /\ ~Accepted(f)
  /\ outcome' = "refused"
  /\ file' = f
  /\ UNCHANGED <<body, doc, run, calm, start, failed, edited, faults, edits>>

(***************************************************************************)
(* apply_entry_updates_atomically: update_body for one change after the    *)
(* other.                                                                  *)
(***************************************************************************)
Applying == run.step = "apply" /\ run.count < Len(run.changes)

WriteBody ==
  /\ Applying
  /\ body[Upcoming.id] # Absent
  /\ body' = [body EXCEPT ![Upcoming.id] = Upcoming.new]
  /\ run' = [run EXCEPT !.step = "doc"]
  /\ UNCHANGED <<doc, outcome, failed, faults, history>>

WriteDoc ==
  /\ run.step = "doc"
  /\ doc' = [doc EXCEPT ![Upcoming.id] = Upcoming.new]
  /\ run' = [run EXCEPT !.step = "apply", !.count = @ + 1]
  /\ UNCHANGED <<body, outcome, failed, faults, history>>

\* Mutant: the rollback misses the update before the failing one.
RollbackShort == [run EXCEPT !.step = "undo", !.count = IF @ = 0 THEN 0 ELSE @ - 1]

\* Mutant: nothing is rolled back.
NoRollback == [run EXCEPT !.step = "undo", !.count = 0]

Rollback == [run EXCEPT !.step = "undo"]

\* The rule vanished: fs.read fails.
RuleGone ==
  /\ Applying
  /\ body[Upcoming.id] = Absent
  /\ run' = Rollback
  /\ failed' = Upcoming.id
  /\ UNCHANGED <<body, doc, outcome, faults, history>>

Fault == faults < MaxFaults /\ faults' = faults + 1

\* The write of the body or of the document fails; what the failing update
\* already wrote stays.
UpdateFails ==
  /\ Applying \/ (run.step = "doc" /\ ~calm)
  /\ Fault
  /\ run' = Rollback
  /\ failed' = Upcoming.id
  /\ UNCHANGED <<body, doc, outcome, history>>

(***************************************************************************)
(* The rollback: update_body with the body that was read, newest first; an *)
(* update that fails is reported and the others are still rolled back.     *)
(***************************************************************************)
Undoing == run.step = "undo" /\ run.count > 0

\* Mutant: the rollback writes the body only.
UndoBodyOnly ==
  /\ Undoing
  /\ body[Latest.id] # Absent
  /\ body' = [body EXCEPT ![Latest.id] = Latest.old]
  /\ run' = [run EXCEPT !.count = @ - 1]
  /\ UNCHANGED <<doc, outcome, failed, faults, history>>

UndoBody ==
  /\ Undoing
  /\ body[Latest.id] # Absent
  /\ body' = [body EXCEPT ![Latest.id] = Latest.old]
  /\ run' = [run EXCEPT !.step = "undo_doc"]
  /\ UNCHANGED <<doc, outcome, failed, faults, history>>

UndoDoc ==
  /\ run.step = "undo_doc"
  /\ doc' = [doc EXCEPT ![Latest.id] = Latest.old]
  /\ run' = [run EXCEPT !.step = "undo", !.count = @ - 1]
  /\ UNCHANGED <<body, outcome, failed, faults, history>>

NotUndone == [run EXCEPT !.step = "undo", !.count = @ - 1, !.errors = TRUE]

UndoGone ==
  /\ Undoing
  /\ body[Latest.id] = Absent
  /\ run' = NotUndone
  /\ UNCHANGED <<body, doc, outcome, failed, faults, history>>

UndoFails ==
  /\ ~calm
  /\ Undoing \/ run.step = "undo_doc"
  /\ Fault
  /\ run' = NotUndone
  /\ UNCHANGED <<body, doc, outcome, failed, history>>

Return ==
  /\ \/ run.step = "apply" /\ run.count = Len(run.changes) /\ outcome' = "ok"
     \/ run.step = "undo" /\ run.count = 0
        /\ outcome' = IF run.errors THEN "rollback_failed" ELSE "failed"
  /\ run' = NoRun
  /\ UNCHANGED <<body, doc, failed, faults, history>>

(***************************************************************************)
(* Crashes and other processes.                                            *)
(***************************************************************************)
Crash ==
  /\ ~calm /\ Busy
  /\ Fault
  /\ run' = NoRun
  /\ outcome' = "none"
  /\ UNCHANGED <<body, doc, failed, history>>

\* update_body or delete by another process, as one step.
OtherWrites(i, b) ==
  /\ ~calm
  /\ body[i] \notin {b, Absent}
  /\ edits < MaxEdits
  /\ edits' = edits + 1
  /\ edited' = edited \cup {i}
  /\ body' = [body EXCEPT ![i] = b]
  /\ doc' = [doc EXCEPT ![i] = b]
  /\ UNCHANGED <<run, calm, outcome, file, start, failed, faults>>

Next ==
  \/ \E f \in Files : Begin(f) \/ Refuse(f)
  \/ WriteBody \/ WriteDoc \/ RuleGone \/ UpdateFails
  \/ UndoBody \/ UndoDoc \/ UndoGone \/ UndoFails
  \/ Return
  \/ Crash
  \/ \E i \in Ids, b \in Bodies \cup {Absent} : OtherWrites(i, b)

Spec == Init /\ [][Next]_vars

-----------------------------------------------------------------------------
Distinct(f) == \A i, j \in DOMAIN f : f[i].id = f[j].id => i = j

(* What a command reports is so.  If it reported success, every rule the file
   names once has the body the file gives it, on disk and in the search index,
   unless another process wrote it meanwhile or an earlier failure had left its
   document behind, so that "--check" is content right after.  If it failed and
   reported no rollback error, every rule is as it was, apart from the one whose
   update failed and those another process wrote meanwhile; documents it
   touched agree with the bodies. *)
OutcomeHonest ==
  /\ outcome = "ok" /\ Distinct(file) =>
       \A e \in Range(file) : e.id \notin edited =>
         /\ body[e.id] = e.body
         /\ start.doc[e.id] = start.body[e.id] => doc[e.id] = e.body
  /\ outcome = "failed" =>
       \A i \in Ids \ (edited \cup {failed}) :
         /\ body[i] = start.body[i]
         /\ doc[i] \in {start.doc[i], body[i]}

\* The rule an update in progress has written and not yet indexed.
InProgress ==
  CASE run.step = "doc" -> {Upcoming.id}
    [] run.step = "undo_doc" -> {Latest.id}
    [] OTHER -> {}

(* Every fault and every write of another process leaves at most one rule with
   a search document that differs from its body: neither an update nor its
   rollback, left to finish, adds to them. *)
StaleDocumentsBounded ==
  Cardinality({i \in Ids : doc[i] # body[i]} \ InProgress) <= faults + edits

Batch ==
  INSTANCE RuleBatch WITH
    Bodies   <- Bodies \cup {Absent},
    Requests <- {Pairs(f) : f \in Files},
    rules    <- IF Busy THEN start.body ELSE body,
    request  <- IF Busy THEN Pairs(file) ELSE None,
    alone    <- calm

(* Alone, and if the write of a rule's body fails before it happens, sync-rules
   is all or nothing, also for a file that names a rule more than once: the
   changes and the rollback together look like one step to whoever reads the
   rules between two commands. *)
AllOrNothing == Batch!Spec

=============================================================================
