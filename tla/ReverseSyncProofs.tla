--------------------------- MODULE ReverseSyncProofs ---------------------------
(***************************************************************************)
(* What holds of ReverseSync for every set of rules, bodies and files,     *)
(* however many faults there are and whatever other processes write.       *)
(***************************************************************************)
EXTENDS ReverseSync, SequenceLemmas, TLAPS

Stored == Bodies \cup {Absent}

Run == [step : Steps, changes : Seq(Change), count : Nat, errors : BOOLEAN]

Outcome == {"none", "refused", "ok", "failed", "rollback_failed"}

\* How far a command is, at most.
CountOK ==
  /\ run.count <= Len(run.changes)
  /\ run.step = "doc" => run.count < Len(run.changes)
  /\ run.step = "undo_doc" => run.count > 0

TypeOK ==
  /\ body \in [Ids -> Stored] /\ doc \in [Ids -> Stored]
  /\ run \in Run /\ CountOK
  /\ calm \in BOOLEAN
  /\ outcome \in Outcome /\ (Busy => outcome = "none")
  /\ file \in Files \cup {<<>>} /\ (Busy => file \in Files)
  /\ start \in [body : [Ids -> Stored], doc : [Ids -> Stored]]
  /\ failed \in Ids \cup {None}
  /\ edited \subseteq Ids
  /\ faults \in 0..MaxFaults /\ edits \in 0..MaxEdits

\* The changes are those entries of the file that differ from what was read.
ChangesOK ==
  Busy =>
    /\ \A k \in 1..Len(run.changes) :
         /\ run.changes[k].old = start.body[run.changes[k].id]
         /\ \E i \in DOMAIN file : /\ file[i].id = run.changes[k].id
                                   /\ file[i].body = run.changes[k].new
    /\ \A i \in DOMAIN file : file[i].body # start.body[file[i].id] =>
         \E k \in 1..Len(run.changes) : run.changes[k].id = file[i].id

\* A user who is alone sees no rule disappear and no rollback fail.
CalmOK ==
  calm => body \in [Ids -> Bodies] /\ edited = {} /\ ~run.errors

Inv == TypeOK /\ ChangesOK /\ CalmOK

-----------------------------------------------------------------------------
LEMMA ChangesTyped ==
  ASSUME TypeOK
  PROVE  /\ Len(run.changes) \in Nat
         /\ \A k \in 1..Len(run.changes) :
              /\ run.changes[k] \in Change
              /\ run.changes[k].id \in Ids
              /\ run.changes[k].old \in Bodies /\ run.changes[k].new \in Bodies
         /\ run.step = "doc" \/ Applying => /\ run.count + 1 \in 1..Len(run.changes)
                                            /\ Upcoming \in Change
         /\ run.step = "undo_doc" \/ Undoing => /\ run.count \in 1..Len(run.changes)
                                                /\ Latest \in Change
  <1>1. run.changes \in Seq(Change) /\ run.count \in Nat /\ CountOK
    BY DEF TypeOK, Run
  <1>2. /\ Len(run.changes) \in Nat
        /\ \A k \in 1..Len(run.changes) : run.changes[k] \in Change
    BY <1>1, LenProperties, ElementOfSeq
  <1> QED
    BY <1>1, <1>2 DEF CountOK, Applying, Undoing, Upcoming, Latest, Change

\* What a command goes to change, and that it leaves out nothing that differs.
LEMMA ChangesRead ==
  ASSUME TypeOK, NEW f \in Files, NEW changes \in Changes(f), Accepted(f)
  PROVE  /\ changes \in Seq(Change)
         /\ \A k \in 1..Len(changes) :
              /\ changes[k].old = body[changes[k].id]
              /\ \E i \in DOMAIN f : /\ f[i].id = changes[k].id
                                     /\ f[i].body = changes[k].new
         /\ \A i \in DOMAIN f : f[i].body # body[f[i].id] =>
              \E k \in 1..Len(changes) : changes[k].id = f[i].id
  <1> DEFINE D == Differing(f)
  <1>1. f \in Seq(Entry)
    BY EntryAssumption
  <1>2. /\ Len(f) \in Nat /\ DOMAIN f = 1..Len(f)
        /\ \A i \in DOMAIN f : f[i] \in Entry /\ f[i].id \in Ids /\ f[i].body \in Bodies
    <2>1. Len(f) \in Nat /\ DOMAIN f = 1..Len(f)
      BY <1>1, LenProperties
    <2>2. \A i \in 1..Len(f) : f[i] \in Entry
      BY <1>1, ElementOfSeq
    <2> QED
      BY <2>1, <2>2 DEF Entry
  <1>3. IsFiniteSet(D) /\ D \subseteq DOMAIN f
    <2>1. D \subseteq 1..Len(f) /\ IsFiniteSet(1..Len(f))
      BY <1>2, FS_Interval DEF Differing
    <2> HIDE DEF D
    <2> QED
      BY <1>2, <2>1, FS_Subset
  <1>4. PICK o \in InOrder(D) : changes = [k \in DOMAIN o |-> ChangeOf(f[o[k]])]
    BY DEF Changes
  <1>5. o \in Seq(D) /\ Range(o) = D
    BY <1>3, <1>4, OrderCovers DEF InOrder
  <1>6. Len(o) \in Nat /\ DOMAIN o = 1..Len(o) /\ \A k \in 1..Len(o) : o[k] \in D
    BY <1>5, LenProperties, ElementOfSeq
  <1>7. ASSUME NEW k \in 1..Len(o)
        PROVE  ChangeOf(f[o[k]]) \in Change
    <2>1. /\ o[k] \in DOMAIN f /\ f[o[k]] \in Entry
          /\ f[o[k]].id \in Ids /\ f[o[k]].body \in Bodies
      BY <1>2, <1>3, <1>6
    <2>2. body[f[o[k]].id] \in Bodies
      BY <2>1 DEF Accepted, TypeOK, Stored
    <2> QED
      BY <2>1, <2>2 DEF ChangeOf, Change
  <1>8. changes \in [1..Len(o) -> Change]
    BY <1>4, <1>6, <1>7
  <1>9. changes \in Seq(Change) /\ Len(changes) = Len(o)
    BY <1>6, <1>8, SeqDef, LenProperties
  <1>10. \A k \in 1..Len(o) : changes[k] = ChangeOf(f[o[k]])
    BY <1>4, <1>6
  <1>11. ASSUME NEW i \in DOMAIN f, f[i].body # body[f[i].id]
         PROVE  \E k \in 1..Len(changes) : changes[k].id = f[i].id
    <2>1. i \in D
      BY <1>11 DEF Differing
    <2>2. PICK k \in 1..Len(o) : o[k] = i
      BY <1>5, <1>6, <2>1 DEF Range
    <2>3. changes[k] = ChangeOf(f[i])
      BY <1>10, <2>2
    <2>4. changes[k].id = f[i].id
      BY <2>3 DEF ChangeOf
    <2> QED
      BY <1>9, <2>2, <2>4
  <1>12. ASSUME NEW k \in 1..Len(changes)
         PROVE  /\ changes[k].old = body[changes[k].id]
                /\ \E i \in DOMAIN f : /\ f[i].id = changes[k].id
                                       /\ f[i].body = changes[k].new
    <2>1. o[k] \in DOMAIN f
      BY <1>3, <1>6, <1>9, <1>12
    <2>2. changes[k] = [id |-> f[o[k]].id, old |-> body[f[o[k]].id], new |-> f[o[k]].body]
      BY <1>9, <1>10, <1>12 DEF ChangeOf
    <2>3. /\ changes[k].id = f[o[k]].id /\ changes[k].new = f[o[k]].body
          /\ changes[k].old = body[f[o[k]].id]
      BY <2>2
    <2> QED
      BY <2>1, <2>3
  <1> QED
    BY <1>9, <1>11, <1>12

LEMMA FileTyped ==
  ASSUME NEW f \in Files \cup {<<>>}
  PROVE  \A i \in DOMAIN f : f[i] \in Entry
  <1>1. f \in Seq(Entry)
    BY EntryAssumption, EmptySeq
  <1>2. DOMAIN f = 1..Len(f)
    BY <1>1, LenProperties
  <1> QED
    BY <1>1, <1>2, ElementOfSeq

LEMMA InitInv == Init => Inv
  <1> SUFFICES ASSUME Init PROVE Inv
    OBVIOUS
  <1>1. NoRun \in Run /\ Len(NoRun.changes) = 0
    BY EmptySeq DEF NoRun, Run, Steps
  <1> QED
    BY <1>1, EntryAssumption
       DEF Init, Inv, TypeOK, CountOK, ChangesOK, CalmOK, Stored, Busy, NoRun, Outcome

\* The command goes on: what it read stays.
LEMMA RunGoesOn ==
  ASSUME Inv, Busy, UNCHANGED <<history, outcome>>,
         run' \in Run, run'.changes = run.changes, CountOK',
         run'.errors = run.errors \/ ~calm,
         body' \in [Ids -> Stored], doc' \in [Ids -> Stored],
         calm => body' \in [Ids -> Bodies],
         failed' \in Ids \cup {None}, faults' \in 0..MaxFaults
  PROVE  Inv'
  <1>1. TypeOK'
    BY DEF Inv, TypeOK, history
  <1>2. ChangesOK'
    BY DEF Inv, ChangesOK, history
  <1>3. CalmOK'
    BY DEF Inv, CalmOK, history, TypeOK, Run
  <1> QED
    BY <1>1, <1>2, <1>3 DEF Inv

LEMMA RunEnds ==
  ASSUME Inv, run' = NoRun, outcome' \in Outcome, UNCHANGED <<body, doc, failed, history>>,
         faults' \in 0..MaxFaults
  PROVE  Inv'
  <1>1. NoRun \in Run /\ Len(NoRun.changes) = 0
    BY EmptySeq DEF NoRun, Run, Steps
  <1> QED
    BY <1>1 DEF Inv, TypeOK, CountOK, ChangesOK, CalmOK, Busy, NoRun, history

LEMMA NextInv == Inv /\ [Next]_vars => Inv'
  <1> SUFFICES ASSUME Inv, [Next]_vars PROVE Inv'
    OBVIOUS
  <1>0. /\ run \in Run /\ CountOK /\ Len(run.changes) \in Nat /\ run.count \in Nat
        /\ body \in [Ids -> Stored] /\ doc \in [Ids -> Stored]
        /\ failed \in Ids \cup {None} /\ faults \in 0..MaxFaults
        /\ calm => body \in [Ids -> Bodies]
    BY ChangesTyped DEF Inv, TypeOK, CalmOK, Run
  <1>f. Fault => faults' \in 0..MaxFaults
    BY <1>0, EntryAssumption DEF Fault
  <1>1. CASE UNCHANGED vars
    BY <1>1 DEF vars, Inv, TypeOK, CountOK, ChangesOK, CalmOK, Busy
  <1>2. ASSUME NEW f \in Files, Begin(f) PROVE Inv'
    <2>1. PICK changes \in Changes(f) :
            run' = [NoRun EXCEPT !.step = "apply", !.changes = changes]
      BY <1>2 DEF Begin
    <2>2. /\ changes \in Seq(Change) /\ Len(changes) \in Nat
          /\ \A k \in 1..Len(changes) :
              /\ changes[k].old = body[changes[k].id]
              /\ \E i \in DOMAIN f : /\ f[i].id = changes[k].id
                                     /\ f[i].body = changes[k].new
          /\ \A i \in DOMAIN f : f[i].body # body[f[i].id] =>
              \E k \in 1..Len(changes) : changes[k].id = f[i].id
      BY <1>2, ChangesRead, LenProperties DEF Begin, Inv
    <2>3. /\ run'.step = "apply" /\ run'.changes = changes /\ run'.count = 0
          /\ run'.errors = FALSE /\ run' \in Run
      BY <2>1, <2>2 DEF NoRun, Run, Steps
    <2>4. start' \in [body : [Ids -> Stored], doc : [Ids -> Stored]] /\ start'.body = body
      BY <1>0, <1>2 DEF Begin
    <2>5. TypeOK'
      BY <1>2, <2>2, <2>3, <2>4 DEF Begin, Inv, TypeOK, CountOK, Busy, Outcome
    <2>6. ChangesOK'
      BY <1>2, <2>2, <2>3, <2>4 DEF Begin, ChangesOK
    <2>7. CalmOK'
      BY <1>2, <2>3 DEF Begin, Inv, CalmOK
    <2> QED
      BY <2>5, <2>6, <2>7 DEF Inv
  <1>3. ASSUME NEW f \in Files, Refuse(f) PROVE Inv'
    BY <1>3 DEF Refuse, Inv, TypeOK, CountOK, ChangesOK, CalmOK, Busy, Outcome
  <1>4. CASE WriteBody
    <2>1. Upcoming \in Change /\ Upcoming.id \in Ids /\ Upcoming.new \in Bodies
      BY <1>4, ChangesTyped DEF WriteBody, Inv, Change
    <2> QED
      BY <1>0, <1>4, <2>1, RunGoesOn
         DEF WriteBody, Applying, Busy, Run, Steps, CountOK, Stored
  <1>5. CASE WriteDoc
    <2>1. Upcoming \in Change /\ Upcoming.id \in Ids /\ Upcoming.new \in Bodies
      BY <1>5, ChangesTyped DEF WriteDoc, Inv, Change
    <2> QED
      <3>1. /\ run' \in Run /\ run'.changes = run.changes /\ run'.errors = run.errors
            /\ run'.step = "apply" /\ run'.count = run.count + 1
        <4>1. run' = [step |-> "apply", changes |-> run.changes,
                      count |-> run.count + 1, errors |-> run.errors]
          BY <1>0, <1>5 DEF WriteDoc, Run
        <4> QED
          BY <1>0, <4>1 DEF Run, Steps
      <3> QED
        BY <1>0, <1>5, <2>1, <3>1, RunGoesOn DEF WriteDoc, Busy, CountOK, Stored
  <1>6. CASE RuleGone
    <2>1. Upcoming.id \in Ids
      BY <1>6, ChangesTyped DEF RuleGone, Inv, Change
    <2> QED
      BY <1>0, <1>6, <2>1, RunGoesOn
         DEF RuleGone, Rollback, Applying, Busy, Run, Steps, CountOK
  <1>7. CASE UpdateFails
    <2>1. Upcoming.id \in Ids
      BY <1>7, ChangesTyped DEF UpdateFails, Inv, Change
    <2> QED
      BY <1>0, <1>f, <1>7, <2>1, RunGoesOn
         DEF UpdateFails, Rollback, Applying, Busy, Run, Steps, CountOK
  <1>8. CASE UndoBody
    <2>1. Latest.id \in Ids /\ Latest.old \in Bodies
      BY <1>8, ChangesTyped DEF UndoBody, Inv, Change
    <2> QED
      BY <1>0, <1>8, <2>1, RunGoesOn
         DEF UndoBody, Undoing, Busy, Run, Steps, CountOK, Stored
  <1>9. CASE UndoDoc
    <2>1. Latest.id \in Ids /\ Latest.old \in Bodies
      BY <1>9, ChangesTyped DEF UndoDoc, Inv, Change
    <2> QED
      <3>1. /\ run' \in Run /\ run'.changes = run.changes /\ run'.errors = run.errors
            /\ run'.step = "undo" /\ run'.count = run.count - 1
        <4>1. run' = [step |-> "undo", changes |-> run.changes,
                      count |-> run.count - 1, errors |-> run.errors]
          BY <1>0, <1>9 DEF UndoDoc, Run
        <4> QED
          BY <1>0, <1>9, <4>1 DEF UndoDoc, CountOK, Run, Steps
      <3> QED
        BY <1>0, <1>9, <2>1, <3>1, RunGoesOn DEF UndoDoc, Busy, CountOK, Stored
  <1>u. ASSUME run' = NotUndone, run.count > 0
        PROVE  /\ run' \in Run /\ run'.changes = run.changes
               /\ run'.step = "undo" /\ run'.count = run.count - 1
    <2>1. run' = [step |-> "undo", changes |-> run.changes,
                  count |-> run.count - 1, errors |-> TRUE]
      BY <1>0, <1>u DEF NotUndone, Run
    <2> QED
      BY <1>0, <1>u, <2>1 DEF Run, Steps
  <1>10. CASE UndoGone
    <2>1. ~calm
      <3>1. Latest.id \in Ids
        BY <1>10, ChangesTyped DEF UndoGone, Inv, Change
      <3> QED
        BY <1>0, <1>10, <3>1, EntryAssumption DEF UndoGone
    <2> QED
      BY <1>0, <1>u, <1>10, <2>1, RunGoesOn DEF UndoGone, Undoing, Busy, CountOK
  <1>11. CASE UndoFails
    BY <1>0, <1>f, <1>u, <1>11, RunGoesOn DEF UndoFails, Undoing, Busy, CountOK
  <1>12. CASE Return
    BY <1>0, <1>12, RunEnds DEF Return, Outcome
  <1>13. CASE Crash
    BY <1>0, <1>f, <1>13, RunEnds DEF Crash, Outcome
  <1>14. ASSUME NEW i \in Ids, NEW b \in Stored, OtherWrites(i, b) PROVE Inv'
    <2>1. /\ ~calm /\ UNCHANGED <<run, calm, outcome, file, start, failed, faults>>
          /\ body' \in [Ids -> Stored] /\ doc' \in [Ids -> Stored]
          /\ edits' \in 0..MaxEdits /\ edited' \subseteq Ids
      BY <1>0, <1>14, EntryAssumption DEF OtherWrites, Inv, TypeOK
    <2> QED
      BY <2>1 DEF Inv, TypeOK, CountOK, ChangesOK, CalmOK, Busy
  <1> QED
    BY <1>1, <1>2, <1>3, <1>4, <1>5, <1>6, <1>7, <1>8, <1>9, <1>10, <1>11, <1>12, <1>13,
       <1>14 DEF Next, Stored

LEMMA InvAlways == Spec => []Inv
  BY InitInv, NextInv, PTL DEF Spec

-----------------------------------------------------------------------------
(***************************************************************************)
(* What a command has done so far, for the rules nobody else wrote.        *)
(***************************************************************************)
Touched(n, i) == \E k \in 1..n : run.changes[k].id = i

Forward  == run.step \in {"apply", "doc"}
Backward == run.step \in {"undo", "undo_doc"} /\ ~run.errors

\* The changes whose new body is in its folder, or was not taken back.
Reached ==
  CASE run.step = "doc" -> run.count + 1
    [] run.step = "undo_doc" -> run.count - 1
    [] OTHER -> run.count

BodiesOK ==
  /\ Forward => \A i \in Ids \ edited :
       IF Touched(Reached, i)
       THEN \E k \in 1..Reached : run.changes[k].id = i /\ body[i] = run.changes[k].new
       ELSE body[i] = start.body[i]
  /\ Backward => \A i \in Ids \ edited :
       (calm \/ i # failed) /\ ~Touched(Reached, i) => body[i] = start.body[i]
  /\ run.step = "doc" => Upcoming.id \in edited \/ body[Upcoming.id] = Upcoming.new
  /\ run.step = "undo_doc" => Latest.id \in edited \/ body[Latest.id] = Latest.old

DocsOK ==
  /\ Forward => \A i \in Ids \ edited :
       \/ run.step = "doc" /\ i = Upcoming.id
       \/ IF Touched(run.count, i) THEN doc[i] = body[i] ELSE doc[i] = start.doc[i]
  /\ Backward => \A i \in Ids \ (edited \cup {failed}) :
       \/ run.step = "undo_doc" /\ i = Latest.id
       \/ doc[i] \in {start.doc[i], body[i]}

DoneInv == BodiesOK /\ DocsOK /\ OutcomeHonest

LEMMA DoneNext == Inv /\ DoneInv /\ [Next]_vars => DoneInv'
  <1> SUFFICES ASSUME Inv, DoneInv, [Next]_vars PROVE DoneInv'
    OBVIOUS
  <1>0. /\ run \in Run /\ CountOK /\ Len(run.changes) \in Nat /\ run.count \in Nat
        /\ body \in [Ids -> Stored] /\ doc \in [Ids -> Stored]
        /\ Busy => outcome = "none"
    BY ChangesTyped DEF Inv, TypeOK, Run
  <1>1. CASE UNCHANGED vars
    BY <1>1 DEF vars, DoneInv, BodiesOK, DocsOK, OutcomeHonest, Forward, Backward, Touched,
                Reached, Upcoming, Latest
  <1>h. ASSUME Busy, UNCHANGED <<history, outcome>>, BodiesOK', DocsOK' PROVE DoneInv'
    BY <1>0, <1>h DEF DoneInv, OutcomeHonest
  <1>2. ASSUME NEW f \in Files, Begin(f) PROVE DoneInv'
    <2>1. /\ run'.step = "apply" /\ run'.count = 0 /\ outcome' = "none"
          /\ body' = body /\ doc' = doc /\ start'.body = body /\ start'.doc = doc
      BY <1>2 DEF Begin, NoRun
    <2>2. \A i : ~Touched(0, i)' /\ Reached' = 0
      BY <2>1 DEF Touched, Reached
    <2> QED
      BY <2>1, <2>2 DEF DoneInv, BodiesOK, DocsOK, OutcomeHonest, Forward, Backward
  <1>3. ASSUME NEW f \in Files, Refuse(f) PROVE DoneInv'
    BY <1>3 DEF Refuse, DoneInv, BodiesOK, DocsOK, OutcomeHonest, Forward, Backward, Busy
  <1>4. CASE WriteBody
    <2>1. /\ Upcoming.id \in Ids /\ Upcoming \in Change /\ run.step = "apply" /\ Busy
          /\ body' = [body EXCEPT ![Upcoming.id] = Upcoming.new]
          /\ UNCHANGED <<history, outcome, doc, failed>>
          /\ run'.step = "doc" /\ run'.changes = run.changes /\ run'.count = run.count
      BY <1>0, <1>4, ChangesTyped DEF WriteBody, Applying, Busy, Inv, Change, Run
    <2>2. Upcoming' = Upcoming /\ Upcoming = run.changes[run.count + 1]
      BY <2>1 DEF Upcoming
    <2>3. /\ Reached = run.count /\ Reached' = run.count + 1
          /\ \A n, i : Touched(n, i)' <=> Touched(n, i)
      BY <2>1 DEF Reached, Touched
    <2>4. \A i \in Ids : Touched(run.count + 1, i) <=> Touched(run.count, i) \/ i = Upcoming.id
      BY <1>0, <2>2 DEF Touched
    <2>5. BodiesOK'
      BY <1>0, <2>1, <2>2, <2>3, <2>4
         DEF history, DoneInv, BodiesOK, Forward, Backward
    <2>6. DocsOK'
      BY <1>0, <2>1, <2>2, <2>3 DEF history, DoneInv, DocsOK, Forward, Backward
    <2> QED
      BY <1>h, <2>1, <2>5, <2>6
  <1>5. CASE WriteDoc
    <2>1. /\ Upcoming.id \in Ids /\ Upcoming \in Change /\ run.step = "doc" /\ Busy
          /\ doc' = [doc EXCEPT ![Upcoming.id] = Upcoming.new]
          /\ UNCHANGED <<history, outcome, body, failed>>
          /\ run'.step = "apply" /\ run'.changes = run.changes /\ run'.count = run.count + 1
      BY <1>0, <1>5, ChangesTyped DEF WriteDoc, Busy, Inv, Change, Run
    <2>2. Upcoming = run.changes[run.count + 1]
      BY DEF Upcoming
    <2>3. /\ Reached = run.count + 1 /\ Reached' = run.count + 1
          /\ \A n, i : Touched(n, i)' <=> Touched(n, i)
      BY <2>1 DEF Reached, Touched
    <2>4. \A i \in Ids : Touched(run.count + 1, i) <=> Touched(run.count, i) \/ i = Upcoming.id
      BY <1>0, <2>2 DEF Touched
    <2>5. BodiesOK'
      BY <1>0, <2>1, <2>3 DEF history, DoneInv, BodiesOK, Forward, Backward
    <2>6. DocsOK'
      BY <1>0, <2>1, <2>2, <2>3, <2>4
         DEF history, DoneInv, BodiesOK, DocsOK, Forward, Backward
    <2> QED
      BY <1>h, <2>1, <2>5, <2>6
  <1>6. CASE RuleGone \/ UpdateFails
    <2>1. /\ run.step = "doc" \/ run.step = "apply"
          /\ run.step = "doc" => ~calm
          /\ Busy /\ failed' = Upcoming.id
          /\ UNCHANGED <<history, outcome, body, doc>>
          /\ run'.step = "undo" /\ run'.changes = run.changes /\ run'.count = run.count
      BY <1>0, <1>6 DEF RuleGone, UpdateFails, Applying, Rollback, Busy, Run
    <2>2. Upcoming = run.changes[run.count + 1]
      BY DEF Upcoming
    <2>3. /\ Reached = (IF run.step = "doc" THEN run.count + 1 ELSE run.count)
          /\ Reached' = run.count
          /\ \A n, i : Touched(n, i)' <=> Touched(n, i)
      BY <2>1 DEF Reached, Touched
    <2>4. \A i \in Ids : Touched(run.count + 1, i) <=> Touched(run.count, i) \/ i = Upcoming.id
      BY <1>0, <2>2 DEF Touched
    <2>5. BodiesOK'
      BY <1>0, <2>1, <2>3, <2>4 DEF history, DoneInv, BodiesOK, Forward, Backward
    <2>6. DocsOK'
      BY <1>0, <2>1, <2>3 DEF history, DoneInv, DocsOK, Forward, Backward
    <2> QED
      BY <1>h, <2>1, <2>5, <2>6
  <1>8. CASE UndoBody
    <2>1. /\ Latest.id \in Ids /\ Latest \in Change /\ run.step = "undo" /\ Busy
          /\ body' = [body EXCEPT ![Latest.id] = Latest.old]
          /\ UNCHANGED <<history, outcome, doc, failed>>
          /\ run'.step = "undo_doc" /\ run'.changes = run.changes /\ run'.count = run.count
          /\ run'.errors = run.errors /\ run.count \in 1..Len(run.changes)
      BY <1>0, <1>8, ChangesTyped DEF UndoBody, Undoing, Busy, Inv, Change, Run
    <2>2. Latest' = Latest /\ Latest = run.changes[run.count]
      BY <2>1 DEF Latest
    <2>3. /\ Reached = run.count /\ Reached' = run.count - 1
          /\ \A n, i : Touched(n, i)' <=> Touched(n, i)
      BY <2>1 DEF Reached, Touched
    <2>4. \A i \in Ids : Touched(run.count, i) <=> Touched(run.count - 1, i) \/ i = Latest.id
      BY <1>0, <2>1, <2>2 DEF Touched
    <2>5. Latest.old = start.body[Latest.id]
      BY <2>1, <2>2 DEF Inv, ChangesOK
    <2>6. BodiesOK'
      BY <1>0, <2>1, <2>2, <2>3, <2>4, <2>5
         DEF history, DoneInv, BodiesOK, Forward, Backward
    <2>7. DocsOK'
      BY <1>0, <2>1, <2>2, <2>3 DEF history, DoneInv, DocsOK, Forward, Backward
    <2> QED
      BY <1>h, <2>1, <2>6, <2>7
  <1>9. CASE UndoDoc
    <2>1. /\ Latest.id \in Ids /\ Latest \in Change /\ run.step = "undo_doc" /\ Busy
          /\ doc' = [doc EXCEPT ![Latest.id] = Latest.old]
          /\ UNCHANGED <<history, outcome, body, failed>>
          /\ run'.step = "undo" /\ run'.changes = run.changes /\ run'.count = run.count - 1
          /\ run'.errors = run.errors
      BY <1>0, <1>9, ChangesTyped DEF UndoDoc, Busy, Inv, Change, Run
    <2>2. /\ Reached = run.count - 1 /\ Reached' = run.count - 1
          /\ \A n, i : Touched(n, i)' <=> Touched(n, i)
      BY <2>1 DEF Reached, Touched
    <2>3. BodiesOK'
      BY <1>0, <2>1, <2>2 DEF history, DoneInv, BodiesOK, Forward, Backward
    <2>4. DocsOK'
      BY <1>0, <2>1, <2>2 DEF history, DoneInv, BodiesOK, DocsOK, Forward, Backward
    <2> QED
      BY <1>h, <2>1, <2>3, <2>4
  <1>10. CASE UndoGone \/ UndoFails
    <2>1. /\ Busy /\ run'.step = "undo" /\ run'.errors = TRUE
          /\ UNCHANGED <<history, outcome>>
      BY <1>0, <1>10 DEF UndoGone, UndoFails, Undoing, NotUndone, Busy, Run
    <2> QED
      BY <1>h, <2>1 DEF BodiesOK, DocsOK, Forward, Backward
  <1>e. ASSUME run' = NoRun, OutcomeHonest' PROVE DoneInv'
    BY <1>e DEF DoneInv, BodiesOK, DocsOK, Forward, Backward, NoRun
  <1>12. CASE Return
    <2>1. /\ run' = NoRun /\ UNCHANGED <<body, doc, failed, history>> /\ Busy
          /\ \/ run.step = "apply" /\ run.count = Len(run.changes) /\ outcome' = "ok"
             \/ run.step = "undo" /\ run.count = 0 /\ ~run.errors /\ outcome' = "failed"
             \/ outcome' = "rollback_failed"
      BY <1>0, <1>12 DEF Return, Busy, Run
    <2>2. ASSUME run.step = "apply", run.count = Len(run.changes), Distinct(file),
                 NEW e \in Range(file), e.id \notin edited
          PROVE  /\ body[e.id] = e.body
                 /\ start.doc[e.id] = start.body[e.id] => doc[e.id] = e.body
      <3>1. PICK i \in DOMAIN file : e = file[i]
        BY DEF Range
      <3>2. e.id \in Ids
        BY <3>1, FileTyped DEF Inv, TypeOK, Entry
      <3>3. Reached = Len(run.changes) /\ Forward
        BY <2>2 DEF Reached, Forward
      <3>4. CASE Touched(Reached, e.id)
        <4>1. PICK k \in 1..Len(run.changes) : /\ run.changes[k].id = e.id
                                               /\ body[e.id] = run.changes[k].new
          BY <2>2, <3>2, <3>3, <3>4 DEF DoneInv, BodiesOK
        <4>2. PICK j \in DOMAIN file : /\ file[j].id = e.id
                                       /\ file[j].body = run.changes[k].new
          BY <2>1, <4>1 DEF Inv, ChangesOK
        <4>3. j = i
          BY <2>2, <3>1, <4>2 DEF Distinct
        <4>4. doc[e.id] = body[e.id]
          BY <2>2, <3>2, <3>3, <3>4 DEF DoneInv, DocsOK
        <4> QED
          BY <3>1, <4>1, <4>2, <4>3, <4>4
      <3>5. CASE ~Touched(Reached, e.id)
        <4>1. body[e.id] = start.body[e.id] /\ doc[e.id] = start.doc[e.id]
          BY <2>2, <3>2, <3>3, <3>5 DEF DoneInv, BodiesOK, DocsOK
        <4>2. e.body = start.body[e.id]
          BY <2>1, <3>1, <3>3, <3>5 DEF Inv, ChangesOK, Touched
        <4> QED
          BY <4>1, <4>2
      <3> QED
        BY <3>4, <3>5
    <2>3. ASSUME run.step = "undo", run.count = 0, ~run.errors,
                 NEW i \in Ids \ (edited \cup {failed})
          PROVE  body[i] = start.body[i] /\ doc[i] \in {start.doc[i], body[i]}
      <3>1. Reached = 0 /\ Backward /\ ~Touched(0, i)
        BY <2>3 DEF Reached, Backward, Touched
      <3> QED
        BY <2>3, <3>1 DEF DoneInv, BodiesOK, DocsOK
    <2>4. OutcomeHonest'
      BY <2>1, <2>2, <2>3 DEF OutcomeHonest, history, Distinct
    <2> QED
      BY <1>e, <2>1, <2>4
  <1>13. CASE Crash
    BY <1>e, <1>13 DEF Crash, OutcomeHonest
  <1>14. ASSUME NEW i \in Ids, NEW b \in Stored, OtherWrites(i, b) PROVE DoneInv'
    <2>1. /\ ~calm /\ UNCHANGED <<run, calm, outcome, file, start, failed, faults>>
          /\ edited' = edited \cup {i}
          /\ body' = [body EXCEPT ![i] = b] /\ doc' = [doc EXCEPT ![i] = b]
      BY <1>14 DEF OtherWrites
    <2>2. \A j \in Ids \ edited' : /\ j \in Ids \ edited
                                   /\ body'[j] = body[j] /\ doc'[j] = doc[j]
      BY <1>0, <2>1
    <2>3. /\ Reached' = Reached /\ Upcoming' = Upcoming /\ Latest' = Latest
          /\ Forward' = Forward /\ Backward' = Backward
          /\ \A n, j : Touched(n, j)' <=> Touched(n, j)
      BY <2>1 DEF Reached, Upcoming, Latest, Forward, Backward, Touched
    <2>4. BodiesOK'
      <3>1. run.step = "doc" => Upcoming.id \in Ids
        BY ChangesTyped DEF Inv, Change
      <3>2. run.step = "undo_doc" => Latest.id \in Ids
        BY ChangesTyped DEF Inv, Change
      <3> QED
        BY <2>1, <2>2, <2>3, <3>1, <3>2 DEF DoneInv, BodiesOK
    <2>5. DocsOK'
      BY <2>1, <2>2, <2>3 DEF DoneInv, DocsOK
    <2>6. OutcomeHonest'
      <3>1. \A e \in Range(file) : e.id \in Ids
        BY FileTyped DEF Inv, TypeOK, Entry, Range
      <3> QED
        BY <2>1, <2>2, <3>1 DEF DoneInv, OutcomeHonest, Distinct
    <2> QED
      BY <2>4, <2>5, <2>6 DEF DoneInv
  <1> QED
    BY <1>1, <1>2, <1>3, <1>4, <1>5, <1>6, <1>8, <1>9, <1>10, <1>12, <1>13, <1>14
       DEF Next, Stored

(* What sync-rules reports is so: success means that every rule the file names
   once has the body and the search document the file gives it, failure that
   every other rule is as it was. *)
THEOREM ReportTrue == Spec => []OutcomeHonest
  <1>1. Init => DoneInv
    BY DEF Init, DoneInv, BodiesOK, DocsOK, OutcomeHonest, Forward, Backward, NoRun
  <1>2. DoneInv => OutcomeHonest
    BY DEF DoneInv
  <1> QED
    BY <1>1, <1>2, InvAlways, DoneNext, PTL DEF Spec

-----------------------------------------------------------------------------
(***************************************************************************)
(* Search documents that lag behind.  A body that another process wrote    *)
(* under an update in progress is paid for before its document lags.       *)
(***************************************************************************)
Lagging == {i \in Ids : doc[i] # body[i]} \ InProgress

Overtaken ==
  \/ run.step = "doc" /\ body[Upcoming.id] # Upcoming.new
  \/ run.step = "undo_doc" /\ body[Latest.id] # Latest.old

Paid == faults + edits

LagInv ==
  /\ IsFiniteSet(Lagging)
  /\ Cardinality(Lagging) <= Paid
  /\ Overtaken => Cardinality(Lagging) < Paid

LEMMA Grows ==
  ASSUME NEW S, IsFiniteSet(S), NEW T, NEW x, T \subseteq S \cup {x}
  PROVE  /\ IsFiniteSet(T) /\ Cardinality(S) \in Nat /\ Cardinality(T) \in Nat
         /\ Cardinality(T) <= Cardinality(S) + 1
         /\ T \subseteq S => Cardinality(T) <= Cardinality(S)
  <1>1. /\ IsFiniteSet(S \cup {x})
        /\ Cardinality(S \cup {x}) = IF x \in S THEN Cardinality(S) ELSE Cardinality(S) + 1
    BY FS_AddElement
  <1>2. IsFiniteSet(T) /\ Cardinality(T) <= Cardinality(S \cup {x})
    BY <1>1, FS_Subset
  <1>3. Cardinality(S) \in Nat /\ Cardinality(T) \in Nat
    BY <1>2, FS_CardinalityType
  <1>4. T \subseteq S => Cardinality(T) <= Cardinality(S)
    BY FS_Subset
  <1> QED
    BY <1>1, <1>2, <1>3, <1>4

LEMMA LagNext == Inv /\ LagInv /\ [Next]_vars => LagInv'
  <1> SUFFICES ASSUME Inv, LagInv, [Next]_vars PROVE LagInv'
    OBVIOUS
  <1>0. /\ run \in Run /\ CountOK /\ Len(run.changes) \in Nat /\ run.count \in Nat
        /\ body \in [Ids -> Stored] /\ doc \in [Ids -> Stored]
        /\ faults \in Nat /\ edits \in Nat
    BY ChangesTyped DEF Inv, TypeOK, Run
  <1>n. ASSUME NEW x, Lagging' \subseteq Lagging \cup {x}
        PROVE  /\ IsFiniteSet(Lagging') /\ Cardinality(Lagging) \in Nat
               /\ Cardinality(Lagging') \in Nat
               /\ Cardinality(Lagging') <= Cardinality(Lagging) + 1
               /\ Lagging' \subseteq Lagging => Cardinality(Lagging') <= Cardinality(Lagging)
    BY <1>n, Grows DEF LagInv
  <1>m. ASSUME Lagging' \subseteq Lagging
        PROVE  /\ IsFiniteSet(Lagging') /\ Cardinality(Lagging) \in Nat
               /\ Cardinality(Lagging') \in Nat
               /\ Cardinality(Lagging') <= Cardinality(Lagging)
    BY <1>m, <1>n
  <1>p. Paid \in Nat
    BY <1>0 DEF Paid
  <1>1. ASSUME Lagging' \subseteq Lagging, Overtaken' => Overtaken,
               Paid' \in Nat, Paid <= Paid'
        PROVE  LagInv'
    BY <1>p, <1>m, <1>1 DEF LagInv
  <1>2. ASSUME NEW x, Lagging' \subseteq Lagging \cup {x}, ~Overtaken',
               Paid' \in Nat, Paid <= Paid', Overtaken \/ Paid < Paid'
        PROVE  LagInv'
    BY <1>p, <1>n, <1>2 DEF LagInv
  <1>3. ASSUME Lagging' \subseteq Lagging, Paid' \in Nat, Paid < Paid'
        PROVE  LagInv'
    BY <1>p, <1>m, <1>3 DEF LagInv
  <1>k. ASSUME UNCHANGED <<faults, edits>> PROVE Paid' \in Nat /\ Paid <= Paid'
    BY <1>0, <1>k DEF Paid
  <1>g. ASSUME faults' + edits' = faults + edits + 1 PROVE Paid' \in Nat /\ Paid < Paid'
    BY <1>0, <1>g DEF Paid
  <1>4. CASE UNCHANGED vars
    BY <1>0, <1>k, <1>1, <1>4 DEF vars, Lagging, InProgress, Overtaken, Upcoming, Latest
  <1>5. ASSUME UNCHANGED <<body, doc, faults, edits>>, InProgress = {}, InProgress' = {},
               run'.step \notin {"doc", "undo_doc"}
        PROVE  LagInv'
    BY <1>0, <1>k, <1>1, <1>5 DEF Lagging, Overtaken
  <1>6. ASSUME NEW f \in Files, Begin(f) \/ Refuse(f) PROVE LagInv'
    BY <1>5, <1>6 DEF Begin, Refuse, NoRun, InProgress, Busy
  <1>7. CASE RuleGone
    BY <1>0, <1>5, <1>7 DEF RuleGone, Applying, Rollback, InProgress, history, Run
  <1>8. CASE UndoGone
    <2>1. run.step = "undo" /\ run'.step = "undo"
      BY <1>0, <1>8 DEF UndoGone, Undoing, NotUndone, Run
    <2> QED
      BY <1>5, <1>8, <2>1 DEF UndoGone, InProgress, history
  <1>9. CASE Return
    BY <1>0, <1>5, <1>9 DEF Return, NoRun, InProgress, history, Run
  <1>10. CASE WriteBody
    <2>1. /\ Upcoming.id \in Ids /\ run.step = "apply"
          /\ body' = [body EXCEPT ![Upcoming.id] = Upcoming.new]
          /\ UNCHANGED <<doc, faults, edits>>
          /\ run'.step = "doc" /\ run'.changes = run.changes /\ run'.count = run.count
      BY <1>0, <1>10, ChangesTyped DEF WriteBody, Applying, Inv, Change, Run, history
    <2>2. Upcoming' = Upcoming
      BY <2>1 DEF Upcoming
    <2>3. ~Overtaken' /\ InProgress' = {Upcoming.id} /\ InProgress = {}
      BY <1>0, <2>1, <2>2 DEF Overtaken, InProgress
    <2>4. Lagging' \subseteq Lagging
      BY <1>0, <2>1, <2>3 DEF Lagging
    <2> QED
      BY <1>0, <1>k, <1>1, <2>1, <2>3, <2>4
  <1>11. CASE WriteDoc
    <2>1. /\ Upcoming.id \in Ids /\ run.step = "doc"
          /\ doc' = [doc EXCEPT ![Upcoming.id] = Upcoming.new]
          /\ UNCHANGED <<body, faults, edits>> /\ run'.step = "apply"
      BY <1>0, <1>11, ChangesTyped DEF WriteDoc, Inv, Change, Run, history
    <2>2. ~Overtaken' /\ InProgress' = {} /\ InProgress = {Upcoming.id}
      BY <2>1 DEF Overtaken, InProgress
    <2>3. CASE Overtaken
      <3>1. Lagging' \subseteq Lagging \cup {Upcoming.id}
        BY <1>0, <2>1, <2>2 DEF Lagging
      <3> QED
        BY <1>0, <1>k, <1>2, <2>1, <2>2, <2>3, <3>1
    <2>4. CASE ~Overtaken
      <3>1. Lagging' \subseteq Lagging
        BY <1>0, <2>1, <2>2, <2>4 DEF Lagging, Overtaken
      <3> QED
        BY <1>0, <1>k, <1>1, <2>1, <2>2, <3>1
    <2> QED
      BY <2>3, <2>4
  <1>12. CASE UndoBody
    <2>1. /\ Latest.id \in Ids /\ run.step = "undo"
          /\ body' = [body EXCEPT ![Latest.id] = Latest.old]
          /\ UNCHANGED <<doc, faults, edits>>
          /\ run'.step = "undo_doc" /\ run'.changes = run.changes /\ run'.count = run.count
      BY <1>0, <1>12, ChangesTyped DEF UndoBody, Undoing, Inv, Change, Run, history
    <2>2. Latest' = Latest
      BY <2>1 DEF Latest
    <2>3. ~Overtaken' /\ InProgress' = {Latest.id} /\ InProgress = {}
      BY <1>0, <2>1, <2>2 DEF Overtaken, InProgress
    <2>4. Lagging' \subseteq Lagging
      BY <1>0, <2>1, <2>3 DEF Lagging
    <2> QED
      BY <1>0, <1>k, <1>1, <2>1, <2>3, <2>4
  <1>13. CASE UndoDoc
    <2>1. /\ Latest.id \in Ids /\ run.step = "undo_doc"
          /\ doc' = [doc EXCEPT ![Latest.id] = Latest.old]
          /\ UNCHANGED <<body, faults, edits>> /\ run'.step = "undo"
      BY <1>0, <1>13, ChangesTyped DEF UndoDoc, Inv, Change, Run, history
    <2>2. ~Overtaken' /\ InProgress' = {} /\ InProgress = {Latest.id}
      BY <2>1 DEF Overtaken, InProgress
    <2>3. CASE Overtaken
      <3>1. Lagging' \subseteq Lagging \cup {Latest.id}
        BY <1>0, <2>1, <2>2 DEF Lagging
      <3> QED
        BY <1>0, <1>k, <1>2, <2>1, <2>2, <2>3, <3>1
    <2>4. CASE ~Overtaken
      <3>1. Lagging' \subseteq Lagging
        BY <1>0, <2>1, <2>2, <2>4 DEF Lagging, Overtaken
      <3> QED
        BY <1>0, <1>k, <1>1, <2>1, <2>2, <3>1
    <2> QED
      BY <2>3, <2>4
  \* a fault leaves the rule in progress behind
  <1>14. ASSUME UNCHANGED <<body, doc, edits>>, Fault, run'.step \in {"undo", "idle"}
         PROVE  LagInv'
    <2>1. InProgress' = {} /\ ~Overtaken' /\ faults' = faults + 1
      BY <1>14 DEF InProgress, Overtaken, Fault
    <2>2. PICK x : InProgress \subseteq {x}
      BY DEF InProgress
    <2>3. Lagging' \subseteq Lagging \cup {x}
      BY <1>14, <2>1, <2>2 DEF Lagging
    <2> QED
      <3>1. Paid' \in Nat /\ Paid < Paid' /\ Paid <= Paid'
        BY <1>0, <1>p, <1>g, <1>14, <2>1
      <3> QED
        BY <1>2, <2>1, <2>3, <3>1
  <1>15. CASE UpdateFails \/ UndoFails \/ Crash
    <2>1. run'.step \in {"undo", "idle"}
      <3>1. UndoFails => run'.step = "undo"
        BY <1>0 DEF UndoFails, NotUndone, Run
      <3>2. UpdateFails => run'.step = "undo"
        BY <1>0 DEF UpdateFails, Rollback, Run
      <3> QED
        BY <1>15, <3>1, <3>2 DEF Crash, NoRun
    <2> QED
      BY <1>14, <1>15, <2>1 DEF UpdateFails, UndoFails, Crash, history
  <1>16. ASSUME NEW i \in Ids, NEW b \in Stored, OtherWrites(i, b) PROVE LagInv'
    <2>1. /\ UNCHANGED <<run, faults>> /\ edits' = edits + 1
          /\ body' = [body EXCEPT ![i] = b] /\ doc' = [doc EXCEPT ![i] = b]
      BY <1>16 DEF OtherWrites
    <2>2. InProgress' = InProgress
      BY <2>1 DEF InProgress, Upcoming, Latest
    <2>3. Lagging' \subseteq Lagging
      BY <1>0, <2>1, <2>2 DEF Lagging
    <2> QED
      BY <1>0, <1>g, <1>3, <2>1, <2>3
  <1> QED
    BY <1>4, <1>6, <1>7, <1>8, <1>9, <1>10, <1>11, <1>12, <1>13, <1>15, <1>16
       DEF Next, Stored

(* Every fault and every write of another process leaves at most one rule with a
   search document that differs from its body. *)
THEOREM DocumentsBounded == Spec => []StaleDocumentsBounded
  <1>1. Init => LagInv
    <2> SUFFICES ASSUME Init PROVE LagInv
      OBVIOUS
    <2>1. Lagging = {} /\ ~Overtaken /\ Paid = 0
      BY DEF Init, Lagging, Overtaken, NoRun, Paid
    <2> QED
      BY <2>1, FS_EmptySet DEF LagInv
  <1>2. Inv /\ LagInv => StaleDocumentsBounded
    BY DEF LagInv, StaleDocumentsBounded, Lagging, Paid
  <1> QED
    BY <1>1, <1>2, InvAlways, LagNext, PTL DEF Spec

-----------------------------------------------------------------------------
(***************************************************************************)
(* The refinement: between its first write and its return a command is one *)
(* step of RuleBatch.                                                      *)
(***************************************************************************)
LEMMA PairsRequested ==
  ASSUME NEW f \in Files
  PROVE  Pairs(f) \in {Pairs(g) : g \in Files} /\ Pairs(f) # None
  BY EntryAssumption

\* The values a file gives a rule, as the promise reads them off its pairs.
LEMMA GivenByFile ==
  ASSUME NEW f, NEW i
  PROVE  \A v : v \in {e[2] : e \in {r \in Pairs(f) : r[1] = i}}
                <=> \E k \in DOMAIN f : f[k].id = i /\ f[k].body = v
  <1>1. ASSUME NEW v, NEW k \in DOMAIN f, f[k].id = i, f[k].body = v
        PROVE  v \in {e[2] : e \in {r \in Pairs(f) : r[1] = i}}
    <2>1. <<i, v>> \in Pairs(f)
      BY <1>1 DEF Pairs
    <2>2. <<i, v>>[1] = i /\ <<i, v>>[2] = v
      OBVIOUS
    <2> QED
      BY <2>1, <2>2
  <1>2. ASSUME NEW v, v \in {e[2] : e \in {r \in Pairs(f) : r[1] = i}}
        PROVE  \E k \in DOMAIN f : f[k].id = i /\ f[k].body = v
    <2>1. PICK e \in Pairs(f) : e[1] = i /\ v = e[2]
      BY <1>2
    <2>2. PICK k \in DOMAIN f : e = <<f[k].id, f[k].body>>
      BY DEF Pairs
    <2> QED
      BY <2>1, <2>2
  <1> QED
    BY <1>1, <1>2

LEMMA InitImplements == Init => Batch!Init
  BY DEF Init, Batch!Init, Busy, NoRun

LEMMA StepImplements == Inv /\ Inv' /\ DoneInv /\ [Next]_vars => [Batch!Next]_(Batch!vars)
  <1> SUFFICES ASSUME Inv, Inv', DoneInv, [Next]_vars PROVE [Batch!Next]_(Batch!vars)
    OBVIOUS
  <1> DEFINE rules   == IF Busy THEN start.body ELSE body
             request == IF Busy THEN Pairs(file) ELSE None
             Stutter == rules' = rules /\ request' = request /\ calm' = calm
  <1>0. /\ run \in Run /\ CountOK /\ calm \in BOOLEAN
        /\ body \in [Ids -> Stored]
        /\ Busy => file \in Files
    BY DEF Inv, TypeOK
  <1>s. ASSUME Stutter PROVE [Batch!Next]_(Batch!vars)
    BY <1>s DEF Batch!vars
  <1>1. CASE UNCHANGED vars
    BY <1>s, <1>1 DEF vars, Busy
  <1>2. CASE Next /\ ~calm
    <2>1. calm' = calm
      BY <1>2 DEF Next, Begin, Refuse, WriteBody, WriteDoc, RuleGone, UpdateFails, UndoBody,
                  UndoDoc, UndoGone, UndoFails, Return, Crash, OtherWrites, history
    <2>2. rules' \in [Ids -> Stored]
      BY DEF Inv, TypeOK
    <2>3. request' \in {Pairs(f) : f \in Files} \cup {None}
      BY PairsRequested DEF Inv, TypeOK
    <2> QED
      BY <1>2, <2>1, <2>2, <2>3 DEF Batch!Next, Batch!Unpromised, Stored
  <1>3. ASSUME NEW f \in Files, Begin(f) PROVE [Batch!Next]_(Batch!vars)
    <2>1. /\ ~Busy /\ start'.body = body /\ file' = f /\ calm' = calm
          /\ run'.step = "apply"
      BY <1>3 DEF Begin, NoRun
    <2>2. rules' = rules /\ request = None /\ request' = Pairs(f)
      BY <2>1 DEF Busy
    <2> QED
      BY <2>1, <2>2, PairsRequested DEF Batch!Next, Batch!Submit
  <1>4. ASSUME NEW f \in Files, Refuse(f) PROVE [Batch!Next]_(Batch!vars)
    BY <1>s, <1>4 DEF Refuse, Busy
  <1>5. CASE Busy /\ Busy' /\ UNCHANGED history
    BY <1>s, <1>5 DEF history
  <1>6. CASE WriteBody \/ WriteDoc \/ RuleGone \/ UpdateFails \/ UndoBody \/ UndoDoc
             \/ UndoGone \/ UndoFails
    <2>1. Busy /\ UNCHANGED history
      BY <1>6 DEF WriteBody, WriteDoc, RuleGone, UpdateFails, UndoBody, UndoDoc, UndoGone,
                  UndoFails, Applying, Undoing, Busy
    <2>2. run'.step \in {"doc", "apply", "undo", "undo_doc"}
      BY <1>0, <1>6
         DEF WriteBody, WriteDoc, RuleGone, UpdateFails, UndoBody, UndoDoc, UndoGone,
             UndoFails, Rollback, NotUndone, Run
    <2> QED
      BY <1>5, <2>1, <2>2 DEF Busy
  <1>7. CASE Return /\ calm
    <2>1. /\ Busy /\ ~Busy' /\ UNCHANGED <<body, history>> /\ edited = {} /\ ~run.errors
          /\ \/ run.step = "apply" /\ run.count = Len(run.changes)
             \/ run.step = "undo" /\ run.count = 0
      BY <1>7 DEF Return, NoRun, Busy, Inv, CalmOK
    <2>2. /\ rules = start.body /\ rules' = body /\ request' = None
          /\ request = Pairs(file) /\ request # None /\ calm' = calm
      BY <1>0, <2>1, PairsRequested DEF history
    <2>3. CASE run.step = "undo"
      <3>1. Reached = 0 /\ Backward /\ \A i : ~Touched(0, i)
        BY <2>1, <2>3 DEF Reached, Backward, Touched
      <3>2. \A i \in Ids : body[i] = start.body[i]
        BY <1>7, <2>1, <3>1 DEF DoneInv, BodiesOK
      <3>3. body = start.body
        BY <1>0, <3>2 DEF Inv, TypeOK
      <3> QED
        BY <2>2, <3>3 DEF Batch!Next, Batch!Abort
    <2>4. CASE run.step = "apply"
      <3>1. Reached = Len(run.changes) /\ Forward
        BY <2>1, <2>4 DEF Reached, Forward
      <3>2. ASSUME NEW i \in Ids
            PROVE  LET given == {e[2] : e \in {r \in Pairs(file) : r[1] = i}}
                   IN  IF given = {} THEN body[i] = start.body[i] ELSE body[i] \in given
        <4> DEFINE given == {e[2] : e \in {r \in Pairs(file) : r[1] = i}}
        <4> HIDE DEF given
        <4>0. \A v : v \in given <=> \E k \in DOMAIN file : file[k].id = i /\ file[k].body = v
          BY GivenByFile DEF given
        <4>1. CASE Touched(Reached, i)
          <5>1. PICK k \in 1..Len(run.changes) : /\ run.changes[k].id = i
                                                 /\ body[i] = run.changes[k].new
            BY <2>1, <3>1, <4>1 DEF DoneInv, BodiesOK
          <5>2. PICK j \in DOMAIN file : /\ file[j].id = i
                                         /\ file[j].body = run.changes[k].new
            BY <2>1, <5>1 DEF Inv, ChangesOK
          <5>3. body[i] \in given
            BY <4>0, <5>1, <5>2
          <5> QED
            BY <5>3 DEF given
        <4>2. CASE ~Touched(Reached, i)
          <5>1. body[i] = start.body[i]
            BY <2>1, <3>1, <4>2 DEF DoneInv, BodiesOK
          <5>2. \A j \in DOMAIN file : file[j].id = i => file[j].body = start.body[i]
            BY <2>1, <3>1, <4>2 DEF Inv, ChangesOK, Touched
          <5>3. given # {} => body[i] \in given
            BY <4>0, <5>1, <5>2
          <5> QED
            BY <5>1, <5>3 DEF given
        <4> QED
          BY <4>1, <4>2
      <3> QED
        BY <1>0, <2>2, <3>2 DEF Batch!Next, Batch!Commit, Stored
    <2> QED
      BY <2>1, <2>3, <2>4
  <1> QED
    BY <1>1, <1>2, <1>3, <1>4, <1>6, <1>7 DEF Next, Crash, OtherWrites

(* Alone, sync-rules is all or nothing: its changes and its rollback together
   look like one step to whoever reads the rules between two commands. *)
THEOREM Implements == Spec => AllOrNothing
  <1>1. Init => DoneInv
    BY DEF Init, DoneInv, BodiesOK, DocsOK, OutcomeHonest, Forward, Backward, NoRun
  <1> QED
    BY <1>1, InvAlways, DoneNext, InitImplements, StepImplements, PTL
       DEF Spec, AllOrNothing, Batch!Spec

=============================================================================
