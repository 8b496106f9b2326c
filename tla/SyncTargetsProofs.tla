-------------------------- MODULE SyncTargetsProofs --------------------------
(***************************************************************************)
(* What holds of SyncTargets for every set of targets, outputs, contents   *)
(* and records, whatever is edited, fails or dies between the steps.       *)
(*                                                                         *)
(* Inv ties what a run holds to the configuration and the records it was   *)
(* started with.  On it build CheckInv (what a check has compared), OutInv *)
(* (the outputs a run is through with), FiledInv and CleanInv (its records *)
(* and what it leaves of the earlier ones) and TrackInv (the record every  *)
(* generated file has or is about to get).                                 *)
(***************************************************************************)
EXTENDS SyncTargets, SequenceLemmas, TLAPS

-----------------------------------------------------------------------------
Writing == Busy /\ run.mode = "write"

\* The targets a run has still to render, the current one included.
Left == Range(run.targets)

\* What is written down belongs to the mode and the step of the run.
PhaseOK ==
  /\ run.step \in {"previous", "record", "stale"} => run.mode = "write"
  /\ run.step = "stale" => run.targets = <<>>
  /\ run.step # "stale" => run.orphans = {} /\ run.decoupled = {}
  /\ Busy => outcome \in {"running", "disturbed"}
  /\ Writing => \A n \in Configured(config) : matched[n] # NoRules

\* The snapshots of a run are those of the configuration and the records.
SnapshotOK ==
  Busy =>
    /\ run.config = config /\ run.matched = matched
    /\ Left \subseteq Configured(config)
    /\ \A i, j \in DOMAIN run.targets :
         run.targets[i] = run.targets[j] => i = j
    /\ run.previous = IF run.mode = "write" THEN last ELSE Listed
    /\ \A k \in run.outputs :
         \E n \in Configured(config) : PathOf(k) = config[n].out
    /\ \A n \in Configured(config) :
         config[n].out \in CanonicalOuts =>
           CanonicalKey(config[n].out) \in run.outputs
    /\ run.orphans \cup run.decoupled \subseteq Stale

\* A record is found under the slug of the target it names.
RecordsOK ==
  /\ \A s \in Slugs : records[s] # Absent => SlugOf[records[s].name] = s
  /\ \A r \in last : r.slug = SlugOf[r.name]
  /\ \A r1, r2 \in last : r1.slug = r2.slug => r1 = r2

Inv ==
  /\ TypeOK /\ IsFiniteSet(Configured(config))
  /\ PhaseOK /\ SnapshotOK /\ RecordsOK

LEMMA NoRunTyped == NoRun \in RunRecord
  BY DEF NoRun, RunRecord, Steps, Modes, Target

LEMMA ListedTyped ==
  ASSUME TypeOK
  PROVE  Listed \subseteq Listing
  BY DEF TypeOK, Listed, Listing, Record

LEMMA KeyTyped ==
  ASSUME NEW o \in Outs
  PROVE  /\ Key(o) \in Keys /\ PathOf(Key(o)) = o
         /\ CanonicalKey(o) \in Keys /\ PathOf(CanonicalKey(o)) = o
         /\ o \in CanonicalOuts => Key(o) = CanonicalKey(o)
  BY DEF Key, Keys, CanonicalKey, RawKey, PathOf

LEMMA PathTyped ==
  ASSUME NEW k \in Keys
  PROVE  /\ PathOf(k) \in Outs
         /\ PathOf(k) \in CanonicalOuts => k = CanonicalKey(PathOf(k))
  BY DEF Keys, CanonicalKey, RawKey, PathOf

LEMMA InitInv == Init => Inv
  <1> SUFFICES ASSUME Init PROVE Inv
    OBVIOUS
  <1>1. TypeOK
    <2>1. config \in [Names -> Target \cup {Absent}]
      BY InputAssumption DEF Init, Target, Kind
    <2>2. files \in [Outs -> FileTexts \cup {Absent}]
      BY ContentAssumption DEF Init, FileTexts
    <2>3. RunOK
      BY NoRunTyped DEF Init, RunOK, NoRun
    <2>4. outcome \in Outcomes /\ edits \in 0..MaxEdits /\ crashes \in 0..MaxCrashes
      BY InputAssumption DEF Init, Outcomes
    <2> QED
      BY <2>1, <2>2, <2>3, <2>4 DEF Init, TypeOK
  <1>2. PhaseOK /\ SnapshotOK
    BY DEF Init, PhaseOK, SnapshotOK, Busy, Writing, NoRun
  <1>3. RecordsOK
    BY DEF Init, RecordsOK
  <1> QED
    BY <1>1, <1>2, <1>3 DEF Inv, Init

\* The target a run is at.
LEMMA CurrentTyped ==
  ASSUME Inv, Busy, run.targets # <<>>
  PROVE  /\ Current \in Left /\ Current \in Configured(config) /\ Current \in Names
         /\ CurrentTarget = config[Current] /\ CurrentTarget \in Target
         /\ CurrentTarget.out \in Outs /\ CurrentTarget.kind \in Kind
         /\ CurrentText = Rendered(config[Current].kind, matched[Current])
         /\ Tail(run.targets) \in Seq(Names)
         /\ Range(Tail(run.targets)) = Left \ {Current}
         /\ \A i, j \in DOMAIN Tail(run.targets) :
              Tail(run.targets)[i] = Tail(run.targets)[j] => i = j
  <1>1. run.targets \in Seq(Names) /\ config \in [Names -> Target \cup {Absent}]
    BY DEF Inv, TypeOK, RunOK, RunRecord
  <1>2. \A i, j \in DOMAIN run.targets : run.targets[i] = run.targets[j] => i = j
    BY DEF Inv, SnapshotOK
  <1>3. /\ Current \in Left /\ Tail(run.targets) \in Seq(Names)
        /\ Range(Tail(run.targets)) = Left \ {Current}
        /\ \A i, j \in DOMAIN Tail(run.targets) :
              Tail(run.targets)[i] = Tail(run.targets)[j] => i = j
    BY <1>1, <1>2, TailOfDistinct DEF Current, Left
  <1>4. Current \in Configured(config) /\ run.config = config /\ run.matched = matched
    BY <1>3 DEF Inv, SnapshotOK
  <1>5. Current \in Names /\ config[Current] \in Target
    BY <1>1, <1>4 DEF Configured
  <1> QED
    BY <1>3, <1>4, <1>5 DEF CurrentTarget, CurrentText, Target

\* A run that ends forgets what it read.
LEMMA EndInv ==
  ASSUME Inv, NEW how \in Outcomes, End(how), UNCHANGED <<files, records, world>>
  PROVE  Inv'
  <1>1. run' = NoRun /\ ~Busy'
    BY DEF End, NoRun, Busy
  <1>2. TypeOK'
    <2>1. RunOK'
      BY <1>1, NoRunTyped DEF RunOK, NoRun
    <2>2. outcome' \in Outcomes /\ disrupted' \in BOOLEAN
      BY DEF End, Inv, TypeOK, Outcomes
    <2> QED
      BY <2>1, <2>2 DEF Inv, TypeOK, world
  <1>3. PhaseOK' /\ SnapshotOK'
    BY <1>1 DEF PhaseOK, SnapshotOK, Writing, NoRun
  <1>4. RecordsOK' /\ Configured(config)' = Configured(config)
    BY DEF Inv, RecordsOK, world, Configured
  <1> QED
    BY <1>2, <1>3, <1>4 DEF Inv

\* A run that goes on keeps what it read; next is what it still has to do.
LEMMA ContinueInv ==
  ASSUME Inv, Busy, NEW next \in RunRecord, Continue(next), UNCHANGED world,
         next.step # "idle", next.mode = run.mode,
         next.config = run.config, next.matched = run.matched,
         next.previous = run.previous, next.outputs = run.outputs,
         Range(next.targets) \subseteq Left,
         \A i, j \in DOMAIN next.targets :
           next.targets[i] = next.targets[j] => i = j,
         next.step \in {"previous", "record"} => next.targets # <<>>,
         next.step \in {"previous", "record", "stale"} => run.mode = "write",
         next.step = "stale" => next.targets = <<>>,
         next.step # "stale" => next.orphans = {} /\ next.decoupled = {},
         next.orphans \cup next.decoupled \subseteq Stale,
         next.removed \subseteq next.orphans,
         files' \in [Outs -> FileTexts \cup {Absent}],
         records' \in [Slugs -> Record \cup {Absent}],
         \A s \in Slugs : records'[s] # Absent => SlugOf[records'[s].name] = s,
         run.mode # "write" => records' = records
  PROVE  Inv'
  <1>1. run' = next /\ Busy' /\ (Writing' <=> Writing)
    BY DEF Continue, Busy, Writing
  <1>2. TypeOK'
    <2>1. RunOK'
      BY <1>1 DEF RunOK, Stale
    <2> QED
      BY <2>1 DEF Inv, TypeOK, world, Continue
  <1>3. Configured(config)' = Configured(config)
    BY DEF world, Configured
  <1>4. PhaseOK'
    BY <1>1, <1>3 DEF Inv, PhaseOK, world, Continue
  <1>5. SnapshotOK'
    <2>1. Stale' = Stale
      BY <1>1 DEF Stale, Configured
    <2>2. run.mode # "write" => Listed' = Listed
      BY DEF Listed
    <2>3. Left' \subseteq Left
      BY <1>1 DEF Left
    <2> QED
      BY <1>1, <1>3, <2>1, <2>2, <2>3 DEF Inv, SnapshotOK, world
  <1>6. RecordsOK'
    BY DEF Inv, RecordsOK, world
  <1> QED
    BY <1>2, <1>3, <1>4, <1>5, <1>6 DEF Inv

LEMMA RenderInv ==
  ASSUME Inv, RenderWrite \/ RenderDryRun \/ RenderMatches \/ RenderDiffers
  PROVE  Inv'
  <1> USE DEF Rendering
  <1>0. /\ Busy /\ run.targets # <<>> /\ run.step = "render"
        /\ run \in RunRecord /\ run.orphans = {} /\ run.decoupled = {}
        /\ run.removed \subseteq run.orphans
    BY DEF RenderWrite, RenderDryRun, RenderMatches, RenderDiffers, Busy, Inv,
           PhaseOK, TypeOK, RunOK
  <1>1. CASE RenderWrite
    <2> DEFINE next == [run EXCEPT !.step = "previous"]
    <2>1. next \in RunRecord /\ Continue(next)
      BY <1>0, <1>1 DEF RenderWrite, RunRecord, Steps
    <2>2. CurrentText \in FileTexts
      <3>1. Current \in Configured(config) /\ Current \in Names
        BY <1>0, CurrentTyped
      <3>2. matched[Current] \in Contents
        BY <1>0, <1>1, <3>1 DEF RenderWrite, Inv, PhaseOK, Writing, TypeOK
      <3> QED
        BY <1>0, <3>2, CurrentTyped DEF Rendered, FileTexts, SpecDocs
    <2>3. files' \in [Outs -> FileTexts \cup {Absent}]
      BY <1>0, <1>1, <2>2, CurrentTyped DEF RenderWrite, Inv, TypeOK
    <2>4. UNCHANGED <<records, world>> /\ run.mode = "write"
      BY <1>1 DEF RenderWrite
    <2> QED
      BY <1>0, <2>1, <2>3, <2>4, ContinueInv
         DEF Inv, RecordsOK, SnapshotOK, TypeOK, RunRecord, Left
  <1>2. CASE RenderDryRun \/ RenderMatches
    <2>1. NextTarget \in RunRecord /\ Continue(NextTarget)
      BY <1>0, <1>2, CurrentTyped
         DEF RenderDryRun, RenderMatches, NextTarget, RunRecord, Steps
    <2>2. UNCHANGED <<files, records, world>>
      BY <1>2 DEF RenderDryRun, RenderMatches
    <2> QED
      BY <1>0, <2>1, <2>2, ContinueInv, CurrentTyped
         DEF Inv, RecordsOK, TypeOK, RunRecord, NextTarget
  <1>3. CASE RenderDiffers
    BY <1>3, EndInv DEF RenderDiffers, Outcomes
  <1> QED
    BY <1>1, <1>2, <1>3

\* Removing a file the run looked at leaves typed files.
LEMMA RemovedTyped ==
  ASSUME Inv, NEW r \in run.previous
  PROVE  /\ r \in Listing /\ PathOf(r.out) \in Outs
         /\ Removed(r.out) \in [Outs -> FileTexts \cup {Absent}]
  BY PathTyped DEF Inv, TypeOK, RunOK, RunRecord, Listing, Removed

LEMMA PreviousInv ==
  ASSUME Inv,
         KeepPrevious \/ \E r \in run.previous : RemovePrevious(r) \/ RefusePrevious(r)
  PROVE  Inv'
  <1>1. CASE KeepPrevious \/ \E r \in run.previous : RemovePrevious(r)
    <2> DEFINE next == [run EXCEPT !.step = "record"]
    <2>1. /\ Busy /\ run.step = "previous" /\ run.mode = "write"
          /\ run.targets # <<>> /\ run \in RunRecord
          /\ run.orphans = {} /\ run.decoupled = {}
          /\ run.removed \subseteq run.orphans
      BY <1>1 DEF KeepPrevious, RemovePrevious, Busy, Inv, PhaseOK, TypeOK, RunOK
    <2>2. next \in RunRecord /\ Continue(next) /\ UNCHANGED <<records, world>>
      BY <1>1, <2>1 DEF KeepPrevious, RemovePrevious, RunRecord, Steps
    <2>3. files' \in [Outs -> FileTexts \cup {Absent}]
      BY <1>1, RemovedTyped DEF KeepPrevious, RemovePrevious, Inv, TypeOK
    <2> QED
      BY <2>1, <2>2, <2>3, ContinueInv
         DEF Inv, RecordsOK, SnapshotOK, TypeOK, RunRecord, Left
  <1>2. CASE \E r \in run.previous : RefusePrevious(r)
    BY <1>2, EndInv DEF RefusePrevious, Outcomes
  <1> QED
    BY <1>1, <1>2

\* The record of the current target is written or dropped, and the run is at
\* the next target.
LEMMA NextTargetInv ==
  ASSUME Inv, run.step = "record", Continue(NextTarget), UNCHANGED <<files, world>>,
         records' \in [Slugs -> Record \cup {Absent}],
         \A s \in Slugs : records'[s] # Absent => SlugOf[records'[s].name] = s
  PROVE  Inv'
  <1>1. /\ Busy /\ run.mode = "write" /\ run.targets # <<>> /\ run \in RunRecord
        /\ run.orphans = {} /\ run.decoupled = {} /\ run.removed \subseteq run.orphans
    BY DEF Busy, Inv, PhaseOK, TypeOK, RunOK
  <1>2. NextTarget \in RunRecord
    BY <1>1, CurrentTyped DEF NextTarget, RunRecord, Steps
  <1> QED
    BY <1>1, <1>2, ContinueInv, CurrentTyped
       DEF Inv, TypeOK, RunRecord, NextTarget

\* Dropping a record leaves typed records, each under its slug.
LEMMA DroppedTyped ==
  ASSUME Inv, NEW s, records' = [records EXCEPT ![s] = Absent]
  PROVE  /\ records' \in [Slugs -> Record \cup {Absent}]
         /\ \A t \in Slugs : records'[t] # Absent => SlugOf[records'[t].name] = t
  BY DEF Inv, TypeOK, RecordsOK

LEMMA RecordInv ==
  ASSUME Inv, UpsertRecord \/ ForgetSpecDoc
  PROVE  Inv'
  <1>0. /\ run.step = "record" /\ Busy /\ run.targets # <<>>
        /\ records \in [Slugs -> Record \cup {Absent}]
    BY DEF UpsertRecord, ForgetSpecDoc, Busy, Inv, TypeOK, RunOK
  <1>1. CASE UpsertRecord
    <2> DEFINE rec == [name |-> Current, out |-> Key(CurrentTarget.out)]
    <2>1. rec \in Record /\ rec.name = Current
      BY <1>0, CurrentTyped, KeyTyped DEF Record
    <2>2. records' = [records EXCEPT ![SlugOf[Current]] = rec]
      BY <1>1 DEF UpsertRecord
    <2>3. records' \in [Slugs -> Record \cup {Absent}]
      BY <1>0, <2>1, <2>2
    <2>4. \A s \in Slugs : records'[s] # Absent => SlugOf[records'[s].name] = s
      <3> HIDE DEF rec
      <3> QED
        BY <1>0, <2>1, <2>2 DEF Inv, RecordsOK
    <2> QED
      BY <1>0, <1>1, <2>3, <2>4, NextTargetInv DEF UpsertRecord
  <1>2. CASE ForgetSpecDoc
    <2>1. CASE Continue(NextTarget) /\ UNCHANGED records
      BY <1>0, <1>2, <2>1, NextTargetInv DEF ForgetSpecDoc, Inv, RecordsOK
    <2>2. ASSUME NEW r \in PreviousOf(Current), DeleteRecord(r.slug, NextTarget)
          PROVE  Inv'
      <3>1. CASE records[r.slug] = Absent
        BY <1>2, <2>2, <3>1, EndInv DEF ForgetSpecDoc, DeleteRecord, Outcomes
      <3>2. CASE records[r.slug] # Absent
        BY <1>0, <1>2, <2>2, <3>2, DroppedTyped, NextTargetInv
           DEF ForgetSpecDoc, DeleteRecord
      <3> QED
        BY <3>1, <3>2
    <2> QED
      BY <1>2, <2>1, <2>2 DEF ForgetSpecDoc
  <1> QED
    BY <1>1, <1>2

LEMMA CollectInv ==
  ASSUME Inv, Collect \/ ReportOnly \/ Finish
  PROVE  Inv'
  <1>1. CASE Collect
    <2> DEFINE next == [run EXCEPT !.step = "stale", !.orphans = Orphans,
                                   !.decoupled = Stale \ Orphans]
    <2>1. /\ Busy /\ run.mode = "write" /\ run.targets = <<>> /\ run \in RunRecord
          /\ run.removed \subseteq run.orphans /\ run.step = "render"
      BY <1>1 DEF Collect, AllRendered, Busy, Inv, TypeOK, RunOK
    <2>2. Orphans \subseteq Stale /\ Stale \subseteq run.previous
      BY DEF Orphans, Stale
    <2>3. next \in RunRecord
      BY <2>1, <2>2 DEF RunRecord, Steps
    <2>4. run.removed \subseteq Orphans
      BY <2>1 DEF Inv, PhaseOK
    <2> QED
      BY <1>1, <2>1, <2>2, <2>3, <2>4, ContinueInv
         DEF Collect, Inv, RecordsOK, SnapshotOK, TypeOK, RunRecord, Left
  <1>2. CASE ReportOnly
    BY <1>2, EndInv DEF ReportOnly, Outcomes
  <1>3. CASE Finish
    BY <1>3, EndInv DEF Finish, Outcomes
  <1> QED
    BY <1>1, <1>2, <1>3

LEMMA StaleInv ==
  ASSUME Inv, NEW r \in run.orphans \cup run.decoupled,
         \/ r \in run.orphans /\ (RemoveOrphan(r) \/ RefuseOrphan(r) \/ ForgetOrphan(r))
         \/ r \in run.decoupled /\ ForgetDecoupled(r)
  PROVE  Inv'
  <1>0. /\ Busy /\ run.step = "stale" /\ run.mode = "write" /\ run \in RunRecord
        /\ run.orphans \cup run.decoupled \subseteq Stale
        /\ run.orphans \subseteq run.previous /\ run.removed \subseteq run.orphans
        /\ run.targets = <<>>
    BY DEF RemoveOrphan, RefuseOrphan, ForgetOrphan, ForgetDecoupled, Busy, Inv,
           PhaseOK, SnapshotOK, TypeOK, RunOK
  <1>1. CASE r \in run.orphans /\ RemoveOrphan(r)
    <2> DEFINE next == [run EXCEPT !.removed = {r}]
    <2>1. /\ next \in RunRecord /\ next.removed = {r} /\ next.orphans = run.orphans
      BY <1>0, <1>1 DEF RunRecord
    <2>2. files' \in [Outs -> FileTexts \cup {Absent}]
      BY <1>0, <1>1, RemovedTyped DEF RemoveOrphan
    <2> QED
      BY <1>0, <1>1, <2>1, <2>2, ContinueInv
         DEF RemoveOrphan, Inv, RecordsOK, SnapshotOK, TypeOK, RunRecord, Left
  <1>2. CASE RefuseOrphan(r)
    BY <1>2, EndInv DEF RefuseOrphan, Outcomes
  <1>3. ASSUME NEW next \in RunRecord, next.step = "stale", next.mode = run.mode,
               next.config = run.config, next.matched = run.matched,
               next.previous = run.previous, next.outputs = run.outputs,
               next.targets = run.targets,
               next.orphans \subseteq run.orphans, next.decoupled \subseteq run.decoupled,
               next.removed \subseteq next.orphans,
               DeleteRecord(r.slug, next), UNCHANGED <<files, world>>
        PROVE  Inv'
    <2>1. CASE records[r.slug] = Absent
      BY <1>3, <2>1, EndInv DEF DeleteRecord, Outcomes
    <2>2. CASE records[r.slug] # Absent
      <3>1. /\ records' \in [Slugs -> Record \cup {Absent}]
            /\ \A t \in Slugs : records'[t] # Absent => SlugOf[records'[t].name] = t
        BY <1>3, <2>2, DroppedTyped DEF DeleteRecord
      <3> QED
        BY <1>0, <1>3, <2>2, <3>1, ContinueInv
           DEF DeleteRecord, Inv, SnapshotOK, TypeOK, Left
    <2> QED
      BY <2>1, <2>2
  <1>4. CASE ForgetOrphan(r)
    <2> DEFINE next == [run EXCEPT !.removed = {}, !.orphans = @ \ {r}]
    <2>1. next \in RunRecord
      BY <1>0 DEF RunRecord
    <2> QED
      BY <1>0, <1>3, <1>4, <2>1 DEF ForgetOrphan, RunRecord
  <1>5. CASE ForgetDecoupled(r)
    <2> DEFINE next == [run EXCEPT !.decoupled = @ \ {r}]
    <2>1. next \in RunRecord
      BY <1>0 DEF RunRecord
    <2> QED
      BY <1>0, <1>3, <1>5, <2>1 DEF ForgetDecoupled, RunRecord
  <1> QED
    BY <1>1, <1>2, <1>4, <1>5

\* What a run lists at its start: one record per slug, under the slug of its name.
LEMMA ListedKeyed ==
  ASSUME Inv
  PROVE  /\ Listed \subseteq Listing
         /\ \A r \in Listed : r.slug = SlugOf[r.name]
         /\ \A r1, r2 \in Listed : r1.slug = r2.slug => r1 = r2
  <1>1. Listed \subseteq Listing
    BY ListedTyped DEF Inv
  <1> QED
    BY <1>1 DEF Inv, RecordsOK, Listed

\* What a run starts with.
LEMMA BeginRun ==
  ASSUME Inv, NEW mode \in Modes, Begin(mode)
  PROVE  /\ run' \in RunRecord /\ run'.step = "render" /\ run'.mode = mode
         /\ run'.targets \in Seq(Names) /\ Left' = Configured(config)
         /\ \A i, j \in DOMAIN run'.targets :
              run'.targets[i] = run'.targets[j] => i = j
         /\ run'.config = config /\ run'.matched = matched /\ run'.previous = Listed
         /\ run'.outputs = {Key(config[n].out) : n \in Configured(config)}
         /\ run'.orphans = {} /\ run'.decoupled = {} /\ run'.removed = {}
         /\ UNCHANGED <<config, matched, files, records, disrupted, edits, crashes>>
         /\ outcome' = "running" /\ last' = IF mode = "write" THEN Listed ELSE last
  <1>1. PICK order \in SetToSeqs(Configured(config)) :
          run' = [NoRun EXCEPT
                    !.step = "render", !.mode = mode, !.targets = order,
                    !.config = config, !.matched = matched, !.previous = Listed,
                    !.outputs = {Key(config[n].out) : n \in Configured(config)}]
    BY DEF Begin
  <1>2. /\ order \in Seq(Configured(config)) /\ Range(order) = Configured(config)
        /\ \A i, j \in DOMAIN order : order[i] = order[j] => i = j
    BY OrderCovers DEF Inv
  <1>3. order \in Seq(Names)
    BY <1>2, SeqMonotonic DEF Configured
  <1>4. \A n \in Configured(config) : config[n].out \in Outs
    BY DEF Inv, TypeOK, Configured, Target
  <1>5. {Key(config[n].out) : n \in Configured(config)} \subseteq Keys
    BY <1>4, KeyTyped
  <1>6. run' \in RunRecord
    BY <1>1, <1>3, <1>5, ListedKeyed DEF NoRun, RunRecord, Steps, Inv, TypeOK
  <1> QED
    BY <1>1, <1>2, <1>3, <1>6 DEF NoRun, Left, Begin

LEMMA BeginInv ==
  ASSUME Inv, NEW mode \in Modes, Begin(mode)
  PROVE  Inv'
  <1>1. TypeOK'
    BY BeginRun, ListedKeyed DEF Inv, TypeOK, RunOK, Outcomes
  <1>2. PhaseOK'
    BY BeginRun DEF PhaseOK, Writing, Begin, Refused, Configured
  <1>3. SnapshotOK'
    <2>1. Configured(config)' = Configured(config) /\ Listed' = Listed
      BY BeginRun DEF Configured, Listed
    <2>2. \A n \in Configured(config) :
            /\ PathOf(Key(config[n].out)) = config[n].out
            /\ config[n].out \in CanonicalOuts =>
                 Key(config[n].out) = CanonicalKey(config[n].out)
      BY KeyTyped DEF Inv, TypeOK, Configured, Target
    <2> QED
      BY <2>1, <2>2, BeginRun DEF SnapshotOK
  <1>4. RecordsOK'
    BY BeginRun, ListedKeyed DEF Inv, RecordsOK
  <1> QED
    BY <1>1, <1>2, <1>3, <1>4, BeginRun DEF Inv, Configured

LEMMA UserInv ==
  ASSUME Inv, User
  PROVE  Inv'
  <1>1. ASSUME NEW n \in Names, NEW target \in Target \cup {Absent},
               EditConfig(n, target)
        PROVE  Inv'
    <2>1. ~Busy /\ ~Busy' /\ config' = [config EXCEPT ![n] = target]
          /\ UNCHANGED <<matched, files, records, run, disrupted, crashes>>
          /\ edits < MaxEdits /\ edits' = edits + 1
          /\ outcome' = "none" /\ last' = {}
      BY <1>1 DEF EditConfig, Edit, Busy
    <2>2. TypeOK'
      BY <2>1, InputAssumption DEF Inv, TypeOK, RunOK, Outcomes
    <2>3. IsFiniteSet(Configured(config))'
      <3>1. Configured(config') \subseteq Configured(config) \cup {n}
        BY <2>1 DEF Configured, Inv, TypeOK
      <3>2. IsFiniteSet(Configured(config) \cup {n})
        BY FS_AddElement DEF Inv
      <3> QED
        BY <3>1, <3>2, FS_Subset
    <2>4. PhaseOK' /\ SnapshotOK' /\ RecordsOK'
      BY <2>1 DEF Inv, PhaseOK, SnapshotOK, RecordsOK, Writing
    <2> QED
      BY <2>2, <2>3, <2>4 DEF Inv
  <1>2. ASSUME NEW n \in Names, NEW c \in Contents \cup {NoRules}, EditRules(n, c)
        PROVE  Inv'
    <2>1. ~Busy /\ ~Busy' /\ matched' = [matched EXCEPT ![n] = c]
          /\ UNCHANGED <<config, files, records, run, disrupted, crashes>>
          /\ edits < MaxEdits /\ edits' = edits + 1
          /\ outcome' = "none" /\ last' = {}
      BY <1>2 DEF EditRules, Edit, Busy
    <2>2. TypeOK'
      BY <2>1, InputAssumption DEF Inv, TypeOK, RunOK, Outcomes
    <2>3. PhaseOK' /\ SnapshotOK' /\ RecordsOK'
      BY <2>1 DEF Inv, PhaseOK, SnapshotOK, RecordsOK, Writing
    <2> QED
      BY <2>1, <2>2, <2>3 DEF Inv, Configured
  <1>3. ASSUME NEW o \in Outs, NEW text \in HandValues, EditOutput(o, text)
        PROVE  Inv'
    <2>1. /\ files' = [files EXCEPT ![o] = text]
          /\ UNCHANGED <<config, matched, records, run, disrupted, crashes>>
          /\ edits < MaxEdits /\ edits' = edits + 1
          /\ outcome' = (IF Busy THEN "disturbed" ELSE "none")
          /\ last' = (IF Busy THEN last ELSE {})
      BY <1>3 DEF EditOutput, Edit
    <2>2. TypeOK'
      <3>1. files' \in [Outs -> FileTexts \cup {Absent}]
        BY <2>1, ContentAssumption DEF Inv, TypeOK, FileTexts
      <3> QED
        BY <2>1, <3>1, InputAssumption DEF Inv, TypeOK, RunOK, Outcomes
    <2>3. Busy' = Busy /\ Left' = Left /\ Stale' = Stale /\ Listed' = Listed
          /\ Configured(config)' = Configured(config)
      BY <2>1 DEF Busy, Left, Stale, Listed, Configured
    <2>4. PhaseOK' /\ SnapshotOK' /\ RecordsOK'
      BY <2>1, <2>3 DEF Inv, PhaseOK, SnapshotOK, RecordsOK, Writing
    <2> QED
      BY <2>2, <2>3, <2>4 DEF Inv
  <1>4. \A o \in Outs, k \in Kinds : [out |-> o, kind |-> k] \in Target
    BY InputAssumption DEF Target
  <1> QED
    BY <1>1, <1>2, <1>3, <1>4 DEF User

LEMMA CrashInv ==
  ASSUME Inv, Crash
  PROVE  Inv'
  <1>1. run' = NoRun /\ ~Busy' /\ outcome' = "none"
        /\ UNCHANGED <<config, matched, files, records, last, edits>>
    BY DEF Crash, Busy, NoRun
  <1>2. TypeOK'
    <2>1. RunOK'
      BY <1>1, NoRunTyped DEF RunOK, NoRun
    <2>2. crashes' \in 0..MaxCrashes /\ disrupted' \in BOOLEAN
      BY InputAssumption DEF Crash, Inv, TypeOK
    <2> QED
      BY <1>1, <2>1, <2>2 DEF Inv, TypeOK, Outcomes
  <1>3. PhaseOK' /\ SnapshotOK'
    BY <1>1 DEF PhaseOK, SnapshotOK, Writing, NoRun
  <1>4. RecordsOK' /\ Configured(config)' = Configured(config)
    BY <1>1 DEF Inv, RecordsOK, Configured
  <1> QED
    BY <1>2, <1>3, <1>4 DEF Inv

LEMMA NextInv == Inv /\ [Next]_vars => Inv'
  <1> SUFFICES ASSUME Inv, [Next]_vars PROVE Inv'
    OBVIOUS
  <1>1. CASE UNCHANGED vars
    BY <1>1 DEF vars, Inv, TypeOK, RunOK, PhaseOK, SnapshotOK, RecordsOK, Busy,
                Writing, Left, Listed, Stale, Configured
  <1>2. CASE \E mode \in Modes : Begin(mode)
    BY <1>2, BeginInv
  <1>3. CASE RunStep
    <2>1. run.orphans \subseteq run.previous /\ run.decoupled \subseteq run.previous
      BY DEF Inv, TypeOK, RunOK
    <2> QED
      BY <1>3, <2>1, RenderInv, PreviousInv, RecordInv, CollectInv, StaleInv
         DEF RunStep
  <1>4. CASE User
    BY <1>4, UserInv
  <1>5. CASE Crash
    BY <1>5, CrashInv
  <1> QED
    BY <1>1, <1>2, <1>3, <1>4, <1>5 DEF Next

LEMMA InvAlways == Spec => []Inv
  BY InitInv, NextInv, PTL DEF Spec

(* The state of sync-targets and of the run in progress keeps its types. *)
THEOREM TypeCorrect == Spec => []TypeOK
  <1>1. Spec => []Inv
    BY InvAlways
  <1>2. Inv => TypeOK
    BY DEF Inv
  <1> QED
    BY <1>1, <1>2, PTL

\* The steps that touch no file.
LEMMA FilesKept ==
  ASSUME Inv, Next
  PROVE  \/ UNCHANGED files
         \/ edits' # edits
         \/ RenderWrite
         \/ \E r \in run.previous : RemovePrevious(r)
         \/ \E r \in run.orphans : RemoveOrphan(r)
  <1>1. CASE RunStep
    BY <1>1
       DEF RunStep, RenderDryRun, RenderMatches, RenderDiffers, KeepPrevious,
           RefusePrevious, UpsertRecord, ForgetSpecDoc, Collect, ReportOnly,
           RefuseOrphan, ForgetOrphan, ForgetDecoupled, Finish
  <1>2. CASE User
    <2>1. Edit => edits' # edits
      BY InputAssumption DEF Edit, Inv, TypeOK
    <2> QED
      BY <1>2, <2>1 DEF User, EditConfig, EditRules, EditOutput
  <1> QED
    BY <1>1, <1>2 DEF Next, Begin, Crash

(* A run touches only its own outputs: in write mode, a target's file, with
   the text of the target; or the recorded output it deletes, if it has the
   generated marker when it is deleted. *)
THEOREM OutputsOwned == Spec => OnlyOwnOutputs
  <1>1. Inv /\ [Next]_vars => [FilesTouched]_vars
    <2> SUFFICES ASSUME Inv, Next, edits' = edits, files' # files
                 PROVE  FilesTouched
      BY DEF FilesTouched
    <2>1. CASE RenderWrite
      <3>1. Busy /\ run.targets # <<>> /\ run.mode = "write"
        BY <2>1 DEF RenderWrite, Rendering, Busy
      <3>2. Current \in Configured(run.config) /\ run.config = config
            /\ run.matched = matched
        BY <3>1, CurrentTyped DEF Inv, SnapshotOK
      <3>3. files' = [files EXCEPT ![run.config[Current].out] =
                        Rendered(run.config[Current].kind, run.matched[Current])]
        BY <2>1 DEF RenderWrite, CurrentText, CurrentTarget
      <3> QED
        BY <3>1, <3>2, <3>3 DEF FilesTouched, Inv, PhaseOK, Writing, TypeOK
    <2>2. ASSUME NEW r \in run.previous, RemovePrevious(r) \/ RemoveOrphan(r)
          PROVE  FilesTouched
      <3>1. Busy /\ run.mode = "write" /\ run.config = config /\ run.matched = matched
        BY <2>2 DEF RemovePrevious, RemoveOrphan, Busy, Inv, PhaseOK, SnapshotOK
      <3>2. files' = [files EXCEPT ![PathOf(r.out)] = Absent]
            /\ (files[PathOf(r.out)] = Absent \/ HasMarker(files[PathOf(r.out)]))
        BY <2>2 DEF RemovePrevious, RemoveOrphan, Removable, Removed
      <3> QED
        BY <3>1, <3>2 DEF FilesTouched, Inv, PhaseOK, Writing, TypeOK
    <2>3. run.orphans \subseteq run.previous
      BY DEF Inv, TypeOK, RunOK
    <2> QED
      BY <2>1, <2>2, <2>3, FilesKept
  <1>2. Spec => []Inv
    BY InvAlways
  <1> QED
    BY <1>1, <1>2, PTL DEF Spec, OnlyOwnOutputs

-----------------------------------------------------------------------------
(***************************************************************************)
(* What a step of a run does to the world, for the invariants about the    *)
(* files and the records.                                                  *)
(***************************************************************************)
Dropped(r, next) ==
  /\ records[r.slug] # Absent
  /\ records' = [records EXCEPT ![r.slug] = Absent]
  /\ Continue(next)
  /\ UNCHANGED <<files, world>>

LEMMA RunStepCases ==
  ASSUME Inv, RunStep
  PROVE  \/ RenderWrite
         \/ RenderDryRun \/ RenderMatches
         \/ ReportOnly \/ Finish
         \/ /\ (End("drift") /\ run.mode = "check") \/ End("error")
            /\ UNCHANGED <<files, records, world>>
         \/ KeepPrevious
         \/ \E r \in run.previous : RemovePrevious(r)
         \/ UpsertRecord
         \/ /\ run.step = "record" /\ CurrentTarget.kind = "spec-doc"
            /\ PreviousOf(Current) = {} /\ Continue(NextTarget)
            /\ UNCHANGED <<files, records, world>>
         \/ /\ run.step = "record" /\ CurrentTarget.kind = "spec-doc"
            /\ \E r \in PreviousOf(Current) : Dropped(r, NextTarget)
         \/ Collect
         \/ \E r \in run.orphans : RemoveOrphan(r)
         \/ \E r \in run.removed :
              /\ run.step = "stale"
              /\ Dropped(r, [run EXCEPT !.removed = {}, !.orphans = @ \ {r}])
         \/ \E r \in run.decoupled :
              /\ run.step = "stale" /\ run.orphans = {}
              /\ Dropped(r, [run EXCEPT !.decoupled = @ \ {r}])
  <1>1. CASE RenderDiffers
    BY <1>1 DEF RenderDiffers, Rendering
  <1>2. ASSUME NEW r \in run.previous, RefusePrevious(r)
        PROVE  End("error") /\ UNCHANGED <<files, records, world>>
    BY <1>2 DEF RefusePrevious
  <1>3. ASSUME NEW r \in run.orphans, RefuseOrphan(r)
        PROVE  End("error") /\ UNCHANGED <<files, records, world>>
    BY <1>3 DEF RefuseOrphan
  <1>4. ASSUME NEW r, NEW next, DeleteRecord(r.slug, next), UNCHANGED <<files, world>>
        PROVE  \/ Dropped(r, next)
               \/ End("error") /\ UNCHANGED <<files, records, world>>
    BY <1>4 DEF DeleteRecord, Dropped
  <1>5. CASE ForgetSpecDoc
    BY <1>4, <1>5 DEF ForgetSpecDoc
  <1>6. CASE \E r \in run.orphans : ForgetOrphan(r)
    BY <1>4, <1>6 DEF ForgetOrphan
  <1>7. CASE \E r \in run.decoupled : ForgetDecoupled(r)
    BY <1>4, <1>7 DEF ForgetDecoupled
  <1> QED
    BY <1>1, <1>2, <1>3, <1>5, <1>6, <1>7 DEF RunStep

LEMMA AtNextTarget ==
  ASSUME Inv, Busy, run.targets # <<>>, Continue(NextTarget), UNCHANGED world
  PROVE  /\ Busy' /\ run'.step = "render" /\ run'.mode = run.mode
         /\ outcome' = outcome /\ disrupted' = disrupted
         /\ Left' = Left \ {Current}
         /\ run'.previous = run.previous
  BY CurrentTyped
     DEF NextTarget, Continue, Busy, Left, Inv, TypeOK, RunOK, RunRecord

\* What the properties say of a configuration stays as it is in a run.
LEMMA WorldKept ==
  ASSUME UNCHANGED world
  PROVE  /\ Configured(config)' = Configured(config)
         /\ \A n \in Names : Shared(n)' = Shared(n)
         /\ \A o \in Outs : Reclaimed(o)' = Reclaimed(o)
  BY DEF world, Configured, Shared, Reclaimed

LEMMA RunBusy == RunStep => Busy
  BY DEF RunStep, RenderWrite, RenderDryRun, RenderMatches, RenderDiffers,
         KeepPrevious, RemovePrevious, RefusePrevious, UpsertRecord, ForgetSpecDoc,
         Collect, ReportOnly, RemoveOrphan, RefuseOrphan, ForgetOrphan,
         ForgetDecoupled, Finish, Busy, Rendering, AllRendered

\* A step of a run ends it or goes on in the same mode.
LEMMA EndsOrGoesOn ==
  ASSUME Inv, RunStep
  PROVE  /\ Busy
         /\ \/ /\ ~Busy'
               /\ \/ ReportOnly \/ Finish
                  \/ /\ End("drift") \/ End("error")
                     /\ UNCHANGED <<files, records, world>>
            \/ /\ Busy' /\ run'.mode = run.mode /\ run'.previous = run.previous
               /\ outcome' = outcome /\ disrupted' = disrupted
               /\ run.mode = "write" \/ RenderDryRun \/ RenderMatches
  <1>0. Busy /\ run \in RunRecord
    BY RunBusy DEF Inv, TypeOK, RunOK
  <1>1. ASSUME NEW how, End(how) PROVE ~Busy'
    BY <1>1 DEF End, NoRun, Busy
  <1>2. CASE ReportOnly \/ Finish
    BY <1>0, <1>1, <1>2 DEF ReportOnly, Finish
  <1>3. CASE RenderDryRun \/ RenderMatches
    BY <1>0, <1>3, AtNextTarget DEF RenderDryRun, RenderMatches, Rendering
  <1>4. CASE RenderWrite \/ KeepPrevious \/ \E r \in run.previous : RemovePrevious(r)
    BY <1>0, <1>4
       DEF RenderWrite, Rendering, KeepPrevious, RemovePrevious, Continue, Busy,
           Inv, PhaseOK, RunRecord
  <1>5. CASE run.step = "record" /\ Continue(NextTarget) /\ UNCHANGED world
    BY <1>0, <1>5, AtNextTarget DEF Inv, PhaseOK, TypeOK, RunOK
  <1>6. CASE Collect \/ \E r \in run.orphans : RemoveOrphan(r)
    BY <1>0, <1>6 DEF Collect, RemoveOrphan, Continue, Busy, Inv, PhaseOK, RunRecord
  <1>7. ASSUME run.step = "stale", NEW r, NEW next, Continue(next),
               \/ next = [run EXCEPT !.removed = {}, !.orphans = @ \ {r}]
               \/ next = [run EXCEPT !.decoupled = @ \ {r}]
        PROVE  /\ Busy' /\ run'.mode = run.mode /\ run'.previous = run.previous
               /\ outcome' = outcome /\ disrupted' = disrupted /\ run.mode = "write"
    BY <1>0, <1>7 DEF Continue, Busy, Inv, PhaseOK, RunRecord
  <1> QED
    BY <1>0, <1>1, <1>2, <1>3, <1>4, <1>5, <1>6, <1>7, RunStepCases
       DEF UpsertRecord, Dropped

(***************************************************************************)
(* --check: the targets that are not left hold what they render to, as     *)
(* long as nobody interferes, so none is out of date when none is left.    *)
(***************************************************************************)
Checking == Busy /\ run.mode = "check" /\ outcome = "running"

CheckInv ==
  /\ Checking => \A n \in Configured(config) \ Left : UpToDate(n)
  /\ CheckSound

LEMMA NoneStale ==
  ASSUME Inv, run.config = config, run.previous = Listed, Orphans = {}
  PROVE  \A r \in Listed : ~StaleNow(r)
  <1>1. Listed \subseteq Listing
    BY ListedTyped DEF Inv
  <1> QED
    BY <1>1 DEF Orphans, Stale, StaleNow, Configured, Listing

LEMMA CheckNext == Inv /\ CheckInv /\ [Next]_vars => CheckInv'
  <1> SUFFICES ASSUME Inv, CheckInv, [Next]_vars PROVE CheckInv'
    OBVIOUS
  <1>1. CASE UNCHANGED vars
    BY <1>1 DEF vars, CheckInv, Checking, CheckSound, Busy, Left, UpToDate,
                StaleNow, Listed, Configured
  <1>2. CASE ~Checking' /\ outcome' # "checked"
    BY <1>2 DEF CheckInv, CheckSound
  <1>3. ASSUME NEW mode \in Modes, Begin(mode) PROVE CheckInv'
    <2>1. Configured(config)' \ Left' = {} /\ outcome' = "running"
      BY <1>3, BeginRun DEF Configured
    <2> QED
      BY <2>1 DEF CheckInv, CheckSound
  <1>4. CASE RunStep
    <2>0. run \in RunRecord
      BY DEF Inv, TypeOK, RunOK
    <2>1. CASE run.mode = "check" /\ RenderMatches
      <3>1. Busy /\ run.targets # <<>> /\ Continue(NextTarget) /\ UNCHANGED <<files, world>>
            /\ files[CurrentTarget.out] = CurrentText
        BY <2>1 DEF RenderMatches, Rendering, Busy
      <3>2. UpToDate(Current)
        BY <3>1, CurrentTyped DEF UpToDate
      <3>3. \A n \in Configured(config) \ Left' : UpToDate(n)' = UpToDate(n)
        BY <3>1 DEF UpToDate, world
      <3>4. outcome' # "checked"
        BY <3>1 DEF Continue, Inv, PhaseOK
      <3> QED
        BY <3>1, <3>2, <3>3, <3>4, AtNextTarget, WorldKept
           DEF CheckInv, Checking, CheckSound
    <2>2. CASE ReportOnly /\ outcome' = "checked"
      <3>1. /\ Busy /\ run.mode = "check" /\ outcome = "running" /\ run.targets = <<>>
            /\ Orphans = {} /\ ~Busy' /\ UNCHANGED <<files, records, world>>
        BY <2>2 DEF ReportOnly, AllRendered, End, NoRun, Busy, Inv, PhaseOK,
                    RunRecord, TypeOK, RunOK, Modes
      <3>2. Left = {}
        BY <3>1 DEF Left, Range
      <3>3. \A n \in Configured(config) : UpToDate(n)
        BY <3>1, <3>2 DEF CheckInv, Checking
      <3>4. \A r \in Listed : ~StaleNow(r)
        BY <3>1, NoneStale DEF Inv, SnapshotOK
      <3> QED
        BY <3>1, <3>3, <3>4
           DEF CheckInv, Checking, CheckSound, UpToDate, StaleNow, Listed,
               Configured, world
    <2>3. CASE ~(run.mode = "check" /\ RenderMatches) /\ ~(ReportOnly /\ outcome' = "checked")
      <3>1. CASE ReportOnly
        BY <1>2, <2>3, <3>1 DEF Checking, ReportOnly, End, NoRun, Busy
      <3>2. CASE ~ReportOnly
        BY <1>2, <1>4, <2>3, <3>2, EndsOrGoesOn
           DEF Checking, Finish, End, Inv, PhaseOK, RenderDryRun, Rendering
      <3> QED
        BY <3>1, <3>2
    <2> QED
      BY <2>1, <2>2, <2>3
  <1>5. CASE User
    <2>1. outcome' \in {"disturbed", "none"}
      BY <1>5 DEF User, EditConfig, EditRules, EditOutput, Edit
    <2> QED
      BY <1>2, <2>1 DEF Checking
  <1>6. CASE Crash
    BY <1>2, <1>6 DEF Crash, Checking
  <1> QED
    BY <1>1, <1>3, <1>4, <1>5, <1>6 DEF Next

(***************************************************************************)
(* Writing: the targets whose file this run has written.                   *)
(***************************************************************************)
Here == run.step \in {"previous", "record"}

Written == Configured(config) \ (IF Here THEN Left \ {Current} ELSE Left)

LEMMA RunKeepsWorld == RunStep => UNCHANGED world
  BY DEF RunStep, RenderWrite, RenderDryRun, RenderMatches, RenderDiffers,
         KeepPrevious, RemovePrevious, RefusePrevious, UpsertRecord, ForgetSpecDoc,
         Collect, ReportOnly, RemoveOrphan, RefuseOrphan, ForgetOrphan,
         ForgetDecoupled, Finish

\* During a run users only get at the outputs.
LEMMA EditsInRun ==
  ASSUME User, Busy
  PROVE  /\ UNCHANGED <<config, matched, records, run, last, disrupted>>
         /\ outcome' = "disturbed"
         /\ \E o \in Outs, text \in HandValues : EditOutput(o, text)
  <1>1. \E o \in Outs, text \in HandValues : EditOutput(o, text)
    BY DEF User, EditConfig, EditRules
  <1> QED
    BY <1>1 DEF EditOutput, Edit

LEMMA EditsIdle ==
  ASSUME User, ~Busy
  PROVE  /\ UNCHANGED <<records, run, disrupted>> /\ ~Busy'
         /\ outcome' = "none" /\ last' = {}
  <1>1. Edit /\ ~Busy => /\ UNCHANGED <<records, run, disrupted>> /\ ~Busy'
                        /\ outcome' = "none" /\ last' = {}
    BY DEF Edit, Busy
  <1> QED
    BY <1>1 DEF User, EditConfig, EditRules, EditOutput

\* How the steps of a writing run change what is written and what is left.
LEMMA RunTyped ==
  ASSUME Inv, UNCHANGED world
  PROVE  run \in RunRecord /\ Configured(config)' = Configured(config)
  BY WorldKept DEF Inv, TypeOK, RunOK

LEMMA WritesCurrent ==
  ASSUME Inv, RenderWrite
  PROVE  /\ Writing /\ Writing' /\ ~Here /\ Here' /\ Current' = Current
         /\ Current \in Configured(config) /\ run'.step = "previous"
         /\ Left' = Left /\ Written' = Written \cup {Current}
         /\ Current \notin Written
  <1>1. /\ Busy /\ run.targets # <<>> /\ run.step = "render" /\ run.mode = "write"
        /\ run' = [run EXCEPT !.step = "previous"] /\ UNCHANGED world
    BY DEF RenderWrite, Rendering, Continue, Busy
  <1>2. /\ Busy' /\ run'.mode = "write" /\ run'.step = "previous"
        /\ run'.targets = run.targets
    BY <1>1, RunTyped DEF RunRecord, Busy
  <1>3. Left' = Left /\ Current' = Current
    BY <1>2 DEF Left, Current
  <1> QED
    BY <1>1, <1>2, <1>3, RunTyped, CurrentTyped DEF Written, Writing, Here

LEMMA LeavesPrevious ==
  ASSUME Inv, UNCHANGED world, run.step = "previous",
         Continue([run EXCEPT !.step = "record"])
  PROVE  /\ Writing /\ Writing' /\ Here /\ Here' /\ Current' = Current
         /\ Current \in Configured(config) /\ run'.step = "record"
         /\ Left' = Left /\ Written' = Written
  <1>1. /\ Busy /\ run.targets # <<>> /\ run.mode = "write"
    BY DEF Busy, Inv, PhaseOK, TypeOK, RunOK
  <1>2. /\ Busy' /\ run'.mode = "write" /\ run'.step = "record"
        /\ run'.targets = run.targets
    BY <1>1, RunTyped DEF RunRecord, Busy, Continue
  <1>3. Left' = Left /\ Current' = Current
    BY <1>2 DEF Left, Current
  <1> QED
    BY <1>1, <1>2, <1>3, RunTyped, CurrentTyped DEF Written, Writing, Here

LEMMA LeavesTarget ==
  ASSUME Inv, UNCHANGED world, run.step = "record", Continue(NextTarget)
  PROVE  /\ Writing /\ Writing' /\ Here /\ ~Here' /\ run'.step = "render"
         /\ Current \in Configured(config) /\ Current \in Left
         /\ Left' = Left \ {Current} /\ Written' = Written
  <1>1. /\ Busy /\ run.targets # <<>> /\ run.mode = "write"
    BY DEF Busy, Inv, PhaseOK, TypeOK, RunOK
  <1> QED
    BY <1>1, RunTyped, AtNextTarget, CurrentTyped DEF Written, Writing, Here

LEMMA StartsStale ==
  ASSUME Inv, Collect
  PROVE  /\ Writing /\ Writing' /\ ~Here /\ ~Here' /\ run'.step = "stale"
         /\ Left = {} /\ Left' = {} /\ Written' = Written
  <1>1. /\ Busy /\ run.mode = "write" /\ run.targets = <<>> /\ run.step = "render"
        /\ UNCHANGED world
    BY DEF Collect, AllRendered, Busy
  <1>2. /\ Busy' /\ run'.mode = "write" /\ run'.targets = <<>> /\ run'.step = "stale"
    BY <1>1, RunTyped DEF Collect, Continue, RunRecord, Busy
  <1>3. Left = {} /\ Left' = {}
    BY <1>1, <1>2 DEF Left, Range
  <1> QED
    BY <1>1, <1>2, <1>3, RunTyped DEF Written, Writing, Here

LEMMA AtStale ==
  ASSUME Inv, run.step = "stale"
  PROVE  Writing /\ ~Here /\ Left = {} /\ Written = Configured(config)
  <1>1. run.mode = "write" /\ run.targets = <<>>
    BY DEF Inv, PhaseOK
  <1> QED
    BY <1>1 DEF Writing, Here, Busy, Left, Written, Range

LEMMA StaysStale ==
  ASSUME Inv, UNCHANGED world, run.step = "stale", NEW next, Continue(next),
         next.step = "stale", next.targets = run.targets, next.mode = run.mode
  PROVE  Writing' /\ ~Here' /\ Left' = {} /\ Written' = Written
  <1>1. run.mode = "write" /\ run' = next
    BY DEF Inv, PhaseOK, Continue
  <1> QED
    BY <1>1, AtStale, RunTyped DEF Writing, Here, Busy, Left, Written

\* A run that nobody disturbed keeps what it wrote up to date, except where it
\* removes the recorded output of a target that left.
Kept(n) ==
  config[n].out \in CanonicalOuts =>
    Shared(n) \/ Reclaimed(config[n].out) \/ UpToDate(n)

OutInv ==
  /\ Writing /\ outcome = "running" => \A n \in Written : Kept(n)
  /\ OutputsCurrentUnlessReclaimed

\* What a moved target leaves behind is no output of the configuration whose
\* path the run could recognise.
LEMMA MovedElsewhere ==
  ASSUME Inv, Here, NEW r \in PreviousOf(Current), MustRemove(r),
         NEW n \in Configured(config), config[n].out = PathOf(r.out),
         config[n].out \in CanonicalOuts
  PROVE  Reclaimed(config[n].out)
  <1>1. Busy /\ run.mode = "write" /\ run.targets # <<>> /\ run \in RunRecord
    BY DEF Here, Busy, Inv, PhaseOK, TypeOK, RunOK
  <1>2. r \in last /\ r.name = Current /\ r.out \in Keys
    BY <1>1 DEF PreviousOf, Inv, SnapshotOK, RunRecord, Listing
  <1>3. r.out = CanonicalKey(config[n].out) /\ r.out \in run.outputs
    BY <1>1, <1>2, PathTyped DEF Inv, SnapshotOK
  <1>4. CurrentTarget.kind = "spec-doc" /\ CurrentTarget = config[Current]
    BY <1>1, <1>3, CurrentTyped DEF MustRemove
  <1> QED
    BY <1>2, <1>4 DEF Reclaimed

\* Removing an output disturbs only the targets that write there.
LEMMA KeptApart ==
  ASSUME Inv, UNCHANGED world, NEW o \in Outs, NEW text,
         files' = [files EXCEPT ![o] = text],
         NEW n \in Configured(config), Kept(n),
         config[n].out = o => Shared(n) \/ Reclaimed(o) \/ config[n].out \notin CanonicalOuts
  PROVE  Kept(n)'
  <1>1. n \in Names /\ config[n].out \in Outs
    BY DEF Configured, Inv, TypeOK, Target
  <1>2. UpToDate(n) /\ config[n].out # o => UpToDate(n)'
    BY <1>1 DEF UpToDate, world, Inv, TypeOK
  <1> QED
    BY <1>1, <1>2, WorldKept DEF Kept, world

LEMMA OutNext == Inv /\ OutInv /\ [Next]_vars => OutInv'
  <1> SUFFICES ASSUME Inv, OutInv, [Next]_vars PROVE OutInv'
    OBVIOUS
  <1>1. CASE UNCHANGED vars
    BY <1>1 DEF vars, OutInv, Kept, OutputsCurrentUnlessReclaimed, Writing, Busy,
                Written, Here, Left, Current, UpToDate, Shared, Reclaimed, Configured
  <1>2. CASE outcome' \notin {"running", "synced"}
    BY <1>2 DEF OutInv, OutputsCurrentUnlessReclaimed
  <1>3. ASSUME NEW mode \in Modes, Begin(mode) PROVE OutInv'
    <2>1. Configured(config)' = Configured(config) /\ outcome' = "running"
          /\ ~Here' /\ Left' = Configured(config)
      BY <1>3, BeginRun DEF Configured, Here
    <2> QED
      BY <2>1 DEF OutInv, Written, OutputsCurrentUnlessReclaimed
  <1>4. CASE RunStep
    <2>0. Busy /\ outcome \in {"running", "disturbed"} /\ UNCHANGED world
          /\ run \in RunRecord
      BY <1>4, RunBusy, RunKeepsWorld, RunTyped DEF Inv, PhaseOK
    \* steps after which the same targets are written, in the same files
    <2>1. ASSUME Writing, UNCHANGED files, Written' = Written, outcome' = outcome
          PROVE  OutInv'
      <3>1. \A n \in Written : Kept(n)' = Kept(n)
        BY <2>0, <2>1, WorldKept DEF Kept, UpToDate, world, Written, Configured, Inv, TypeOK, Target
      <3>2. outcome' # "synced"
        BY <2>0, <2>1
      <3> QED
        BY <2>1, <3>1, <3>2 DEF OutInv, OutputsCurrentUnlessReclaimed
    <2>2. CASE RenderWrite
      <3>1. /\ Writing /\ outcome' = outcome /\ Written' = Written \cup {Current}
            /\ Current \in Configured(config) /\ Current \notin Written
            /\ Current' = Current
            /\ CurrentTarget.out \in Outs /\ CurrentTarget = config[Current]
            /\ CurrentText = Rendered(config[Current].kind, matched[Current])
            /\ files' = [files EXCEPT ![CurrentTarget.out] = CurrentText]
        BY <2>2, WritesCurrent, CurrentTyped DEF RenderWrite, Rendering, Continue, Busy
      <3>2. Kept(Current)'
        <4>1. UpToDate(Current)'
          BY <2>0, <3>1 DEF UpToDate, world, Inv, TypeOK
        <4> QED
          BY <4>1 DEF Kept
      <3>3. \A n \in Written : Kept(n) => Kept(n)'
        <4> SUFFICES ASSUME NEW n \in Written, Kept(n) PROVE Kept(n)'
          OBVIOUS
        <4>1. n \in Configured(config) /\ n # Current
          BY <3>1 DEF Written
        <4>2. config[n].out = CurrentTarget.out => Shared(n)
          BY <3>1, <4>1 DEF Shared
        <4> QED
          BY <2>0, <3>1, <4>1, <4>2, KeptApart
      <3> QED
        BY <2>0, <3>1, <3>2, <3>3 DEF OutInv, OutputsCurrentUnlessReclaimed
    <2>3. CASE KeepPrevious
      BY <2>0, <2>1, <2>3, LeavesPrevious DEF KeepPrevious, Continue
    <2>4. ASSUME NEW r \in run.previous, RemovePrevious(r) PROVE OutInv'
      <3>1. /\ Writing /\ outcome' = outcome /\ Written' = Written /\ Here
            /\ r \in PreviousOf(Current) /\ MustRemove(r)
            /\ files' = [files EXCEPT ![PathOf(r.out)] = Absent]
        BY <2>0, <2>4, LeavesPrevious DEF RemovePrevious, Continue, Removed
      <3>2. ASSUME NEW n \in Written, Kept(n) PROVE Kept(n)'
        <4>1. n \in Configured(config)
          BY DEF Written
        <4> QED
          BY <2>0, <3>1, <3>2, <4>1, MovedElsewhere, KeptApart, RemovedTyped
      <3> QED
        BY <2>0, <3>1, <3>2 DEF OutInv, OutputsCurrentUnlessReclaimed
    <2>5. CASE run.step = "record" /\ Continue(NextTarget) /\ UNCHANGED files
      BY <2>0, <2>1, <2>5, LeavesTarget DEF Continue
    <2>6. CASE Collect
      BY <2>0, <2>1, <2>6, StartsStale DEF Collect, Continue
    <2>7. ASSUME NEW r \in run.orphans, RemoveOrphan(r) PROVE OutInv'
      <3>1. /\ run.step = "stale" /\ Continue([run EXCEPT !.removed = {r}])
            /\ files' = [files EXCEPT ![PathOf(r.out)] = Absent]
            /\ r \in run.previous /\ r \in Stale
        BY <2>0, <2>7 DEF RemoveOrphan, Removed, Inv, SnapshotOK, Stale
      <3>2. /\ Writing /\ outcome' = outcome /\ Written' = Written
        BY <2>0, <3>1, AtStale, StaysStale DEF Continue, RunRecord
      <3>3. Reclaimed(PathOf(r.out))
        <4>1. r \in last /\ r.name \in Names /\ r.name \notin Configured(config)
          BY <2>0, <3>1, <3>2, RemovedTyped
             DEF Writing, Inv, SnapshotOK, Stale, Listing
        <4> QED
          BY <4>1 DEF Reclaimed, Configured
      <3>4. ASSUME NEW n \in Written, Kept(n) PROVE Kept(n)'
        <4>1. n \in Configured(config)
          BY DEF Written
        <4> QED
          BY <2>0, <3>1, <3>3, <3>4, <4>1, KeptApart, RemovedTyped
      <3> QED
        BY <2>0, <3>2, <3>4 DEF OutInv, OutputsCurrentUnlessReclaimed
    <2>8. ASSUME run.step = "stale", NEW r, NEW next, Continue(next),
                 \/ next = [run EXCEPT !.removed = {}, !.orphans = @ \ {r}]
                 \/ next = [run EXCEPT !.decoupled = @ \ {r}],
                 UNCHANGED files
          PROVE  OutInv'
      <3>1. next.step = "stale" /\ next.targets = run.targets /\ next.mode = run.mode
        BY <2>0, <2>8 DEF RunRecord
      <3> QED
        BY <2>0, <2>1, <2>8, <3>1, AtStale, StaysStale DEF Continue
    <2>9. CASE Finish
      <3>1. /\ Writing /\ Written = Configured(config) /\ UNCHANGED files /\ ~Busy'
            /\ outcome' = "synced" => outcome = "running"
        BY <2>0, <2>9, AtStale DEF Finish, End, NoRun, Busy
      <3>2. CASE outcome' = "synced"
        <4>1. \A n \in Configured(config) : Kept(n)
          BY <3>1, <3>2 DEF OutInv
        <4> QED
          BY <2>0, <3>1, <3>2, <4>1
             DEF OutInv, OutputsCurrentUnlessReclaimed, Kept, Shared, Reclaimed,
                 UpToDate, Configured, world, Writing
      <3>3. CASE outcome' # "synced"
        BY <3>1, <3>3 DEF OutInv, OutputsCurrentUnlessReclaimed, Writing
      <3> QED
        BY <3>2, <3>3
    <2>10. CASE ReportOnly \/ End("drift") \/ End("error")
      BY <2>0, <1>2, <2>10 DEF ReportOnly, End
    <2>11. CASE RenderDryRun \/ RenderMatches
      <3>1. run.mode # "write" /\ run'.mode = run.mode /\ outcome' = outcome
        BY <2>0, <2>11, AtNextTarget DEF RenderDryRun, RenderMatches, Rendering
      <3> QED
        BY <2>0, <3>1 DEF OutInv, OutputsCurrentUnlessReclaimed, Writing
    <2> QED
      BY <1>4, <2>2, <2>3, <2>4, <2>5, <2>6, <2>7, <2>8, <2>9, <2>10, <2>11,
         RunStepCases DEF UpsertRecord, Dropped
  <1>5. CASE User \/ Crash
    BY <1>2, <1>5 DEF User, EditConfig, EditRules, EditOutput, Edit, Crash
  <1> QED
    BY <1>1, <1>3, <1>4, <1>5 DEF Next

(***************************************************************************)
(* The records: filed under the slug of a target once it is written, and   *)
(* until then those the run listed at its start.                           *)
(***************************************************************************)
Done == Configured(config) \ Left

Entry(s) == [slug |-> s, name |-> records[s].name, out |-> records[s].out]

Filed(n) ==
  LET s == SlugOf[n]
  IN  /\ n \in Done => IF config[n].kind = "markdown"
                       THEN records[s] # Absent /\ PathOf(records[s].out) = config[n].out
                       ELSE records[s] = Absent
      /\ n \notin Done /\ records[s] # Absent => Entry(s) \in run.previous
      /\ config[n] = Absent /\ records[s] # Absent /\ run.step = "stale" =>
           Entry(s) \in run.orphans \cup run.decoupled

AllFiled ==
  \A n \in {m \in Names : Exclusive(m)} :
    LET r == records[SlugOf[n]]
    IN  IF config[n] # Absent /\ config[n].kind = "markdown"
        THEN r # Absent /\ PathOf(r.out) = config[n].out
        ELSE r = Absent

FiledInv ==
  /\ Writing => \A n \in Names : Exclusive(n) => Filed(n)
  /\ outcome = "synced" => AllFiled

\* Who has the slug of a target that no other name shares.
LEMMA OwnSlug ==
  ASSUME Inv, NEW n \in Names, Exclusive(n)
  PROVE  /\ records[SlugOf[n]] # Absent => records[SlugOf[n]].name = n
         /\ \A r \in last : r.slug = SlugOf[n] <=> r.name = n
  <1>1. SlugOf[n] \in Slugs
    BY NameAssumption
  <1>2. \A r \in last : r.name \in Names
    BY DEF Inv, TypeOK, Listing
  <1>3. records[SlugOf[n]] # Absent => records[SlugOf[n]].name \in Names
    BY <1>1 DEF Inv, TypeOK, Record
  <1> QED
    BY <1>1, <1>2, <1>3 DEF Exclusive, Inv, RecordsOK

\* A step that leaves the record of n, and what is left to do for it, alone.
LEMMA FiledApart ==
  ASSUME Inv, UNCHANGED world, NEW n \in Names, Exclusive(n), Filed(n),
         records'[SlugOf[n]] = records[SlugOf[n]], run'.previous = run.previous,
         n \in Done' <=> n \in Done,
         run'.step = "stale" /\ config[n] = Absent /\ records[SlugOf[n]] # Absent =>
           Entry(SlugOf[n]) \in run'.orphans \cup run'.decoupled
  PROVE  Filed(n)'
  BY DEF Filed, Entry, world

LEMMA FiledNext == Inv /\ FiledInv /\ [Next]_vars => FiledInv'
  <1> SUFFICES ASSUME Inv, FiledInv, [Next]_vars PROVE FiledInv'
    OBVIOUS
  <1>1. CASE UNCHANGED vars
    BY <1>1 DEF vars, FiledInv, Filed, AllFiled, Writing, Busy, Done, Left, Entry,
                Configured
  <1>2. CASE ~Writing' /\ outcome' # "synced"
    BY <1>2 DEF FiledInv
  <1>3. ASSUME NEW mode \in Modes, Begin(mode) PROVE FiledInv'
    <2>1. /\ Done' = {} /\ run'.step # "stale" /\ outcome' # "synced"
          /\ run'.previous = Listed /\ records' = records
      BY <1>3, BeginRun DEF Done, Configured
    <2>2. \A s \in Slugs : records[s] # Absent => Entry(s) \in Listed
      BY DEF Listed, Entry
    <2>3. \A n \in Names : SlugOf[n] \in Slugs
      BY NameAssumption
    <2> QED
      BY <2>1, <2>2, <2>3 DEF FiledInv, Filed, Entry
  <1>4. CASE RunStep
    <2>0. Busy /\ outcome \in {"running", "disturbed"} /\ UNCHANGED world
          /\ run \in RunRecord
      BY <1>4, RunBusy, RunKeepsWorld, RunTyped DEF Inv, PhaseOK
    <2>1. ASSUME Writing, outcome' = outcome, run'.previous = run.previous,
                 \A n \in Names : Exclusive(n) /\ Filed(n) => Filed(n)'
          PROVE  FiledInv'
      BY <2>0, <2>1 DEF FiledInv
    <2>2. ASSUME UNCHANGED records, Writing, outcome' = outcome, Left' = Left,
                 run'.step # "stale", run'.previous = run.previous
          PROVE  FiledInv'
      <3>1. Done' = Done
        BY <2>0, <2>2, WorldKept DEF Done
      <3> QED
        BY <2>0, <2>1, <2>2, <3>1, FiledApart
    <2>3. CASE RenderWrite \/ KeepPrevious \/ \E r \in run.previous : RemovePrevious(r)
      <3>1. CASE RenderWrite
        BY <2>0, <2>2, <3>1, WritesCurrent DEF RenderWrite, Continue, RunRecord
      <3>2. CASE ~RenderWrite
        BY <2>0, <2>2, <2>3, <3>2, LeavesPrevious
           DEF KeepPrevious, RemovePrevious, Continue, RunRecord
      <3> QED
        BY <3>1, <3>2
    \* the record of the current target: written, or dropped, or not there
    <2>4. ASSUME run.step = "record", Continue(NextTarget),
                 \A n \in Names : SlugOf[n] # SlugOf[Current] =>
                   records'[SlugOf[n]] = records[SlugOf[n]],
                 Exclusive(Current) =>
                   LET r == records'[SlugOf[Current]]
                   IN  IF CurrentTarget.kind = "markdown"
                       THEN r # Absent /\ PathOf(r.out) = CurrentTarget.out
                       ELSE r = Absent
          PROVE  FiledInv'
      <3>1. /\ Writing /\ run'.step = "render" /\ run'.previous = run.previous
            /\ Current \in Configured(config) /\ Current \in Left /\ Current \in Names
            /\ CurrentTarget = config[Current] /\ outcome' = outcome
            /\ Done' = Done \cup {Current}
        <4>1. Busy /\ run.targets # <<>>
          BY <2>0, <2>4 DEF Inv, TypeOK, RunOK
        <4> QED
          BY <2>0, <2>4, <4>1, LeavesTarget, CurrentTyped, AtNextTarget, WorldKept
             DEF Done
      <3>2. ASSUME NEW n \in Names, Exclusive(n), Filed(n) PROVE Filed(n)'
        <4>1. CASE n = Current
          BY <2>0, <2>4, <3>1, <3>2, <4>1 DEF Filed, world, Configured
        <4>2. CASE n # Current
          <5>1. SlugOf[n] # SlugOf[Current]
            BY <3>1, <3>2, <4>2 DEF Exclusive
          <5> QED
            BY <2>0, <2>4, <3>1, <3>2, <4>2, <5>1, FiledApart
        <4> QED
          BY <4>1, <4>2
      <3> QED
        BY <2>1, <3>1, <3>2
    <2>5. CASE UpsertRecord
      <3>1. Current \in Names /\ CurrentTarget.out \in Outs
        BY <2>0, <2>5, CurrentTyped DEF UpsertRecord, Inv, TypeOK, RunOK
      <3>2. /\ SlugOf[Current] \in Slugs
            /\ records' = [records EXCEPT ![SlugOf[Current]] =
                              [name |-> Current, out |-> Key(CurrentTarget.out)]]
            /\ PathOf(Key(CurrentTarget.out)) = CurrentTarget.out
        BY <2>5, <3>1, NameAssumption, KeyTyped DEF UpsertRecord
      <3>3. [name |-> Current, out |-> Key(CurrentTarget.out)] # Absent
        BY <3>1, KeyTyped, AbsentAssumption DEF Record
      <3> QED
        BY <2>4, <2>5, <3>2, <3>3 DEF UpsertRecord, Inv, TypeOK
    <2>6. CASE /\ run.step = "record" /\ CurrentTarget.kind = "spec-doc"
               /\ PreviousOf(Current) = {} /\ Continue(NextTarget)
               /\ UNCHANGED records
      <3>1. Writing /\ Current \in Left /\ Current \in Names
        BY <2>0, <2>6, LeavesTarget, CurrentTyped DEF Inv, TypeOK, RunOK
      <3>2. Exclusive(Current) => records[SlugOf[Current]] = Absent
        <4> SUFFICES ASSUME Exclusive(Current), records[SlugOf[Current]] # Absent
                     PROVE  FALSE
          OBVIOUS
        <4>1. Entry(SlugOf[Current]) \in run.previous
          BY <3>1 DEF FiledInv, Filed, Done
        <4>2. Entry(SlugOf[Current]).name = Current
          BY <3>1, OwnSlug DEF Entry
        <4> QED
          BY <2>6, <4>1, <4>2 DEF PreviousOf
      <3> QED
        BY <2>4, <2>6, <3>2
    <2>7. ASSUME run.step = "record", CurrentTarget.kind = "spec-doc",
                 NEW r \in PreviousOf(Current), Dropped(r, NextTarget)
          PROVE  FiledInv'
      <3>1. r.slug = SlugOf[Current]
        BY <2>0, <2>7 DEF PreviousOf, Inv, PhaseOK, SnapshotOK, RecordsOK
      <3>2. records \in [Slugs -> Record \cup {Absent}] /\ SlugOf[Current] \in Slugs
        BY <2>0, <2>7, CurrentTyped, NameAssumption DEF Inv, TypeOK, RunOK
      <3>3. /\ Continue(NextTarget)
            /\ records' = [records EXCEPT ![SlugOf[Current]] = Absent]
        BY <2>7, <3>1 DEF Dropped
      <3>4. \A n \in Names : SlugOf[n] # SlugOf[Current] =>
              records'[SlugOf[n]] = records[SlugOf[n]]
        BY <3>2, <3>3, NameAssumption
      <3> QED
        BY <2>4, <2>7, <3>2, <3>3, <3>4
    <2>8. CASE Collect
      <3>1. /\ Writing /\ Left' = Left /\ outcome' = outcome /\ Done' = Done
            /\ UNCHANGED records
        BY <2>0, <2>8, StartsStale, WorldKept DEF Collect, Continue, Done
      <3>2. /\ run'.previous = run.previous /\ run'.orphans = Orphans
            /\ run'.decoupled = Stale \ Orphans
        BY <2>0, <2>8 DEF Collect, Continue, RunRecord
      <3>3. ASSUME NEW n \in Names, Exclusive(n), Filed(n) PROVE Filed(n)'
        <4>1. ASSUME config[n] = Absent, records[SlugOf[n]] # Absent
              PROVE  Entry(SlugOf[n]) \in run'.orphans \cup run'.decoupled
          <5>1. Entry(SlugOf[n]) \in run.previous
            BY <3>3, <4>1 DEF Filed, Done, Configured
          <5>2. Entry(SlugOf[n]).name = n
            BY <3>3, <4>1, OwnSlug DEF Entry
          <5> QED
            BY <2>0, <3>2, <4>1, <5>1, <5>2 DEF Stale, Inv, SnapshotOK, Configured
        <4> QED
          BY <2>0, <3>1, <3>2, <3>3, <4>1, FiledApart
      <3> QED
        BY <2>1, <3>1, <3>2, <3>3
    <2>9. ASSUME NEW r \in run.orphans, RemoveOrphan(r) PROVE FiledInv'
      <3>1. /\ run.step = "stale" /\ Continue([run EXCEPT !.removed = {r}])
            /\ UNCHANGED records
        BY <2>9 DEF RemoveOrphan
      <3>2. /\ Writing /\ Left = {} /\ Left' = {} /\ outcome' = outcome
            /\ run'.previous = run.previous
            /\ run'.orphans = run.orphans /\ run'.decoupled = run.decoupled
        BY <2>0, <3>1, AtStale, StaysStale DEF Continue, RunRecord
      <3>3. Done' = Done
        BY <2>0, <3>2, WorldKept DEF Done
      <3> QED
        BY <2>0, <2>1, <3>1, <3>2, <3>3, FiledApart DEF Filed
    <2>10. ASSUME run.step = "stale", NEW r \in run.orphans \cup run.decoupled, NEW next,
                  Dropped(r, next), next.previous = run.previous,
                  next.step = "stale", next.targets = run.targets, next.mode = run.mode,
                  run.orphans \cup run.decoupled
                    \subseteq next.orphans \cup next.decoupled \cup {r}
           PROVE  FiledInv'
      <3>1. /\ Writing /\ Left = {} /\ Left' = {} /\ outcome' = outcome /\ run' = next
        BY <2>0, <2>10, AtStale, StaysStale DEF Dropped, Continue
      <3>2. Done' = Done /\ Done = Configured(config)
        BY <2>0, <3>1, WorldKept DEF Done
      <3>3. /\ r \in last /\ r.name \notin Configured(config) /\ r.slug = SlugOf[r.name]
        BY <2>0, <2>10, <3>1 DEF Writing, Inv, SnapshotOK, Stale, RecordsOK
      <3>4. ASSUME NEW n \in Names, Exclusive(n), Filed(n) PROVE Filed(n)'
        <4>1. CASE n = r.name
          BY <2>0, <2>10, <3>2, <3>3, <4>1, WorldKept, NameAssumption
             DEF Filed, Dropped, Inv, TypeOK
        <4>2. CASE n # r.name
          <5>1. SlugOf[n] # r.slug
            BY <3>3, <3>4, <4>2, OwnSlug
          <5>2. records'[SlugOf[n]] = records[SlugOf[n]] /\ Entry(SlugOf[n]) # r
            BY <2>10, <5>1, NameAssumption DEF Dropped, Inv, TypeOK, Entry
          <5> QED
            BY <2>0, <2>10, <3>1, <3>2, <3>4, <5>2, FiledApart DEF Filed
        <4> QED
          BY <4>1, <4>2
      <3> QED
        BY <2>1, <2>10, <3>1, <3>4
    <2>11. CASE Finish
      <3>1. /\ Writing /\ Left = {} /\ UNCHANGED records /\ ~Writing'
            /\ run.orphans = {} /\ run.decoupled = {} /\ run.step = "stale"
        BY <2>0, <2>11, AtStale DEF Finish, End, NoRun, Busy, Writing
      <3>2. AllFiled
        <4> SUFFICES ASSUME NEW n \in Names, Exclusive(n)
                     PROVE  LET r == records[SlugOf[n]]
                            IN  IF config[n] # Absent /\ config[n].kind = "markdown"
                                THEN r # Absent /\ PathOf(r.out) = config[n].out
                                ELSE r = Absent
          BY DEF AllFiled
        <4> QED
          BY <3>1 DEF FiledInv, Filed, Done, Configured
      <3> QED
        BY <2>0, <3>1, <3>2 DEF FiledInv, AllFiled, world
    <2>12. CASE ReportOnly \/ End("drift") \/ End("error")
      BY <2>0, <1>2, <2>12 DEF ReportOnly, End, NoRun, Writing, Busy
    <2>13. CASE RenderDryRun \/ RenderMatches
      <3>1. run.mode # "write" /\ run'.mode = run.mode /\ outcome' = outcome
        BY <2>0, <2>13, AtNextTarget DEF RenderDryRun, RenderMatches, Rendering
      <3> QED
        BY <2>0, <1>2, <3>1 DEF Writing
    <2>14. ASSUME run.step = "stale", NEW r \in run.removed,
                  Dropped(r, [run EXCEPT !.removed = {}, !.orphans = @ \ {r}])
           PROVE  FiledInv'
      <3>1. r \in run.orphans
        BY <2>14 DEF Inv, TypeOK, RunOK
      <3> QED
        BY <2>0, <2>10, <2>14, <3>1 DEF RunRecord
    <2>15. ASSUME run.step = "stale", NEW r \in run.decoupled,
                  Dropped(r, [run EXCEPT !.decoupled = @ \ {r}])
           PROVE  FiledInv'
      BY <2>0, <2>10, <2>15 DEF RunRecord
    <2> QED
      BY <1>4, <2>3, <2>5, <2>6, <2>7, <2>8, <2>9, <2>11, <2>12, <2>13, <2>14,
         <2>15, RunStepCases
  <1>5. CASE User \/ Crash
    <2>1. CASE Busy /\ ~Crash
      <3>1. /\ UNCHANGED <<config, matched, records, run, last>>
            /\ outcome' = "disturbed" /\ disrupted' = disrupted
        BY <1>5, <2>1, EditsInRun
      <3> QED
        BY <3>1 DEF FiledInv, Filed, Writing, Busy, Done, Left, Entry, Configured
    <2>2. CASE ~Busy /\ User
      BY <1>2, <2>2, EditsIdle DEF Writing
    <2>3. CASE Crash
      BY <1>2, <2>3 DEF Crash, Writing, Busy, NoRun
    <2> QED
      BY <1>5, <2>1, <2>2, <2>3
  <1> QED
    BY <1>1, <1>3, <1>4, <1>5 DEF Next

(***************************************************************************)
(* What earlier runs recorded: nothing of it is left with the generated    *)
(* marker, unless a target writes there, once the run is past it.          *)
(***************************************************************************)
Claimed(o) == \E n \in Configured(config) : config[n].out = o

Clean(r) == Claimed(PathOf(r.out)) \/ ~HasMarker(files[PathOf(r.out)])

ToClean(r) ==
  \/ r.name \in Left /\ ~(run.step = "record" /\ r.name = Current)
  \/ r.name \notin Configured(config) /\ run.step # "stale"
  \/ r \in run.orphans \ run.removed

CleanInv ==
  /\ Writing /\ outcome = "running" => \A r \in last : Clean(r) \/ ToClean(r)
  /\ outcome = "synced" => \A r \in last : Clean(r)

LEMMA NoMarker == ~HasMarker(Absent)
  BY ContentAssumption DEF HasMarker

\* A text without the marker, or at an output some target writes, leaves a
\* clean record clean.
LEMMA CleanApart ==
  ASSUME Inv, UNCHANGED world, NEW o \in Outs, NEW text,
         files' = [files EXCEPT ![o] = text], ~HasMarker(text) \/ Claimed(o),
         NEW r \in Listing, Clean(r)
  PROVE  Clean(r)'
  <1>1. PathOf(r.out) \in Outs
    BY PathTyped DEF Listing
  <1>2. PathOf(r.out) = o => files'[PathOf(r.out)] = text
    BY <1>1 DEF Inv, TypeOK
  <1>3. PathOf(r.out) # o => files'[PathOf(r.out)] = files[PathOf(r.out)]
    BY <1>1 DEF Inv, TypeOK
  <1>4. \A k \in Outs : Claimed(k)' <=> Claimed(k)
    BY DEF Claimed, Configured, world
  <1> QED
    BY <1>1, <1>2, <1>3, <1>4 DEF Clean, HasMarker

LEMMA MovedIsClean ==
  ASSUME Inv, Here, NEW r \in PreviousOf(Current), ~MustRemove(r)
  PROVE  Clean(r)
  <1>1. Busy /\ run.mode = "write" /\ run.targets # <<>> /\ run \in RunRecord
    BY DEF Here, Busy, Inv, PhaseOK, TypeOK, RunOK
  <1>2. CASE r.out = Key(CurrentTarget.out)
    BY <1>1, <1>2, CurrentTyped, KeyTyped DEF Clean, Claimed
  <1>3. CASE r.out \in run.outputs
    BY <1>1, <1>3 DEF Clean, Claimed, Inv, SnapshotOK
  <1> QED
    BY <1>2, <1>3 DEF MustRemove

LEMMA CleanNext == Inv /\ CleanInv /\ [Next]_vars => CleanInv'
  <1> SUFFICES ASSUME Inv, CleanInv, [Next]_vars PROVE CleanInv'
    OBVIOUS
  <1>0. last \subseteq Listing
    BY DEF Inv, TypeOK
  <1>1. CASE UNCHANGED vars
    BY <1>1 DEF vars, CleanInv, Clean, ToClean, Claimed, Writing, Busy, Left, Current,
                Configured
  <1>2. CASE outcome' \notin {"running", "synced"} /\ run'.removed \subseteq run.removed
    BY <1>2 DEF CleanInv
  <1>3. ASSUME NEW mode \in Modes, Begin(mode) PROVE CleanInv'
    <2>1. /\ Left' = Configured(config) /\ run'.step = "render" /\ run'.mode = mode
          /\ config' = config /\ outcome' = "running" /\ run'.removed = {}
      BY <1>3, BeginRun
    <2> QED
      BY <2>1 DEF CleanInv, ToClean, Configured
  <1>4. CASE RunStep
    <2>0. Busy /\ outcome \in {"running", "disturbed"} /\ UNCHANGED world
          /\ run \in RunRecord /\ last' = last
          /\ Configured(config)' = Configured(config)
          /\ \A o \in Outs : Claimed(o)' <=> Claimed(o)
      BY <1>4, RunBusy, RunKeepsWorld, RunTyped
         DEF Inv, PhaseOK, world, Claimed, Configured
    <2>1. ASSUME Writing, outcome' = outcome,
                 \A r \in last : Clean(r) \/ ToClean(r) => Clean(r)' \/ ToClean(r)',
                 run'.removed \subseteq run.removed
          PROVE  CleanInv'
      BY <2>0, <2>1 DEF CleanInv
    <2>2. ASSUME UNCHANGED files PROVE \A r \in last : Clean(r) => Clean(r)'
      BY <2>0, <1>0, <2>2, PathTyped DEF Clean, Listing
    <2>3. CASE RenderWrite
      <3>1. /\ Writing /\ outcome' = outcome /\ Left' = Left /\ run'.step = "previous"
            /\ CurrentTarget.out \in Outs /\ Claimed(CurrentTarget.out)
            /\ files' = [files EXCEPT ![CurrentTarget.out] = CurrentText]
            /\ run.step = "render"
        BY <2>3, WritesCurrent, CurrentTyped
           DEF RenderWrite, Rendering, Continue, Busy, Claimed
      <3>2. run'.orphans = run.orphans /\ run'.removed = run.removed
        BY <2>0, <2>3 DEF RenderWrite, Continue, RunRecord
      <3>3. \A r \in last : ToClean(r) => ToClean(r)'
        BY <2>0, <3>1, <3>2 DEF ToClean
      <3>4. \A r \in last : Clean(r) => Clean(r)'
        BY <2>0, <1>0, <3>1, CleanApart
      <3> QED
        BY <2>1, <3>1, <3>2, <3>3, <3>4
    <2>4. CASE KeepPrevious
      <3>1. /\ Writing /\ outcome' = outcome /\ Left' = Left /\ Here
            /\ run'.step = "record" /\ run.step = "previous" /\ Current' = Current
            /\ \A r \in PreviousOf(Current) : ~MustRemove(r)
        BY <2>0, <2>4, LeavesPrevious DEF KeepPrevious, Continue
      <3>2. run'.orphans = run.orphans /\ run'.removed = run.removed
        BY <2>0, <2>4 DEF KeepPrevious, Continue, RunRecord
      <3>3. \A r \in last : ToClean(r) /\ r.name # Current => ToClean(r)'
        BY <2>0, <3>1, <3>2 DEF ToClean
      <3>4. \A r \in last : r.name = Current => Clean(r)
        BY <2>0, <3>1, MovedIsClean DEF PreviousOf, Inv, SnapshotOK, Writing
      <3> QED
        BY <2>1, <2>2, <2>4, <3>1, <3>2, <3>3, <3>4 DEF KeepPrevious
    <2>5. ASSUME NEW r0 \in run.previous, RemovePrevious(r0) PROVE CleanInv'
      <3>1. /\ Writing /\ outcome' = outcome /\ Left' = Left /\ Here
            /\ run'.step = "record" /\ run.step = "previous" /\ Current' = Current
            /\ r0 \in PreviousOf(Current)
            /\ files' = [files EXCEPT ![PathOf(r0.out)] = Absent]
            /\ PathOf(r0.out) \in Outs
        BY <2>0, <2>5, LeavesPrevious, RemovedTyped
           DEF RemovePrevious, Continue, Removed
      <3>2. run'.orphans = run.orphans /\ run'.removed = run.removed
        BY <2>0, <2>5 DEF RemovePrevious, Continue, RunRecord
      <3>3. \A r \in last : ToClean(r) /\ r.name # Current => ToClean(r)'
        BY <2>0, <3>1, <3>2 DEF ToClean
      <3>4. \A r \in last : r.name = Current => Clean(r)'
        <4>1. r0 \in last /\ r0.name = Current
          BY <2>0, <3>1 DEF PreviousOf, Inv, SnapshotOK, Writing
        <4>2. \A r \in last : r.name = Current => r = r0
          BY <4>1 DEF Inv, RecordsOK
        <4>3. files'[PathOf(r0.out)] = Absent
          BY <3>1 DEF Inv, TypeOK
        <4>4. Clean(r0)'
          BY <4>3, NoMarker DEF Clean, HasMarker
        <4> QED
          BY <4>2, <4>4
      <3>5. \A r \in last : Clean(r) => Clean(r)'
        BY <2>0, <1>0, <3>1, CleanApart, NoMarker
      <3> QED
        BY <2>1, <3>1, <3>2, <3>3, <3>4, <3>5
    <2>6. CASE run.step = "record" /\ Continue(NextTarget) /\ UNCHANGED files
      <3>1. /\ Writing /\ outcome' = outcome /\ Left' = Left \ {Current}
            /\ run'.step = "render"
            /\ run'.orphans = run.orphans /\ run'.removed = run.removed
        BY <2>0, <2>6, LeavesTarget DEF Continue, NextTarget, RunRecord
      <3>2. \A r \in last : ToClean(r) => ToClean(r)'
        BY <2>0, <2>6, <3>1 DEF ToClean
      <3> QED
        BY <2>1, <2>2, <2>6, <3>1, <3>2
    <2>7. CASE Collect
      <3>1. /\ Writing /\ outcome' = outcome /\ Left = {} /\ run'.step = "stale"
            /\ run'.orphans = Orphans /\ run'.removed = run.removed /\ UNCHANGED files
            /\ run.orphans = {} /\ run.removed = {}
        BY <2>0, <2>7, StartsStale
           DEF Collect, AllRendered, Continue, RunRecord, Inv, PhaseOK, TypeOK, RunOK
      <3>2. \A r \in last : ToClean(r) => Clean(r) \/ r \in Orphans
        BY <2>0, <3>1
           DEF ToClean, Clean, Orphans, Stale, Inv, SnapshotOK, Writing
      <3> QED
        BY <2>0, <2>1, <2>2, <3>1, <3>2 DEF ToClean
    <2>8. ASSUME NEW r0 \in run.orphans, RemoveOrphan(r0) PROVE CleanInv'
      <3>1. /\ run.step = "stale" /\ Continue([run EXCEPT !.removed = {r0}])
            /\ files' = [files EXCEPT ![PathOf(r0.out)] = Absent]
            /\ r0 \in run.previous /\ PathOf(r0.out) \in Outs
        BY <2>0, <2>8, RemovedTyped
           DEF RemoveOrphan, Removed, Inv, TypeOK, RunOK
      <3>2. /\ Writing /\ outcome' = outcome /\ Left = {}
            /\ run'.orphans = run.orphans /\ run'.removed = {r0}
        BY <2>0, <3>1, AtStale DEF Continue, RunRecord
      <3>3. Clean(r0)'
        <4>1. files'[PathOf(r0.out)] = Absent
          BY <3>1 DEF Inv, TypeOK
        <4> QED
          BY <4>1, NoMarker DEF Clean, HasMarker
      <3>4. \A r \in last : Clean(r) => Clean(r)'
        BY <2>0, <1>0, <3>1, CleanApart, NoMarker
      <3>5. \A r \in last : ToClean(r) /\ r # r0 => ToClean(r)'
        BY <2>0, <3>1, <3>2 DEF ToClean
      <3> QED
        BY <2>0, <3>2, <3>3, <3>4, <3>5 DEF CleanInv
    <2>9. ASSUME run.step = "stale", UNCHANGED files, NEW next, Continue(next),
                 next.step = "stale", next.removed \subseteq run.removed,
                 run.orphans \ run.removed \subseteq next.orphans \ next.removed
          PROVE  CleanInv'
      <3>1. /\ Writing /\ outcome' = outcome /\ Left = {} /\ run' = next
        BY <2>0, <2>9, AtStale DEF Continue
      <3>2. \A r \in last : ToClean(r) => ToClean(r)'
        BY <2>9, <3>1 DEF ToClean
      <3> QED
        BY <2>1, <2>2, <2>9, <3>1, <3>2
    <2>10. ASSUME run.step = "stale", NEW r0 \in run.removed,
                  Dropped(r0, [run EXCEPT !.removed = {}, !.orphans = @ \ {r0}])
           PROVE  CleanInv'
      <3> DEFINE next == [run EXCEPT !.removed = {}, !.orphans = @ \ {r0}]
      <3>1. /\ next.step = "stale" /\ next.removed = {} /\ next.orphans = run.orphans \ {r0}
        BY <2>0, <2>10 DEF RunRecord
      <3>2. run.orphans \ run.removed \subseteq next.orphans \ next.removed
        BY <3>1
      <3>3. Continue(next) /\ UNCHANGED files
        BY <2>10 DEF Dropped
      <3> HIDE DEF next
      <3> QED
        BY <2>9, <2>10, <3>1, <3>2, <3>3
    <2>11. ASSUME run.step = "stale", NEW r0 \in run.decoupled,
                  Dropped(r0, [run EXCEPT !.decoupled = @ \ {r0}])
           PROVE  CleanInv'
      <3> DEFINE next == [run EXCEPT !.decoupled = @ \ {r0}]
      <3>1. /\ next.step = "stale" /\ next.removed = run.removed
            /\ next.orphans = run.orphans
        BY <2>0, <2>11 DEF RunRecord
      <3>2. Continue(next) /\ UNCHANGED files
        BY <2>11 DEF Dropped
      <3> HIDE DEF next
      <3> QED
        BY <2>9, <2>11, <3>1, <3>2
    <2>12. CASE Finish
      <3>1. /\ Writing /\ Left = {} /\ UNCHANGED files /\ ~Writing' /\ run'.removed = {}
            /\ run.orphans = {} /\ run.step = "stale"
            /\ outcome' = "synced" => outcome = "running"
        BY <2>0, <2>12, AtStale DEF Finish, End, NoRun, Busy, Writing
      <3>2. CASE outcome' = "synced"
        <4>1. \A r \in last : Clean(r)
          BY <3>1, <3>2 DEF CleanInv, ToClean
        <4> QED
          BY <2>0, <2>2, <3>1, <4>1 DEF CleanInv
      <3>3. CASE outcome' # "synced"
        BY <3>1, <3>3 DEF CleanInv
      <3> QED
        BY <3>2, <3>3
    <2>13. CASE ReportOnly \/ End("drift") \/ End("error")
      BY <2>0, <1>2, <2>13 DEF ReportOnly, End, NoRun
    <2>14. CASE RenderDryRun \/ RenderMatches
      <3>1. /\ run.mode # "write" /\ run'.mode = run.mode /\ outcome' = outcome
            /\ run'.removed = run.removed
        BY <2>0, <2>14, AtNextTarget
           DEF RenderDryRun, RenderMatches, Rendering, Continue, NextTarget, RunRecord
      <3> QED
        BY <2>0, <3>1 DEF CleanInv, Writing
    <2> QED
      BY <1>4, <2>3, <2>4, <2>5, <2>6, <2>7, <2>8, <2>10, <2>11, <2>12, <2>13, <2>14,
         RunStepCases DEF UpsertRecord, Dropped
  <1>5. CASE User
    <2>1. CASE Busy
      BY <1>2, <1>5, <2>1, EditsInRun
    <2>2. CASE ~Busy
      BY <1>2, <1>5, <2>2, EditsIdle
    <2> QED
      BY <2>1, <2>2
  <1>6. CASE Crash
    BY <1>2, <1>6 DEF Crash, NoRun
  <1> QED
    BY <1>1, <1>3, <1>4, <1>5, <1>6 DEF Next

(***************************************************************************)
(* Every generated file is the recorded output of a target, or will be     *)
(* when the run in progress has recorded the targets it still has to do.   *)
(***************************************************************************)
AllExclusive == \A n \in Names : Exclusive(n)

Tracked(o) == \E s \in Slugs : records[s] # Absent /\ PathOf(records[s].out) = o

\* A target that is left, and is not the spec document just written, goes there.
Pending(o) ==
  \E n \in Left : /\ config[n].out = o
                  /\ Here /\ n = Current => config[n].kind = "markdown"

Marked(o) == HasMarker(files[o])

\* A generated file where the run has written is that of a markdown target.
WrittenMarked ==
  \A n \in Written : Marked(config[n].out) =>
    \E m \in Written : config[m].out = config[n].out /\ config[m].kind = "markdown"

\* The recorded output of the current target is dealt with before the record is.
PreviousDone ==
  /\ Here /\ CurrentTarget.kind = "spec-doc" => ~Marked(CurrentTarget.out)
  /\ run.step = "record" => \A r \in PreviousOf(Current) :
       \/ ~Marked(PathOf(r.out))
       \/ PathOf(r.out) = CurrentTarget.out
       \/ CurrentTarget.kind = "markdown" /\ Claimed(PathOf(r.out))

StaleUnmarked == \A r \in run.decoupled \cup run.removed : ~Marked(PathOf(r.out))

TrackInv ==
  ~disrupted /\ AllExclusive =>
    /\ \A o \in Outs : Marked(o) => Tracked(o) \/ (Writing /\ Pending(o))
    /\ Writing => WrittenMarked /\ PreviousDone /\ StaleUnmarked

\* No generated file appears but where a run writes.
LEMMA MarksShrink ==
  ASSUME Inv,
         \/ UNCHANGED files
         \/ \E k \in Keys : files' = Removed(k)
         \/ \E o \in Outs, text \in HandValues : EditOutput(o, text)
  PROVE  \A o \in Outs : Marked(o)' => Marked(o)
  <1>1. ASSUME NEW o1 \in Outs, NEW text, files' = [files EXCEPT ![o1] = text],
               HasMarker(text) => Marked(o1)
        PROVE  \A o \in Outs : Marked(o)' => Marked(o)
    <2>1. \A o \in Outs : files'[o] = IF o = o1 THEN text ELSE files[o]
      BY <1>1 DEF Inv, TypeOK
    <2> QED
      BY <1>1, <2>1 DEF Marked, HasMarker
  <1>2. CASE UNCHANGED files
    BY <1>2 DEF Marked, HasMarker
  <1>3. ASSUME NEW k \in Keys, files' = Removed(k)
        PROVE  \A o \in Outs : Marked(o)' => Marked(o)
    BY <1>1, <1>3, PathTyped, NoMarker DEF Removed
  <1>4. ASSUME NEW o1 \in Outs, NEW text \in HandValues, EditOutput(o1, text)
        PROVE  \A o \in Outs : Marked(o)' => Marked(o)
    <2>1. HasMarker(text) => text = Edited
      BY ContentAssumption DEF HasMarker
    <2> QED
      BY <1>1, <1>4, <2>1 DEF EditOutput, Marked
  <1> QED
    BY <1>2, <1>3, <1>4

\* The record of a name the run has not come to is the one it listed.
LEMMA ListedRecord ==
  ASSUME Inv, FiledInv, AllExclusive, Writing, NEW n \in Names, n \notin Done,
         NEW s \in Slugs, s = SlugOf[n], records[s] # Absent
  PROVE  \E r \in run.previous : /\ r.name = n /\ r.slug = s
                                /\ r.out = records[s].out
  <1>1. Filed(n) /\ Exclusive(n)
    BY DEF FiledInv, AllExclusive
  <1>2. Entry(s) \in run.previous
    BY <1>1 DEF Filed
  <1>3. Entry(s).name = n
    BY <1>1, OwnSlug DEF Entry
  <1> QED
    BY <1>2, <1>3 DEF Entry

\* Records other than that of slug s stay: what they track stays tracked.
LEMMA TrackedApart ==
  ASSUME Inv, NEW s \in Slugs, NEW rec, records' = [records EXCEPT ![s] = rec],
         NEW o, Tracked(o), records[s] # Absent => PathOf(records[s].out) # o
  PROVE  Tracked(o)'
  <1>1. PICK t \in Slugs : records[t] # Absent /\ PathOf(records[t].out) = o
    BY DEF Tracked
  <1>2. records'[t] = records[t]
    BY <1>1 DEF Inv, TypeOK
  <1> QED
    BY <1>1, <1>2 DEF Tracked

LEMMA TrackNext == Inv /\ FiledInv /\ TrackInv /\ [Next]_vars => TrackInv'
  <1> SUFFICES ASSUME Inv, FiledInv, TrackInv, [Next]_vars, ~disrupted', AllExclusive
               PROVE  /\ \A o \in Outs : Marked(o)' => Tracked(o)' \/ (Writing' /\ Pending(o)')
                      /\ Writing' => WrittenMarked' /\ PreviousDone' /\ StaleUnmarked'
    BY DEF TrackInv, AllExclusive, Exclusive
  <1> DEFINE Goal == /\ \A o \in Outs : Marked(o)' => Tracked(o)' \/ (Writing' /\ Pending(o)')
                     /\ Writing' => WrittenMarked' /\ PreviousDone' /\ StaleUnmarked'
  <1>1. CASE UNCHANGED vars
    <2>1. ~disrupted
      BY <1>1 DEF vars
    <2> QED
      BY <1>1, <2>1
         DEF vars, TrackInv, WrittenMarked, PreviousDone, StaleUnmarked, Marked, HasMarker,
             Tracked, Pending, Writing, Busy, Written, Here, Left, Current, CurrentTarget,
             PreviousOf, Claimed, Configured
  <1>2. ASSUME NEW mode \in Modes, Begin(mode) PROVE Goal
    <2>1. /\ ~disrupted /\ ~Busy /\ files' = files /\ records' = records
          /\ ~Here' /\ Left' = Configured(config) /\ Configured(config)' = Configured(config)
          /\ run'.decoupled = {} /\ run'.removed = {}
          /\ run'.step = "render"
      BY <1>2, BeginRun DEF Begin, Here, Configured
    <2>2. \A o \in Outs : Marked(o)' => Tracked(o)'
      BY <2>1 DEF TrackInv, Writing, Marked, HasMarker, Tracked
    <2>3. WrittenMarked' /\ PreviousDone' /\ StaleUnmarked'
      BY <2>1 DEF WrittenMarked, Written, PreviousDone, StaleUnmarked
    <2> QED
      BY <2>2, <2>3
  <1>3. CASE RunStep
    <2>0. /\ Busy /\ UNCHANGED world /\ run \in RunRecord /\ ~disrupted
          /\ Configured(config)' = Configured(config) /\ config' = config
          /\ \A n \in Names : SlugOf[n] \in Slugs
          /\ records \in [Slugs -> Record \cup {Absent}]
      BY <1>3, RunBusy, RunKeepsWorld, RunTyped, EndsOrGoesOn, NameAssumption
         DEF world, End, ReportOnly, Finish, Inv, TypeOK
    <2>01. \A n \in Configured(config) : n \in Names /\ config[n].out \in Outs
      BY DEF Configured, Inv, TypeOK, Target
    \* a writing run goes on and writes no file
    <2>1. ASSUME Writing, Written' = Written, \A o \in Outs : Marked(o)' => Marked(o)
          PROVE  WrittenMarked'
      BY <2>0, <2>01, <2>1 DEF WrittenMarked, TrackInv, Written
    <2>2. CASE RenderWrite
      <3>1. /\ Writing /\ Writing' /\ ~Here /\ Here' /\ Current' = Current
            /\ Current \in Configured(config) /\ run'.step = "previous"
            /\ run.step = "render" /\ Left' = Left
            /\ Written' = Written \cup {Current} /\ Current \notin Written
            /\ UNCHANGED records
        BY <2>2, WritesCurrent DEF RenderWrite, Rendering
      <3>2. /\ CurrentTarget = config[Current] /\ CurrentTarget.out \in Outs
            /\ CurrentTarget.kind \in Kind /\ Current \in Left
            /\ CurrentText = Rendered(CurrentTarget.kind, matched[Current])
            /\ files' = [files EXCEPT ![CurrentTarget.out] = CurrentText]
        BY <2>0, <2>2, CurrentTyped DEF RenderWrite, Rendering
      <3>3. CurrentTarget' = CurrentTarget
        BY <2>0, <2>2, <3>1 DEF RenderWrite, Continue, CurrentTarget, RunRecord
      <3>4. Marked(CurrentTarget.out)' => CurrentTarget.kind = "markdown"
        <4> SUFFICES ASSUME CurrentTarget.kind = "spec-doc"
                     PROVE  ~HasMarker(CurrentText)
          BY <3>2, <3>3 DEF Marked, Kind, HasMarker, Inv, TypeOK
        <4>1. matched[Current] \in Contents
          BY <2>01, <3>1 DEF Inv, PhaseOK, TypeOK
        <4> QED
          BY <3>2, <4>1, ContentAssumption DEF Rendered, HasMarker, SpecDocs
      <3>5. \A o \in Outs : o # CurrentTarget.out => (Marked(o)' <=> Marked(o))
        BY <3>2 DEF Marked, HasMarker, Inv, TypeOK
      <3>6. \A o \in Outs : Tracked(o) => Tracked(o)'
        BY <3>1 DEF Tracked
      <3>7. ASSUME NEW o \in Outs, Marked(o)' PROVE Tracked(o)' \/ Pending(o)'
        <4>1. CASE o = CurrentTarget.out
          BY <2>0, <3>1, <3>2, <3>3, <3>4, <3>7, <4>1 DEF Pending
        <4>2. CASE o # CurrentTarget.out
          <5>1. Tracked(o) \/ Pending(o)
            BY <2>0, <3>5, <3>7, <4>2 DEF TrackInv
          <5>2. Pending(o) => Pending(o)'
            BY <2>0, <3>1, <3>2, <4>2 DEF Pending
          <5> QED
            BY <3>6, <5>1, <5>2
        <4> QED
          BY <4>1, <4>2
      <3>8. WrittenMarked'
        <4> SUFFICES ASSUME NEW n \in Written', Marked(config[n].out)'
                     PROVE  \E m \in Written' : /\ config[m].out = config[n].out
                                               /\ config[m].kind = "markdown"
          BY <2>0 DEF WrittenMarked
        <4>1. CASE config[n].out = CurrentTarget.out
          BY <2>0, <3>1, <3>2, <3>3, <3>4, <4>1
        <4>2. CASE config[n].out # CurrentTarget.out
          <5>1. n \in Written /\ config[n].out \in Outs
            BY <2>01, <3>1, <3>2, <4>2 DEF Written
          <5>2. Marked(config[n].out)
            BY <2>0, <3>5, <4>2, <5>1
          <5> QED
            BY <2>0, <3>1, <5>1, <5>2 DEF TrackInv, WrittenMarked
        <4> QED
          BY <4>1, <4>2
      <3>9. PreviousDone'
        BY <3>1, <3>3, <3>4 DEF PreviousDone
      <3>10. StaleUnmarked'
        BY <2>0, <2>2, <3>1
           DEF RenderWrite, Continue, RunRecord, StaleUnmarked, Inv, PhaseOK, TypeOK, RunOK
      <3> QED
        BY <3>1, <3>7, <3>8, <3>9, <3>10
    <2>3. ASSUME KeepPrevious \/ \E r \in run.previous : RemovePrevious(r)
          PROVE  Goal
      <3>1. /\ Writing /\ Writing' /\ Here /\ Here' /\ Current' = Current
            /\ Current \in Configured(config) /\ run'.step = "record"
            /\ Left' = Left /\ Written' = Written /\ UNCHANGED records
            /\ run.step = "previous" /\ run.targets # <<>>
        BY <2>0, <2>3, LeavesPrevious
           DEF KeepPrevious, RemovePrevious, Inv, TypeOK, RunOK
      <3>2. /\ run'.previous = run.previous /\ run'.decoupled = {} /\ run'.removed = {}
            /\ CurrentTarget' = CurrentTarget /\ CurrentTarget.kind \in Kind
            /\ CurrentTarget.out \in Outs
        BY <2>0, <2>3, <3>1, CurrentTyped
           DEF KeepPrevious, RemovePrevious, Continue, RunRecord, CurrentTarget, Inv,
               PhaseOK, TypeOK, RunOK
      <3>3. \A o \in Outs : Marked(o)' => Marked(o)
        BY <2>0, <2>3, MarksShrink
           DEF KeepPrevious, RemovePrevious, RunRecord, Listing
      <3>4. ASSUME NEW o \in Outs, Marked(o)' PROVE Tracked(o)' \/ Pending(o)'
        BY <2>0, <3>1, <3>3, <3>4 DEF TrackInv, Tracked, Pending
      <3>5. ~(CurrentTarget.kind = "spec-doc" /\ Marked(CurrentTarget.out)')
        BY <2>0, <3>1, <3>2, <3>3 DEF TrackInv, PreviousDone
      <3>6. ASSUME NEW r \in PreviousOf(Current)
            PROVE  \/ ~Marked(PathOf(r.out))'
                   \/ PathOf(r.out) = CurrentTarget.out
                   \/ CurrentTarget.kind = "markdown" /\ Claimed(PathOf(r.out))
        <4>0. r \in run.previous /\ PathOf(r.out) \in Outs
          BY RemovedTyped DEF PreviousOf
        <4>1. CASE ~MustRemove(r)
          <5>1. CASE r.out = Key(CurrentTarget.out)
            BY <3>2, <5>1, KeyTyped
          <5>2. CASE r.out # Key(CurrentTarget.out)
            <6>1. CurrentTarget.kind = "markdown"
              BY <3>2, <4>1, <5>2 DEF MustRemove, Kind
            <6>2. Claimed(PathOf(r.out)) \/ ~Marked(PathOf(r.out))
              BY <3>1, <4>1, MovedIsClean DEF Clean, Marked
            <6> QED
              BY <3>3, <4>0, <6>1, <6>2
          <5> QED
            BY <5>1, <5>2
        <4>2. CASE MustRemove(r)
          <5>1. PICK r0 \in run.previous : RemovePrevious(r0)
            BY <2>3, <4>2 DEF KeepPrevious
          <5>2. r0 = r
            <6>1. r0 \in last /\ r \in last /\ r0.name = Current /\ r.name = Current
              BY <3>1, <4>0, <5>1
                 DEF RemovePrevious, PreviousOf, Inv, SnapshotOK, Writing
            <6> QED
              BY <6>1 DEF Inv, RecordsOK
          <5>3. files'[PathOf(r.out)] = Absent
            BY <4>0, <5>1, <5>2 DEF RemovePrevious, Removed, Inv, TypeOK
          <5> QED
            BY <5>3, NoMarker DEF Marked, HasMarker
        <4> QED
          BY <4>1, <4>2
      <3>7. PreviousDone'
        <4>1. PreviousOf(Current)' = PreviousOf(Current)
          BY <3>1, <3>2 DEF PreviousOf
        <4>2. \A o \in Outs : Claimed(o)' <=> Claimed(o)
          BY <2>0 DEF Claimed
        <4>3. \A r \in PreviousOf(Current) : PathOf(r.out) \in Outs
          BY RemovedTyped DEF PreviousOf
        <4> QED
          BY <3>2, <3>5, <3>6, <4>1, <4>2, <4>3 DEF PreviousDone
      <3>8. StaleUnmarked'
        BY <3>2 DEF StaleUnmarked
      <3> QED
        BY <2>1, <3>1, <3>3, <3>4, <3>7, <3>8
    \* the record of a target the run is past with, whose output is not generated
    <2>4. ASSUME Writing, NEW r0 \in run.previous, NEW next, Dropped(r0, next),
                 ~Marked(PathOf(r0.out)), r0.name \notin Done,
                 NEW o \in Outs, Marked(o), Tracked(o)
          PROVE  Tracked(o)'
      <3>1. /\ r0 \in last /\ r0.name \in Names /\ r0.slug \in Slugs
            /\ r0.slug = SlugOf[r0.name]
        BY <2>0, <2>4 DEF Writing, Inv, SnapshotOK, RecordsOK, TypeOK, Listing
      <3>2. PathOf(records[r0.slug].out) # o
        <4>1. PICK r \in run.previous : /\ r.slug = r0.slug
                                        /\ r.out = records[r0.slug].out
          BY <2>4, <3>1, ListedRecord DEF Dropped
        <4>2. r = r0
          BY <2>0, <2>4, <3>1, <4>1 DEF Writing, Inv, SnapshotOK, RecordsOK
        <4> QED
          BY <2>4, <4>1, <4>2
      <3> QED
        BY <2>4, <3>1, <3>2, TrackedApart DEF Dropped
    \* a spec document has no record
    <2>5. ASSUME run.step = "record", CurrentTarget.kind = "spec-doc",
                 Continue(NextTarget), UNCHANGED files,
                 \A o \in Outs : Marked(o) /\ Tracked(o) => Tracked(o)'
          PROVE  Goal
      <3>1. /\ Writing /\ Writing' /\ Here /\ ~Here' /\ run'.step = "render"
            /\ Left' = Left \ {Current} /\ Written' = Written
            /\ CurrentTarget = config[Current]
        <4>1. Busy /\ run.targets # <<>>
          BY <2>0, <2>5 DEF Inv, TypeOK, RunOK
        <4> QED
          BY <2>0, <2>5, <4>1, LeavesTarget, CurrentTyped
      <3>2. \A o \in Outs : Marked(o)' <=> Marked(o)
        BY <2>5 DEF Marked, HasMarker
      <3>3. ASSUME NEW o \in Outs, Pending(o) PROVE Pending(o)'
        <4>1. PICK n \in Left : config[n].out = o /\ n # Current
          BY <2>5, <3>1, <3>3 DEF Pending
        <4>2. n \in Left' /\ config'[n].out = o
          BY <2>0, <3>1, <4>1
        <4> QED
          BY <3>1, <4>2 DEF Pending
      <3>4. PreviousDone'
        BY <3>1 DEF PreviousDone
      <3>5. StaleUnmarked'
        BY <2>0, <2>5, <3>1
           DEF StaleUnmarked, Continue, NextTarget, RunRecord, Inv, PhaseOK, TypeOK, RunOK
      <3> QED
        BY <2>0, <2>1, <2>5, <3>1, <3>2, <3>3, <3>4, <3>5 DEF TrackInv
    <2>6. ASSUME run.step = "record", CurrentTarget.kind = "spec-doc",
                 NEW r0 \in PreviousOf(Current), Dropped(r0, NextTarget)
          PROVE  Goal
      <3>1. /\ Writing /\ Here /\ Current \in Left /\ r0 \in run.previous
            /\ r0.name = Current
        BY <2>0, <2>6, LeavesTarget DEF Dropped, PreviousOf
      <3>2. ~Marked(PathOf(r0.out))
        BY <2>0, <2>6, <3>1 DEF TrackInv, PreviousDone
      <3>3. \A o \in Outs : Marked(o) /\ Tracked(o) => Tracked(o)'
        BY <2>4, <2>6, <3>1, <3>2 DEF Done
      <3> QED
        BY <2>5, <2>6, <3>3 DEF Dropped
    <2>7. CASE UpsertRecord
      <3> DEFINE S   == SlugOf[Current]
                 rec == [name |-> Current, out |-> Key(CurrentTarget.out)]
      <3>0. Busy /\ run.targets # <<>> /\ run.step = "record"
        BY <2>0, <2>7 DEF UpsertRecord, Inv, TypeOK, RunOK
      <3>1. /\ Writing /\ Writing' /\ Here /\ ~Here' /\ run'.step = "render"
            /\ Current \in Left /\ Left' = Left \ {Current} /\ Written' = Written
            /\ CurrentTarget = config[Current] /\ CurrentTarget.kind = "markdown"
            /\ CurrentTarget.out \in Outs /\ Current \in Names /\ S \in Slugs
            /\ UNCHANGED files
        BY <2>0, <2>7, <3>0, LeavesTarget, CurrentTyped DEF UpsertRecord
      <3>2. /\ records' = [records EXCEPT ![S] = rec]
            /\ rec # Absent /\ PathOf(rec.out) = CurrentTarget.out
        BY <2>7, <3>1, KeyTyped, AbsentAssumption DEF UpsertRecord, Record
      <3> HIDE DEF rec
      <3>3. ASSUME NEW o \in Outs, o = CurrentTarget.out PROVE Tracked(o)'
        <4>1. records'[S] = rec
          BY <2>0, <3>1, <3>2
        <4> QED
          BY <3>1, <3>2, <3>3, <4>1 DEF Tracked
      <3>5. ASSUME NEW o \in Outs, o # CurrentTarget.out, Marked(o),
                   records[S] # Absent, PathOf(records[S].out) = o
            PROVE  Tracked(o)' \/ Pending(o)'
        <4>1. PICK r \in run.previous : r.name = Current /\ r.out = records[S].out
          BY <2>0, <3>1, <3>5, ListedRecord DEF Done
        <4>2. PICK n \in Configured(config) : config[n].out = o
          BY <2>0, <3>0, <3>1, <3>5, <4>1 DEF TrackInv, PreviousDone, PreviousOf, Claimed
        <4>3. n # Current
          BY <3>1, <3>5, <4>2
        <4>4. CASE n \in Left
          BY <2>0, <3>1, <4>2, <4>3, <4>4 DEF Pending
        <4>5. CASE n \notin Left
          <5>1. PICK m \in Written : config[m].out = o /\ config[m].kind = "markdown"
            BY <2>0, <3>1, <3>5, <4>2, <4>5 DEF TrackInv, WrittenMarked, Written
          <5>2. m \in Done /\ m \in Names /\ m # Current
            BY <2>01, <3>1, <3>5, <5>1 DEF Written, Done
          <5>3. Filed(m) /\ SlugOf[m] # S
            BY <3>1, <5>2 DEF AllExclusive, FiledInv, Exclusive
          <5>4. records[SlugOf[m]] # Absent /\ PathOf(records[SlugOf[m]].out) = o
            BY <5>1, <5>2, <5>3 DEF Filed
          <5>5. records'[SlugOf[m]] = records[SlugOf[m]]
            BY <2>0, <3>2, <5>2, <5>3
          <5> QED
            BY <2>0, <5>2, <5>4, <5>5 DEF Tracked
        <4> QED
          BY <4>4, <4>5
      <3>6. ASSUME NEW o \in Outs, Marked(o)' PROVE Tracked(o)' \/ Pending(o)'
        <4>1. CASE o = CurrentTarget.out
          BY <3>3, <4>1
        <4>2. CASE o # CurrentTarget.out
          <5>1. Marked(o)
            BY <3>1, <3>6 DEF Marked, HasMarker
          <5>2. CASE Pending(o)
            <6>1. PICK n \in Left : config[n].out = o /\ n # Current
              BY <3>1, <4>2, <5>2 DEF Pending
            <6>2. n \in Left' /\ config'[n].out = o
              BY <2>0, <3>1, <6>1
            <6> QED
              BY <3>1, <6>2 DEF Pending
          <5>3. CASE Tracked(o) /\ (records[S] # Absent => PathOf(records[S].out) # o)
            BY <3>1, <3>2, <5>3, TrackedApart
          <5>4. CASE records[S] # Absent /\ PathOf(records[S].out) = o
            BY <3>5, <4>2, <5>1, <5>4
          <5> QED
            BY <2>0, <5>1, <5>2, <5>3, <5>4 DEF TrackInv
        <4> QED
          BY <4>1, <4>2
      <3>7. WrittenMarked'
        BY <2>1, <3>1 DEF Marked, HasMarker
      <3>8. PreviousDone'
        BY <3>1 DEF PreviousDone
      <3>9. StaleUnmarked'
        BY <2>0, <2>7, <3>1
           DEF StaleUnmarked, UpsertRecord, Continue, NextTarget, RunRecord, Inv, PhaseOK,
               TypeOK, RunOK
      <3> QED
        BY <3>1, <3>6, <3>7, <3>8, <3>9
    \* past the last target
    <2>8. ASSUME Writing, Writing', Left = {}, ~Here', Written' = Written,
                 \A o \in Outs : Marked(o)' => Marked(o),
                 \A o \in Outs : Marked(o) /\ Tracked(o) => Tracked(o)',
                 StaleUnmarked'
          PROVE  Goal
      <3>1. PreviousDone'
        BY <2>8 DEF PreviousDone, Here
      <3> QED
        BY <2>0, <2>1, <2>8, <3>1 DEF TrackInv, Pending
    <2>9. CASE Collect
      <3>1. StaleUnmarked'
        <4>1. /\ run'.decoupled = Stale \ Orphans /\ run'.removed = {} /\ UNCHANGED files
          BY <2>0, <2>9
             DEF Collect, AllRendered, Continue, RunRecord, Inv, PhaseOK, TypeOK, RunOK
        <4> QED
          BY <4>1 DEF StaleUnmarked, Orphans, Marked, HasMarker
      <3>2. UNCHANGED <<files, records>>
        BY <2>9 DEF Collect
      <3> QED
        BY <2>8, <2>9, <3>1, <3>2, StartsStale DEF Marked, HasMarker, Tracked
    <2>10. ASSUME NEW r0 \in run.orphans, RemoveOrphan(r0) PROVE Goal
      <3>1. /\ run.step = "stale" /\ Continue([run EXCEPT !.removed = {r0}])
            /\ files' = Removed(r0.out) /\ r0 \in run.previous /\ UNCHANGED records
            /\ r0.out \in Keys /\ PathOf(r0.out) \in Outs
        BY <2>0, <2>10, RemovedTyped
           DEF RemoveOrphan, Inv, TypeOK, RunOK, RunRecord, Listing
      <3>2. /\ Writing /\ Left = {} /\ Writing' /\ ~Here' /\ Written' = Written
            /\ run'.decoupled = run.decoupled /\ run'.removed = {r0}
        BY <2>0, <3>1, AtStale, StaysStale DEF Continue, RunRecord
      <3>3. \A o \in Outs : Marked(o)' => Marked(o)
        BY <3>1, MarksShrink
      <3>4. StaleUnmarked'
        <4>1. files'[PathOf(r0.out)] = Absent
          BY <3>1 DEF Removed, Inv, TypeOK
        <4>2. \A r \in run.decoupled : PathOf(r.out) \in Outs /\ ~Marked(PathOf(r.out))
          BY <2>0, <3>2, PathTyped DEF TrackInv, StaleUnmarked, RunRecord, Listing
        <4>3. ~Marked(PathOf(r0.out))'
          BY <4>1, NoMarker DEF Marked, HasMarker
        <4> QED
          BY <3>2, <3>3, <4>2, <4>3 DEF StaleUnmarked
      <3> QED
        BY <2>8, <3>1, <3>2, <3>3, <3>4 DEF Tracked
    <2>11. ASSUME run.step = "stale", NEW r0 \in run.removed \cup run.decoupled, NEW next,
                  Dropped(r0, next), next.step = "stale", next.targets = run.targets,
                  next.mode = run.mode,
                  next.removed \subseteq run.removed, next.decoupled \subseteq run.decoupled
           PROVE  Goal
      <3>1. /\ Writing /\ Left = {} /\ Writing' /\ ~Here' /\ Written' = Written
            /\ run' = next /\ UNCHANGED files
        BY <2>0, <2>11, AtStale, StaysStale DEF Dropped, Continue
      <3>2. r0 \in run.previous /\ r0.name \notin Done /\ ~Marked(PathOf(r0.out))
        BY <2>0, <2>11, <3>1
           DEF TrackInv, StaleUnmarked, Inv, TypeOK, RunOK, SnapshotOK, Stale, Done
      <3>3. \A o \in Outs : Marked(o) /\ Tracked(o) => Tracked(o)'
        BY <2>4, <2>11, <3>1, <3>2
      <3>4. StaleUnmarked'
        BY <2>0, <2>11, <3>1 DEF TrackInv, StaleUnmarked, Marked, HasMarker
      <3> QED
        BY <2>8, <3>1, <3>3, <3>4 DEF Marked, HasMarker
    <2>12. ASSUME run.step = "stale", NEW r0 \in run.removed,
                  Dropped(r0, [run EXCEPT !.removed = {}, !.orphans = @ \ {r0}])
           PROVE  Goal
      BY <2>0, <2>11, <2>12 DEF RunRecord
    <2>13. ASSUME run.step = "stale", NEW r0 \in run.decoupled,
                  Dropped(r0, [run EXCEPT !.decoupled = @ \ {r0}])
           PROVE  Goal
      BY <2>0, <2>11, <2>13 DEF RunRecord
    \* the run ends, or was never to write
    <2>14. ASSUME ~Writing', UNCHANGED <<files, records>>, ~Writing \/ Left = {}
           PROVE  Goal
      BY <2>0, <2>14 DEF TrackInv, Pending, Marked, HasMarker, Tracked
    <2>15. CASE ReportOnly \/ Finish
      <3>1. ~Writing' /\ UNCHANGED <<files, records>>
        BY <2>15 DEF ReportOnly, Finish, End, NoRun, Writing, Busy
      <3>2. ~Writing \/ Left = {}
        BY <2>15, AtStale DEF ReportOnly, Finish, Writing
      <3> QED
        BY <2>14, <3>1, <3>2
    <2>16. CASE End("drift") /\ run.mode = "check" /\ UNCHANGED <<files, records, world>>
      BY <2>14, <2>16 DEF End, NoRun, Writing, Busy
    <2>17. CASE RenderDryRun \/ RenderMatches
      <3>1. run.mode # "write" /\ run'.mode = run.mode /\ UNCHANGED <<files, records>>
        BY <2>0, <2>17, AtNextTarget DEF RenderDryRun, RenderMatches, Rendering
      <3> QED
        BY <2>14, <3>1 DEF Writing
    <2>18. ~End("error")
      BY DEF End
    <2> QED
      BY <1>3, <2>2, <2>3, <2>5, <2>6, <2>7, <2>9, <2>10, <2>12, <2>13, <2>15, <2>16,
         <2>17, <2>18, RunStepCases DEF Tracked, Dropped
  <1>4. CASE User
    <2>1. CASE Busy
      <3>1. /\ UNCHANGED <<config, matched, records, run, last, disrupted>>
            /\ \A o \in Outs : Marked(o)' => Marked(o)
        BY <1>4, <2>1, EditsInRun, MarksShrink
      <3>2. \A n \in Configured(config) : config[n].out \in Outs
        BY DEF Configured, Inv, TypeOK, Target
      <3>3. Writing => \A r \in run.decoupled \cup run.removed \cup PreviousOf(Current) :
                         PathOf(r.out) \in Outs
        BY PathTyped DEF PreviousOf, Inv, TypeOK, RunOK, RunRecord, Listing
      <3>4. Here /\ Writing => CurrentTarget = config[Current] /\ CurrentTarget.out \in Outs
        BY CurrentTyped DEF Here, Writing, Inv, TypeOK, RunOK
      <3>5. ~disrupted /\ TrackInv
        BY <3>1
      <3>6. \A o \in Outs : Marked(o)' => Tracked(o)' \/ (Writing' /\ Pending(o)')
        BY <3>1, <3>5
           DEF TrackInv, Tracked, Pending, Writing, Busy, Here, Left, Current, Configured
      <3>7. ASSUME Writing' PROVE WrittenMarked' /\ PreviousDone' /\ StaleUnmarked'
        <4>1. Writing /\ WrittenMarked /\ PreviousDone /\ StaleUnmarked
          BY <3>1, <3>5, <3>7 DEF TrackInv, Writing, Busy
        <4>2. WrittenMarked'
          BY <3>1, <3>2, <4>1
             DEF WrittenMarked, Written, Here, Left, Current, Configured
        <4>3. PreviousDone'
          BY <3>1, <3>3, <3>4, <4>1
             DEF PreviousDone, Here, Current, CurrentTarget, PreviousOf, Claimed, Configured
        <4>4. StaleUnmarked'
          BY <3>1, <3>3, <4>1 DEF StaleUnmarked
        <4> QED
          BY <4>2, <4>3, <4>4
      <3> QED
        BY <3>6, <3>7
    <2>2. CASE ~Busy
      <3>1. /\ UNCHANGED <<records, run, disrupted>> /\ ~Busy'
        BY <1>4, <2>2, EditsIdle
      <3>2. UNCHANGED files \/ \E o \in Outs, text \in HandValues : EditOutput(o, text)
        BY <1>4 DEF User, EditConfig, EditRules
      <3>3. \A o \in Outs : Marked(o)' => Marked(o)
        BY <3>2, MarksShrink
      <3> QED
        BY <2>2, <3>1, <3>3 DEF TrackInv, Tracked, Writing
    <2> QED
      BY <2>1, <2>2
  <1>5. CASE Crash
    BY <1>5 DEF Crash
  <1> QED
    BY <1>1, <1>2, <1>3, <1>4, <1>5 DEF Next

-----------------------------------------------------------------------------
(* sync-targets --check that reported no drift was right. *)
THEOREM CheckTruthful == Spec => []CheckSound
  <1>1. Init => CheckInv
    BY DEF Init, CheckInv, Checking, CheckSound, Busy, NoRun
  <1>2. CheckInv => CheckSound
    BY DEF CheckInv
  <1> QED
    BY <1>1, <1>2, InvAlways, CheckNext, PTL DEF Spec

(* After a successful run, and until somebody edits, an output that is given by
   its canonical path, is not shared and was not recorded for a target that
   left holds what its rules render to. *)
THEOREM OutputsCurrent == Spec => []OutputsCurrentUnlessReclaimed
  <1>1. Init => OutInv
    BY DEF Init, OutInv, Writing, OutputsCurrentUnlessReclaimed, Busy, NoRun
  <1>2. OutInv => OutputsCurrentUnlessReclaimed
    BY DEF OutInv
  <1> QED
    BY <1>1, <1>2, InvAlways, OutNext, PTL DEF Spec

(* After a successful run the records are those of the configuration, and no
   output recorded earlier is left behind as a generated file. *)
THEOREM RecordsMatchConfiguration == Spec => []RecordsCurrent
  <1>1. Init => FiledInv /\ CleanInv
    BY DEF Init, FiledInv, CleanInv, Writing, Busy, NoRun
  <1>2. FiledInv /\ CleanInv => RecordsCurrent
    <2> SUFFICES ASSUME FiledInv, CleanInv, outcome = "synced"
                 PROVE  AllFiled /\ \A r \in last : Clean(r)
      BY DEF RecordsCurrent, AllFiled, Clean, Claimed
    <2> QED
      BY DEF FiledInv, CleanInv
  <1> QED
    BY <1>1, <1>2, InvAlways, FiledNext, CleanNext, PTL DEF Spec

(* As long as no run died or stopped with an error, every generated file is the
   recorded output of some target. *)
THEOREM NoFileLost == Spec => []GeneratedFilesTracked
  <1>1. Init => FiledInv /\ TrackInv
    <2> SUFFICES ASSUME Init PROVE FiledInv /\ TrackInv
      OBVIOUS
    <2>1. ~Writing /\ outcome # "synced"
      BY DEF Init, Writing, Busy, NoRun
    <2>2. \A o \in Outs : ~Marked(o)
      BY ContentAssumption DEF Init, Marked, HasMarker
    <2> QED
      BY <2>1, <2>2 DEF FiledInv, TrackInv
  <1>2. TrackInv => GeneratedFilesTracked
    BY DEF TrackInv, GeneratedFilesTracked, AllExclusive, Marked, Tracked, Writing
  <1> QED
    BY <1>1, <1>2, InvAlways, FiledNext, TrackNext, PTL DEF Spec

=============================================================================
