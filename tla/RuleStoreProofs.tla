--------------------------- MODULE RuleStoreProofs ---------------------------
(***************************************************************************)
(* What holds of RuleStore for every set of processes, entities, slugs,    *)
(* bodies and requests, however many faults there are, and, in the second  *)
(* part, of the Commands one process runs over it.                         *)
(***************************************************************************)
EXTENDS Commands, FiniteSetTheorems, SequenceTheorems, TLAPS

(***************************************************************************)
(* Types.  TypeOK is not inductive: what WriteRow and WriteDoc store comes *)
(* from the operation in progress, so an operation that goes on to write a *)
(* manifest, a row or a document has to hold a manifest and an entity.     *)
(***************************************************************************)
OpShape(o) ==
  /\ o.name \notin {"none", "init", "reindex"} => o.id \in Ids
  /\ o.step \in {"folder", "body", "row", "doc"} /\ o.name # "delete"
       => o.seen \in Manifest
  /\ o.step = "body" \/ o.name \in {"update_body", "upsert_existing"}
       => o.patch.body \in Bodies
  /\ o.name = "none" <=> o.step = "idle"

TypeInv == TypeOK /\ \A p \in Procs : OpShape(op[p])

LEMMA NoOpTyped == NoOp \in Op /\ OpShape(NoOp) /\ NoPatch \in Patch
  BY DEF NoOp, NoPatch, Op, OpShape, Patch, OpNames, Steps

\* An operation is replaced by one of the right shape.
LEMMA OpReplaced ==
  ASSUME TypeInv, NEW p \in Procs, NEW o \in Op, OpShape(o),
         op' = [op EXCEPT ![p] = o]
  PROVE  op' \in [Procs -> Op] /\ \A q \in Procs : OpShape(op'[q])
  BY DEF TypeInv, TypeOK

\* Going on to the next step keeps the shape if the step asks for nothing new.
LEMMA OpAdvanced ==
  ASSUME TypeInv, NEW p \in Procs, NEW s \in Steps, Goto(p, s), s # "idle",
         op[p].name # "none",
         s \in {"folder", "body", "row", "doc"} /\ op[p].name # "delete"
           => op[p].seen \in Manifest,
         s = "body" => op[p].patch.body \in Bodies
  PROVE  op' \in [Procs -> Op] /\ \A q \in Procs : OpShape(op'[q])
  <1> DEFINE o == [op[p] EXCEPT !.step = s]
  <1>1. op' = [op EXCEPT ![p] = o]
    BY DEF Goto
  <1>2. o \in Op /\ OpShape(o)
    BY DEF TypeInv, TypeOK, Op, OpShape
  <1> QED
    BY <1>1, <1>2, OpReplaced

LEMMA RowTyped ==
  ASSUME NEW m \in Manifest
  PROVE  RowOf(m) \in Row /\ DocOf(m) \in Doc
  BY DEF RowOf, DocOf, Manifest, Row, Doc

LEMMA InitTyped == Init => TypeInv
  <1> SUFFICES ASSUME Init PROVE TypeInv
    OBVIOUS
  <1>1. op \in [Procs -> Op] /\ \A p \in Procs : OpShape(op[p])
    BY NoOpTyped DEF Init
  <1>2. NoSlugs \in [Slugs -> Ids \cup {Absent}]
    BY DEF NoSlugs
  <1>3. 0 \in 0..MaxFaults
    BY InputAssumption
  <1> QED
    BY <1>1, <1>2, <1>3 DEF Init, TypeInv, TypeOK

\* An operation starts with a typed record and a typed slug table.
LEMMA BeginTyped ==
  ASSUME TypeInv, NEW p \in Procs, NEW name \in OpNames \ {"none"},
         NEW step \in Steps \ {"idle"}, NEW i \in Ids \cup {Absent},
         NEW patch \in Patch, NEW seen \in Manifest \cup {Absent},
         NEW table \in [Slugs -> Ids \cup {Absent}],
         OpShape([name |-> name, step |-> step, id |-> i,
                  patch |-> patch, seen |-> seen]),
         Begin(p, name, step, i, patch, seen, table)
  PROVE  TypeInv'
  <1> DEFINE o == [name |-> name, step |-> step, id |-> i,
                   patch |-> patch, seen |-> seen]
  <1>1. op' = [op EXCEPT ![p] = o] /\ o \in Op
    BY DEF Begin, Op
  <1>2. op' \in [Procs -> Op] /\ \A q \in Procs : OpShape(op'[q])
    <2> HIDE DEF o
    <2> QED
      BY <1>1, OpReplaced DEF o
  <1>3. slugIndex' \in [Procs -> [Slugs -> Ids \cup {Absent}]]
    BY DEF Begin, TypeInv, TypeOK
  <1>4. derived' \in {"clean", "repairing", "dirty"}
    BY DEF Begin, TypeInv, TypeOK
  <1> QED
    BY <1>2, <1>3, <1>4 DEF Begin, TypeInv, TypeOK

\* An operation ends; the process may close the store.
LEMMA ReleaseTyped ==
  ASSUME TypeInv, NEW p \in Procs, NEW closing \in BOOLEAN,
         NEW table \in [Slugs -> Ids \cup {Absent}],
         Release(p, table, closing)
  PROVE  /\ op' \in [Procs -> Op] /\ \A q \in Procs : OpShape(op'[q])
         /\ handle' \in [Procs -> {"open", "closed"}]
         /\ slugIndex' \in [Procs -> [Slugs -> Ids \cup {Absent}]]
  <1>1. op' = [op EXCEPT ![p] = NoOp]
    BY DEF Release
  <1>2. op' \in [Procs -> Op] /\ \A q \in Procs : OpShape(op'[q])
    BY <1>1, NoOpTyped, OpReplaced
  <1>3. handle' \in [Procs -> {"open", "closed"}]
    BY DEF Release, TypeInv, TypeOK
  <1>4. NoSlugs \in [Slugs -> Ids \cup {Absent}]
    BY DEF NoSlugs
  <1>5. slugIndex' \in [Procs -> [Slugs -> Ids \cup {Absent}]]
    BY <1>4 DEF Release, TypeInv, TypeOK
  <1> QED
    BY <1>2, <1>3, <1>5

LEMMA SlugTableTyped ==
  ASSUME NEW rows, NEW t \in SlugTables(rows)
  PROVE  t \in [Slugs -> Ids \cup {Absent}]
  BY DEF SlugTables

\* What a scan does to the rows and the documents.
LEMMA ScanTyped ==
  ASSUME TypeInv
  PROVE  /\ Pruned \in [Ids -> Row \cup {Absent}]
         /\ ScannedIndex \in [Ids -> Row \cup {Absent}]
         /\ \A scanned \in SUBSET OnDisk, withBody \in BOOLEAN :
              ScannedSearch(scanned, withBody) \in [Ids -> Doc \cup {Absent}]
  <1>1. \A i \in OnDisk : RowOf(disk[i]) \in Row /\ DocOf(disk[i]) \in Doc
    BY RowTyped DEF TypeInv, TypeOK, OnDisk
  <1>2. Pruned \in [Ids -> Row \cup {Absent}]
    BY DEF Pruned, TypeInv, TypeOK
  <1>3. ScannedIndex \in [Ids -> Row \cup {Absent}]
    BY <1>1 DEF ScannedIndex, TypeInv, TypeOK, OnDisk
  <1>4. ASSUME NEW scanned \in SUBSET OnDisk, NEW withBody \in BOOLEAN
        PROVE  ScannedSearch(scanned, withBody) \in [Ids -> Doc \cup {Absent}]
    <2>1. \A i \in scanned : DocOf(disk[i]) \in Doc
      BY <1>1
    <2>2. \A d \in Doc :
            [d EXCEPT !.body = IF withBody THEN @ ELSE Absent] \in Doc
      BY DEF Doc
    <2> QED
      BY <2>1, <2>2 DEF ScannedSearch, TypeInv, TypeOK
  <1> QED
    BY <1>2, <1>3, <1>4

\* Opening a store prunes or scans, and rebuilds the slug table.
LEMMA OpenedTyped ==
  ASSUME TypeInv, NEW p \in Procs, NEW scans \in BOOLEAN, Opened(p, scans)
  PROVE  TypeInv'
  <1>1. handle' \in [Procs -> {"open", "closed"}]
    BY DEF Opened, TypeInv, TypeOK
  <1>2. index' \in [Ids -> Row \cup {Absent}]
    BY ScanTyped DEF Opened
  <1>3. search' \in [Ids -> Doc \cup {Absent}]
    <2>1. CASE scans
      <3>1. PICK withBody \in BOOLEAN :
              search' = ScannedSearch(OnDisk \ Indexed, withBody)
        BY <2>1 DEF Opened
      <3>2. OnDisk \ Indexed \in SUBSET OnDisk
        OBVIOUS
      <3> QED
        BY <3>1, <3>2, ScanTyped
    <2>2. CASE ~scans
      BY <2>2 DEF Opened, TypeInv, TypeOK
    <2> QED
      BY <2>1, <2>2
  <1>4. slugIndex' \in [Procs -> [Slugs -> Ids \cup {Absent}]]
    <2>1. PICK t \in SlugTables({i \in Ids : index'[i] # Absent}) :
            slugIndex' = [slugIndex EXCEPT ![p] = t]
      BY DEF Opened
    <2> QED
      BY <2>1, SlugTableTyped DEF TypeInv, TypeOK
  <1>5. derived' \in {"clean", "repairing", "dirty"}
    BY DEF Opened, TypeInv, TypeOK
  <1> QED
    BY <1>1, <1>2, <1>3, <1>4, <1>5 DEF Opened, TypeInv, TypeOK

LEMMA OpenTyped ==
  ASSUME TypeInv, NEW p \in Procs, Open(p) \/ OpenOrInit(p) \/ Close(p)
  PROVE  TypeInv'
  <1>1. CASE Open(p)
    BY <1>1, OpenedTyped, InputAssumption DEF Open
  <1>2. CASE OpenOrInit(p)
    <2> DEFINE o == [NoOp EXCEPT !.name = "init", !.step = "inner"]
    <2>1. o \in Op /\ OpShape(o)
      BY NoOpTyped DEF NoOp, Op, OpShape, OpNames, Steps
    <2>2. op' = [op EXCEPT ![p] = o]
      BY <1>2 DEF OpenOrInit
    <2>3. op' \in [Procs -> Op] /\ \A q \in Procs : OpShape(op'[q])
      <3> HIDE DEF o
      <3> QED
        BY <2>1, <2>2, OpReplaced
    <2> QED
      BY <1>2, <2>3 DEF OpenOrInit, TypeInv, TypeOK
  <1>3. CASE Close(p)
    <2>1. NoSlugs \in [Slugs -> Ids \cup {Absent}]
      BY DEF NoSlugs
    <2> QED
      BY <1>3, <2>1 DEF Close, TypeInv, TypeOK
  <1> QED
    BY <1>1, <1>2, <1>3

LEMMA PatchTyped ==
  ASSUME TypeInv, NEW p \in Procs, NEW i \in Ids, NEW patch \in Patch
  PROVE  PatchedSlugs(p, i, patch) \in [Slugs -> Ids \cup {Absent}]
  <1>1. slugIndex[p] \in [Slugs -> Ids \cup {Absent}]
    BY DEF TypeInv, TypeOK
  <1> QED
    BY <1>1 DEF PatchedSlugs

\* An update, whatever it asks for, starts or is rejected.
LEMMA UpdateTyped ==
  ASSUME TypeInv, NEW p \in Procs, NEW i \in Ids, NEW patch \in Patch,
         Update(p, i, patch) \/ UpdateRejected(p, i, patch)
  PROVE  TypeInv'
  <1>1. CASE Update(p, i, patch)
    <2>1. OpShape([name |-> "update", step |-> "manifest", id |-> i,
                   patch |-> patch, seen |-> Absent])
      BY DEF OpShape
    <2>2. Begin(p, "update", "manifest", i, patch, Absent, PatchedSlugs(p, i, patch))
      BY <1>1 DEF Update
    <2> QED
      BY <2>1, <2>2, PatchTyped, BeginTyped DEF OpNames, Steps
  <1>2. CASE UpdateRejected(p, i, patch)
    <2>1. Release(p, PatchedSlugs(p, i, patch), OneShot) /\ OneShot \in BOOLEAN
      BY <1>2, InputAssumption DEF UpdateRejected
    <2> QED
      BY <1>2, <2>1, PatchTyped, ReleaseTyped DEF UpdateRejected, TypeInv, TypeOK
  <1> QED
    BY <1>1, <1>2

\* The calls: what each of them starts is typed.
LEMMA CallTyped ==
  ASSUME TypeInv, NEW p \in Procs, Call(p)
  PROVE  TypeInv'
  <1> USE DEF OpNames, Steps
  <1>1. slugIndex[p] \in [Slugs -> Ids \cup {Absent}]
    BY DEF TypeInv, TypeOK
  <1>2. CASE Reindex(p)
    <2>1. OpShape([name |-> "reindex", step |-> "inner", id |-> Absent,
                   patch |-> NoPatch, seen |-> Absent])
      BY DEF OpShape
    <2> QED
      BY <1>1, <1>2, <2>1, NoOpTyped, BeginTyped DEF Reindex
  <1>3. ASSUME NEW i \in Ids, NEW s \in Slugs, NEW b \in Bodies, Create(p, i, s, b)
        PROVE  TypeInv'
    <2> DEFINE m == [type |-> RuleEntry, slug |-> s, state |-> "draft", body |-> b]
    <2>1. m \in Manifest
      BY DEF Manifest, Types, States
    <2>2. OpShape([name |-> "create", step |-> "folder", id |-> i,
                   patch |-> NoPatch, seen |-> m])
      BY <2>1 DEF OpShape
    <2>3. Begin(p, "create", "folder", i, NoPatch, m, slugIndex[p])
      BY <1>3 DEF Create
    <2> HIDE DEF m
    <2> QED
      BY <1>1, <2>1, <2>2, <2>3, NoOpTyped, BeginTyped
  <1>4. ASSUME NEW i \in Ids, NEW s \in Slugs, NEW b \in Bodies, UpsertNew(p, i, s, b)
        PROVE  TypeInv'
    <2> DEFINE m == [type |-> GeneratedTarget, slug |-> s, state |-> "active", body |-> b]
    <2>1. m \in Manifest
      BY DEF Manifest, Types, States
    <2>2. OpShape([name |-> "upsert_new", step |-> "folder", id |-> i,
                   patch |-> NoPatch, seen |-> m])
      BY <2>1 DEF OpShape
    <2>3. Begin(p, "upsert_new", "folder", i, NoPatch, m, slugIndex[p])
      BY <1>4 DEF UpsertNew
    <2> HIDE DEF m
    <2> QED
      BY <1>1, <2>1, <2>2, <2>3, NoOpTyped, BeginTyped
  <1>5. ASSUME NEW i \in Ids, NEW patch \in Patches, Update(p, i, patch) \/ UpdateRejected(p, i, patch)
        PROVE  TypeInv'
    BY <1>5, UpdateTyped, InputAssumption
  <1>7. ASSUME NEW i \in Ids, NEW b \in Bodies, UpdateBody(p, i, b)
        PROVE  TypeInv'
    <2> DEFINE patch == [NoPatch EXCEPT !.body = b]
    <2>1. patch \in Patch /\ patch.body = b
      BY NoOpTyped DEF Patch, NoPatch
    <2>2. disk[i] \in Manifest
      BY <1>7 DEF UpdateBody, TypeInv, TypeOK
    <2>3. OpShape([name |-> "update_body", step |-> "body", id |-> i,
                   patch |-> patch, seen |-> disk[i]])
      BY <2>1, <2>2 DEF OpShape
    <2>4. Begin(p, "update_body", "body", i, patch, disk[i], slugIndex[p])
      BY <1>7 DEF UpdateBody
    <2> HIDE DEF patch
    <2> QED
      BY <1>1, <2>1, <2>2, <2>3, <2>4, BeginTyped
  <1>8. ASSUME NEW s \in GenSlugs, NEW b \in Bodies, UpsertExisting(p, s, b)
        PROVE  TypeInv'
    <2> DEFINE patch == [NoPatch EXCEPT !.body = b]
               i == slugIndex[p][s]
    <2>1. patch \in Patch /\ patch.body = b
      BY NoOpTyped DEF Patch, NoPatch
    <2>2. i \in Ids
      BY <1>8 DEF UpsertExisting, Indexed
    <2>3. OpShape([name |-> "upsert_existing", step |-> "manifest", id |-> i,
                   patch |-> patch, seen |-> Absent])
      BY <2>1, <2>2 DEF OpShape
    <2>4. Begin(p, "upsert_existing", "manifest", i, patch, Absent, slugIndex[p])
      BY <1>8 DEF UpsertExisting
    <2> HIDE DEF patch, i
    <2> QED
      BY <1>1, <2>1, <2>2, <2>3, <2>4, BeginTyped
  <1>9. ASSUME NEW i \in Ids, Delete(p, i)
        PROVE  TypeInv'
    <2> DEFINE table == [slugIndex[p] EXCEPT ![disk[i].slug] = Absent]
    <2>1. table \in [Slugs -> Ids \cup {Absent}]
      BY <1>1
    <2>2. OpShape([name |-> "delete", step |-> "folder", id |-> i,
                   patch |-> NoPatch, seen |-> Absent])
      BY DEF OpShape
    <2>3. Begin(p, "delete", "folder", i, NoPatch, Absent, table)
      BY <1>9 DEF Delete
    <2> HIDE DEF table
    <2> QED
      BY <2>1, <2>2, <2>3, NoOpTyped, BeginTyped
  <1> QED
    BY <1>2, <1>3, <1>4, <1>5, <1>7, <1>8, <1>9 DEF Call

\* The steps of an operation in progress.
LEMMA StepTyped ==
  ASSUME TypeInv, NEW p \in Procs, Step(p)
  PROVE  TypeInv'
  <1> USE DEF At, Steps
  <1> DEFINE i == op[p].id
  <1>0. op[p] \in Op /\ OpShape(op[p]) /\ OneShot \in BOOLEAN
    BY InputAssumption DEF TypeInv, TypeOK
  <1>1. CASE InnerScan(p)
    <2>1. op' \in [Procs -> Op] /\ \A q \in Procs : OpShape(op'[q])
      BY <1>1, OpAdvanced DEF InnerScan
    <2>2. \A j \in Ids : disk[j] # Absent => RowOf(disk[j]) \in Row
      BY RowTyped DEF TypeInv, TypeOK
    <2>3. index' \in [Ids -> Row \cup {Absent}]
      BY <1>1, <2>2 DEF InnerScan
    <2>4. search' \in [Ids -> Doc \cup {Absent}]
      <3>1. PICK withBody \in BOOLEAN, sweep \in BOOLEAN :
              search' = [j \in Ids |-> IF disk[j] = Absent /\ sweep THEN Absent
                                       ELSE ScannedSearch(OnDisk, withBody)[j]]
        BY <1>1 DEF InnerScan
      <3>2. ScannedSearch(OnDisk, withBody) \in [Ids -> Doc \cup {Absent}]
        <4>1. OnDisk \in SUBSET OnDisk
          OBVIOUS
        <4> QED
          BY <4>1, ScanTyped
      <3> HIDE DEF ScannedSearch
      <3> QED
        BY <3>1, <3>2
    <2>5. derived' \in {"clean", "repairing", "dirty"}
      BY <1>1 DEF InnerScan
    <2> QED
      BY <1>1, <2>1, <2>3, <2>4, <2>5 DEF InnerScan, TypeInv, TypeOK
  <1>2. CASE ReindexBodies(p)
    <2>1. PICK t \in SlugTables(Indexed) :
            Release(p, t, OneShot /\ op[p].name = "reindex")
      BY <1>2 DEF ReindexBodies
    <2>2. /\ op' \in [Procs -> Op] /\ \A q \in Procs : OpShape(op'[q])
          /\ handle' \in [Procs -> {"open", "closed"}]
          /\ slugIndex' \in [Procs -> [Slugs -> Ids \cup {Absent}]]
      BY <1>0, <2>1, SlugTableTyped, ReleaseTyped
    <2>3. search' \in [Ids -> Doc \cup {Absent}]
      <3>1. \A j \in Indexed :
              [DocOf(disk[j]) EXCEPT !.type = RuleEntry] \in Doc
        <4>1. \A j \in Indexed : DocOf(disk[j]) \in Doc
          BY <1>2, RowTyped DEF ReindexBodies, OnDisk, TypeInv, TypeOK
        <4> QED
          BY <4>1 DEF Doc, Types
      <3> QED
        BY <1>2, <3>1 DEF ReindexBodies, TypeInv, TypeOK
    <2>4. derived' \in {"clean", "repairing", "dirty"}
      BY <1>2 DEF ReindexBodies
    <2> QED
      BY <1>2, <2>2, <2>3, <2>4 DEF ReindexBodies, TypeInv, TypeOK
  <1>3. CASE WriteFolder(p)
    <2>1. i \in Ids /\ op[p].seen \in Manifest
      BY <1>0, <1>3 DEF WriteFolder, OpShape
    <2>2. op' \in [Procs -> Op] /\ \A q \in Procs : OpShape(op'[q])
      BY <1>3, <2>1, OpAdvanced DEF WriteFolder
    <2> QED
      BY <1>3, <2>1, <2>2 DEF WriteFolder, TypeInv, TypeOK
  <1>4. CASE WriteManifest(p)
    <2> DEFINE m == Patched(disk[i], op[p].patch)
               s == IF op[p].patch.body = Keep THEN "row" ELSE "body"
    <2>1. i \in Ids /\ disk[i] \in Manifest
      BY <1>0, <1>4 DEF WriteManifest, OpShape, TypeInv, TypeOK
    <2>2. m \in Manifest
      BY <1>0, <2>1 DEF Patched, Manifest, Op, Patch
    <2>3. disk' = [disk EXCEPT ![i] = m]
      BY <1>4 DEF WriteManifest
    <2>4. op' = [op EXCEPT ![p] = [op[p] EXCEPT !.seen = m, !.step = s]]
      BY <1>4 DEF WriteManifest, TypeInv, TypeOK
    <2>5. [op[p] EXCEPT !.seen = m, !.step = s] \in Op
      <3> HIDE DEF m
      <3> QED
        BY <1>0, <2>2 DEF Op
    <2>6. OpShape([op[p] EXCEPT !.seen = m, !.step = s])
      <3>1. op[p].patch.body # Keep => op[p].patch.body \in Bodies
        BY <1>0 DEF Op, Patch
      <3>2. op[p].name = "update"
        BY <1>4 DEF WriteManifest
      <3> HIDE DEF m, i
      <3> QED
        BY <1>0, <2>1, <2>2, <3>1, <3>2 DEF OpShape, Op, i
    <2>7. op' \in [Procs -> Op] /\ \A q \in Procs : OpShape(op'[q])
      <3> HIDE DEF m, s
      <3> QED
        BY <2>4, <2>5, <2>6, OpReplaced
    <2>8. disk' \in [Ids -> Manifest \cup {Absent}]
      <3> HIDE DEF m, i
      <3> QED
        BY <2>1, <2>2, <2>3 DEF TypeInv, TypeOK
    <2> HIDE DEF m, i
    <2> QED
      BY <1>4, <2>7, <2>8 DEF WriteManifest, TypeInv, TypeOK
  <1>5. CASE WriteTargetManifest(p)
    <2> DEFINE m == [disk[i] EXCEPT !.state = "active", !.body = op[p].patch.body]
    <2>1. i \in Ids /\ disk[i] \in Manifest /\ op[p].patch.body \in Bodies
      BY <1>0, <1>5 DEF WriteTargetManifest, OpShape, TypeInv, TypeOK
    <2>2. m \in Manifest
      BY <2>1 DEF Manifest, States
    <2>3. disk' = [disk EXCEPT ![i] = m]
      BY <1>5 DEF WriteTargetManifest
    <2>4. op' = [op EXCEPT ![p] = [op[p] EXCEPT !.seen = m, !.step = "row"]]
      BY <1>5 DEF WriteTargetManifest, TypeInv, TypeOK
    <2>5. [op[p] EXCEPT !.seen = m, !.step = "row"] \in Op
      <3> HIDE DEF m
      <3> QED
        BY <1>0, <2>2 DEF Op
    <2>6. OpShape([op[p] EXCEPT !.seen = m, !.step = "row"])
      <3>1. op[p].name = "upsert_existing"
        BY <1>5 DEF WriteTargetManifest
      <3> HIDE DEF m
      <3> QED
        BY <1>0, <2>1, <2>2, <3>1 DEF OpShape, Op
    <2>7. op' \in [Procs -> Op] /\ \A q \in Procs : OpShape(op'[q])
      <3> HIDE DEF m
      <3> QED
        BY <2>4, <2>5, <2>6, OpReplaced
    <2>8. disk' \in [Ids -> Manifest \cup {Absent}]
      <3> HIDE DEF m, i
      <3> QED
        BY <2>1, <2>2, <2>3 DEF TypeInv, TypeOK
    <2> HIDE DEF m, i
    <2> QED
      BY <1>5, <2>7, <2>8 DEF WriteTargetManifest, TypeInv, TypeOK
  <1>6. CASE WriteBody(p)
    <2> DEFINE s == IF op[p].name = "update" THEN "row" ELSE "doc"
    <2>1. /\ i \in Ids /\ disk[i] \in Manifest
          /\ op[p].patch.body \in Bodies /\ op[p].seen \in Manifest
      BY <1>0, <1>6 DEF WriteBody, OpShape, TypeInv, TypeOK
    <2>2. disk' = [disk EXCEPT ![i] = [disk[i] EXCEPT !.body = op[p].patch.body]]
      BY <1>6 DEF WriteBody, TypeInv, TypeOK
    <2>3. [disk[i] EXCEPT !.body = op[p].patch.body] \in Manifest
      BY <2>1 DEF Manifest
    <2>4. Goto(p, s) /\ s \in {"row", "doc"} /\ op[p].name # "none"
      BY <1>6 DEF WriteBody
    <2>5. op' \in [Procs -> Op] /\ \A q \in Procs : OpShape(op'[q])
      <3> HIDE DEF s
      <3> QED
        BY <2>1, <2>4, OpAdvanced
    <2> HIDE DEF i
    <2> QED
      BY <1>6, <2>1, <2>2, <2>3, <2>5 DEF WriteBody, TypeInv, TypeOK
  <1>7. CASE WriteRow(p)
    <2>1. i \in Ids /\ op[p].seen \in Manifest
      BY <1>0, <1>7 DEF WriteRow, OpShape
    <2>2. [type |-> WrittenType(p), state |-> op[p].seen.state] \in Row
      BY <2>1 DEF WrittenType, Manifest, Row, Types
    <2>3. op' \in [Procs -> Op] /\ \A q \in Procs : OpShape(op'[q])
      BY <1>7, <2>1, OpAdvanced DEF WriteRow
    <2> QED
      BY <1>7, <2>1, <2>2, <2>3 DEF WriteRow, TypeInv, TypeOK
  <1>8. CASE WriteDoc(p)
    <2>1. /\ i \in Ids /\ op[p].seen \in Manifest
          /\ op[p].name = "update_body" => op[p].patch.body \in Bodies
      BY <1>0, <1>8 DEF WriteDoc, OpShape
    <2>2. DocBody(p) \in Bodies \cup {Absent}
      BY <2>1 DEF DocBody, TypeInv, TypeOK, Manifest
    <2>3. [type |-> WrittenType(p), state |-> op[p].seen.state, body |-> DocBody(p)] \in Doc
      BY <2>1, <2>2 DEF WrittenType, Manifest, Doc, Types
    <2>4. search' \in [Ids -> Doc \cup {Absent}]
      <3>1. search' = [search EXCEPT ![i] =
              [type |-> WrittenType(p), state |-> op[p].seen.state, body |-> DocBody(p)]]
        BY <1>8 DEF WriteDoc
      <3> QED
        BY <2>3, <3>1 DEF TypeInv, TypeOK
    <2>5. FinalSlugs(p) \in [Slugs -> Ids \cup {Absent}]
      BY <2>1 DEF FinalSlugs, TypeInv, TypeOK
    <2>6. /\ op' \in [Procs -> Op] /\ \A q \in Procs : OpShape(op'[q])
          /\ handle' \in [Procs -> {"open", "closed"}]
          /\ slugIndex' \in [Procs -> [Slugs -> Ids \cup {Absent}]]
      BY <1>0, <1>8, <2>5, ReleaseTyped DEF WriteDoc
    <2> QED
      BY <1>8, <2>4, <2>6 DEF WriteDoc, TypeInv, TypeOK
  <1>9. CASE RemoveFolder(p)
    <2>1. op' \in [Procs -> Op] /\ \A q \in Procs : OpShape(op'[q])
      BY <1>9, OpAdvanced DEF RemoveFolder
    <2> QED
      BY <1>9, <2>1 DEF RemoveFolder, TypeInv, TypeOK
  <1>10. CASE RemoveRow(p)
    <2>1. op' \in [Procs -> Op] /\ \A q \in Procs : OpShape(op'[q])
      BY <1>10, OpAdvanced DEF RemoveRow
    <2> QED
      BY <1>10, <2>1 DEF RemoveRow, TypeInv, TypeOK
  <1>11. CASE RemoveDoc(p)
    <2>1. slugIndex[p] \in [Slugs -> Ids \cup {Absent}]
      BY DEF TypeInv, TypeOK
    <2>2. /\ op' \in [Procs -> Op] /\ \A q \in Procs : OpShape(op'[q])
          /\ handle' \in [Procs -> {"open", "closed"}]
          /\ slugIndex' \in [Procs -> [Slugs -> Ids \cup {Absent}]]
      BY <1>0, <1>11, <2>1, ReleaseTyped DEF RemoveDoc
    <2> QED
      BY <1>11, <2>2 DEF RemoveDoc, TypeInv, TypeOK
  <1> QED
    BY <1>1, <1>2, <1>3, <1>4, <1>5, <1>6, <1>7, <1>8, <1>9, <1>10, <1>11 DEF Step

\* Errors and crashes, and what happens outside the store.
LEMMA FaultTyped ==
  ASSUME TypeInv, NEW p \in Procs, Fail(p) \/ FolderGone(p) \/ Crash(p)
  PROVE  TypeInv'
  <1>1. ASSUME Return(p)
        PROVE  /\ disk' \in [Ids -> Manifest \cup {Absent}]
               /\ index' \in [Ids -> Row \cup {Absent}]
               /\ search' \in [Ids -> Doc \cup {Absent}]
               /\ initialized' \in BOOLEAN
               /\ op' \in [Procs -> Op] /\ \A q \in Procs : OpShape(op'[q])
               /\ handle' \in [Procs -> {"open", "closed"}]
               /\ slugIndex' \in [Procs -> [Slugs -> Ids \cup {Absent}]]
               /\ derived' \in {"clean", "repairing", "dirty"}
    <2>1. /\ slugIndex[p] \in [Slugs -> Ids \cup {Absent}]
          /\ (OneShot \/ op[p].name = "init") \in BOOLEAN
      BY InputAssumption DEF TypeInv, TypeOK
    <2>2. Release(p, slugIndex[p], OneShot \/ op[p].name = "init")
      BY <1>1 DEF Return
    <2>3. /\ op' \in [Procs -> Op] /\ \A q \in Procs : OpShape(op'[q])
          /\ handle' \in [Procs -> {"open", "closed"}]
          /\ slugIndex' \in [Procs -> [Slugs -> Ids \cup {Absent}]]
      BY <2>1, <2>2, ReleaseTyped
    <2> QED
      BY <1>1, <2>3 DEF Return, TypeInv, TypeOK
  <1>2. faults < MaxFaults /\ faults' = faults + 1 => faults' \in 0..MaxFaults
    BY InputAssumption DEF TypeInv, TypeOK
  <1>3. CASE Fail(p)
    BY <1>1, <1>2, <1>3 DEF Fail, TypeInv, TypeOK
  <1>4. CASE FolderGone(p)
    BY <1>1, <1>4 DEF FolderGone, TypeInv, TypeOK
  <1>5. CASE Crash(p)
    <2>1. op' \in [Procs -> Op] /\ \A q \in Procs : OpShape(op'[q])
      BY <1>5, NoOpTyped, OpReplaced DEF Crash
    <2>2. NoSlugs \in [Slugs -> Ids \cup {Absent}]
      BY DEF NoSlugs
    <2>3. faults' \in 0..MaxFaults
      BY <1>2, <1>5 DEF Crash
    <2> QED
      BY <1>5, <2>1, <2>2, <2>3 DEF Crash, TypeInv, TypeOK
  <1> QED
    BY <1>3, <1>4, <1>5

LEMMA EnvironmentTyped ==
  ASSUME TypeInv, Environment
  PROVE  TypeInv'
  <1>1. faults < MaxFaults /\ faults' = faults + 1 => faults' \in 0..MaxFaults
    BY InputAssumption DEF TypeInv, TypeOK
  <1>2. ASSUME NEW i \in Ids, NEW m \in Manifest, ExternalWrite(i, m)
        PROVE  TypeInv'
    BY <1>1, <1>2 DEF ExternalWrite, Outside, TypeInv, TypeOK
  <1>3. ASSUME NEW i \in Ids, ExternalRemove(i)
        PROVE  TypeInv'
    BY <1>1, <1>3 DEF ExternalRemove, Outside, TypeInv, TypeOK
  <1>4. CASE DerivedLost
    BY <1>1, <1>4 DEF DerivedLost, TypeInv, TypeOK
  <1> QED
    BY <1>2, <1>3, <1>4 DEF Environment

LEMMA StutterTyped ==
  ASSUME TypeInv, UNCHANGED vars
  PROVE  TypeInv'
  BY DEF TypeInv, TypeOK, vars

LEMMA NextTyped == TypeInv /\ [Next]_vars => TypeInv'
  BY OpenTyped, CallTyped, StepTyped, FaultTyped, EnvironmentTyped, StutterTyped
     DEF Next

(* The store's state keeps its types: whatever an operation goes on to write
   after a crash, an error or another process's write is a manifest, a row or
   a document. *)
THEOREM TypeCorrect == Spec => []TypeOK
  <1>1. TypeInv => TypeOK
    BY DEF TypeInv
  <1> QED
    BY <1>1, InitTyped, NextTyped, PTL DEF Spec

(***************************************************************************)
(* Records stay records.  Two facts carry the property through the steps   *)
(* other processes take meanwhile: no create or update in progress has a   *)
(* record's folder, because update found a rule entry's row when it began  *)
(* and a folder never changes its type; and the entity of a folder about   *)
(* to be written is nobody else's and has no row yet.                      *)
(***************************************************************************)
IsRecord(i) == disk[i] # Absent /\ disk[i].type = GeneratedTarget

Creating(p) == op[p].name \in {"create", "upsert_new"} /\ op[p].step = "folder"

RowsOfRecords ==
  \A i \in Ids : IsRecord(i) /\ index[i] # Absent => index[i].type = GeneratedTarget

RulesInProgress ==
  \A p \in Procs : op[p].name \in {"create", "update"} => ~IsRecord(op[p].id)

FreshInProgress ==
  \A p \in Procs : Creating(p) =>
    /\ disk[op[p].id] = Absent /\ index[op[p].id] = Absent
    /\ op[p].name = "create" => op[p].seen.type = RuleEntry
    /\ \A q \in Procs \ {p} : op[q].id # op[p].id

OpenInProgress == \A p \in Procs : op[p].name # "none" => handle[p] = "open"

RecordsInv ==
  TypeInv /\ RowsOfRecords /\ RulesInProgress /\ FreshInProgress /\ OpenInProgress

LEMMA InitRecords == Init => RecordsInv
  BY InitTyped DEF Init, RecordsInv, RowsOfRecords, RulesInProgress,
     FreshInProgress, OpenInProgress, IsRecord, Creating, NoOp

LEMMA RecordRow ==
  ASSUME NEW i, IsRecord(i)
  PROVE  RowOf(disk[i]).type = GeneratedTarget
  BY DEF IsRecord, RowOf

\* An operation in progress has an entity, unless it scans.
LEMMA InProgressTyped ==
  ASSUME TypeInv, NEW p \in Procs
  PROVE  /\ op[p] \in Op /\ OpShape(op[p])
         /\ op[p].name \notin {"none", "init", "reindex"} => op[p].id \in Ids
  BY DEF TypeInv, TypeOK, OpShape

\* Ending an operation, with the folders and rows as they were, keeps the rest.
LEMMA ReleaseRecords ==
  ASSUME RecordsInv, TypeInv', NEW p \in Procs, NEW table, NEW closing \in BOOLEAN,
         Release(p, table, closing), UNCHANGED <<disk, index>>
  PROVE  RecordsInv'
  <1>1. \A q \in Procs : op'[q] = IF q = p THEN NoOp ELSE op[q]
    BY DEF Release, RecordsInv, TypeInv, TypeOK
  <1>2. \A q \in Procs \ {p} : handle'[q] = handle[q]
    BY DEF Release, RecordsInv, TypeInv, TypeOK
  <1>3. RowsOfRecords' /\ RulesInProgress'
    BY <1>1 DEF RecordsInv, RowsOfRecords, RulesInProgress, IsRecord, NoOp
  <1>4. FreshInProgress'
    <2> SUFFICES ASSUME NEW q \in Procs, Creating(q)'
                 PROVE  /\ disk'[op'[q].id] = Absent /\ index'[op'[q].id] = Absent
                        /\ op'[q].name = "create" => op'[q].seen.type = RuleEntry
                        /\ \A r \in Procs \ {q} : op'[r].id # op'[q].id
      BY DEF FreshInProgress
    <2>1. q # p /\ op'[q] = op[q] /\ Creating(q)
      BY <1>1 DEF Creating, NoOp
    <2>2. op[q].id \in Ids
      BY <2>1, InProgressTyped DEF RecordsInv, Creating
    <2>3. op'[p].id # op'[q].id
      BY <1>1, <2>1, <2>2, AbsentAssumption DEF NoOp
    <2> QED
      BY <1>1, <2>1, <2>3 DEF RecordsInv, FreshInProgress
  <1>5. OpenInProgress'
    BY <1>1, <1>2 DEF RecordsInv, OpenInProgress, NoOp
  <1> QED
    BY <1>3, <1>4, <1>5 DEF RecordsInv

\* Beginning an operation that creates nothing, on an indexed entity or none.
LEMMA BeginRecords ==
  ASSUME RecordsInv, TypeInv', NEW p \in Procs, Ready(p), NEW name, name # "create",
         NEW step, step # "folder" \/ name \notin {"create", "upsert_new"},
         NEW i \in Indexed \cup {Absent}, NEW patch, NEW seen, NEW table,
         name = "update" => ~IsRecord(i),
         Begin(p, name, step, i, patch, seen, table)
  PROVE  RecordsInv'
  <1> DEFINE o == [name |-> name, step |-> step, id |-> i, patch |-> patch, seen |-> seen]
  <1>1. \A q \in Procs : op'[q] = IF q = p THEN o ELSE op[q]
    BY DEF Begin, RecordsInv, TypeInv, TypeOK
  <1>2. UNCHANGED <<disk, index, handle>> /\ handle[p] = "open"
    BY DEF Begin, Ready
  <1>3. RowsOfRecords' /\ RulesInProgress'
    BY <1>1, <1>2 DEF RecordsInv, RowsOfRecords, RulesInProgress, IsRecord
  <1>4. FreshInProgress'
    <2> SUFFICES ASSUME NEW q \in Procs, Creating(q)'
                 PROVE  /\ disk'[op'[q].id] = Absent /\ index'[op'[q].id] = Absent
                        /\ op'[q].name = "create" => op'[q].seen.type = RuleEntry
                        /\ \A r \in Procs \ {q} : op'[r].id # op'[q].id
      BY DEF FreshInProgress
    <2>1. q # p /\ op'[q] = op[q] /\ Creating(q)
      BY <1>1 DEF Creating
    <2>2. op[q].id \in Ids /\ index[op[q].id] = Absent
      BY <2>1, InProgressTyped DEF RecordsInv, Creating, FreshInProgress
    <2>3. op'[p].id # op'[q].id
      BY <1>1, <2>1, <2>2, AbsentAssumption DEF Indexed
    <2> QED
      BY <1>1, <1>2, <2>1, <2>3 DEF RecordsInv, FreshInProgress
  <1>5. OpenInProgress'
    BY <1>1, <1>2 DEF RecordsInv, OpenInProgress
  <1> QED
    BY <1>3, <1>4, <1>5 DEF RecordsInv

\* Beginning to create an entity nothing has heard of.
LEMMA CreateRecords ==
  ASSUME RecordsInv, TypeInv', NEW p \in Procs, Ready(p),
         NEW name \in {"create", "upsert_new"}, NEW i \in Ids, Fresh(i),
         NEW seen, name = "create" => seen.type = RuleEntry, NEW patch, NEW table,
         Begin(p, name, "folder", i, patch, seen, table)
  PROVE  RecordsInv'
  <1> DEFINE o == [name |-> name, step |-> "folder", id |-> i, patch |-> patch, seen |-> seen]
  <1>1. \A q \in Procs : op'[q] = IF q = p THEN o ELSE op[q]
    BY DEF Begin, RecordsInv, TypeInv, TypeOK
  <1>2. UNCHANGED <<disk, index, handle>> /\ handle[p] = "open"
    BY DEF Begin, Ready
  <1>3. disk[i] = Absent /\ index[i] = Absent /\ \A q \in Procs : op[q].id # i
    BY DEF Fresh
  <1>4. RowsOfRecords' /\ RulesInProgress'
    BY <1>1, <1>2, <1>3 DEF RecordsInv, RowsOfRecords, RulesInProgress, IsRecord
  <1>5. FreshInProgress'
    BY <1>1, <1>2, <1>3 DEF RecordsInv, FreshInProgress, Creating
  <1>6. OpenInProgress'
    BY <1>1, <1>2 DEF RecordsInv, OpenInProgress
  <1> QED
    BY <1>4, <1>5, <1>6 DEF RecordsInv

\* A step of an operation past its beginning: its name and entity stay, and it
\* writes to no other entity.  If it makes the folder a record's, no other
\* operation has that entity.
LEMMA OwnEntityRecords ==
  ASSUME RecordsInv, TypeInv', NEW p \in Procs, op[p].name # "none",
         NEW i \in Ids, op[p].id = i, op'[p].name = op[p].name, op'[p].id = i,
         op'[p].step # "folder",
         \A q \in Procs \ {p} : op'[q] = op[q],
         handle' = handle,
         \A j \in Ids \ {i} : disk'[j] = disk[j] /\ index'[j] = index[j],
         IsRecord(i)' /\ index'[i] # Absent => index'[i].type = GeneratedTarget,
         IsRecord(i)' =>
           \/ IsRecord(i)
           \/ op[p].name = "upsert_new" /\ \A q \in Procs \ {p} : op[q].id # i
  PROVE  RecordsInv'
  <1>1. RowsOfRecords'
    BY DEF RecordsInv, RowsOfRecords, IsRecord
  <1>2. RulesInProgress'
    <2>1. ASSUME NEW q \in Procs, op'[q].name \in {"create", "update"},
                 NEW j, j = op'[q].id
          PROVE  ~IsRecord(j)'
      <3>1. op'[q].name = op[q].name /\ j = op[q].id
        BY <2>1
      <3>2. j \in Ids /\ ~IsRecord(j)
        BY <2>1, <3>1, InProgressTyped DEF RecordsInv, RulesInProgress
      <3>3. CASE j = i
        BY <2>1, <3>1, <3>2, <3>3
      <3>4. CASE j # i
        BY <3>2, <3>4 DEF IsRecord
      <3> QED
        BY <3>3, <3>4
    <2> QED
      BY <2>1 DEF RulesInProgress, IsRecord
  <1>3. FreshInProgress'
    <2> SUFFICES ASSUME NEW q \in Procs, Creating(q)'
                 PROVE  /\ disk'[op'[q].id] = Absent /\ index'[op'[q].id] = Absent
                        /\ op'[q].name = "create" => op'[q].seen.type = RuleEntry
                        /\ \A r \in Procs \ {q} : op'[r].id # op'[q].id
      BY DEF FreshInProgress
    <2>1. q # p /\ op'[q] = op[q] /\ Creating(q)
      BY DEF Creating
    <2>2. op[q].id \in Ids
      BY <2>1, InProgressTyped DEF RecordsInv, Creating
    <2>3. \A r \in Procs : op'[r].id = op[r].id
      OBVIOUS
    <2>4. /\ disk[op[q].id] = Absent /\ index[op[q].id] = Absent
          /\ op[q].name = "create" => op[q].seen.type = RuleEntry
          /\ \A r \in Procs \ {q} : op[r].id # op[q].id
      BY <2>1 DEF RecordsInv, FreshInProgress
    <2> QED
      BY <2>1, <2>2, <2>3, <2>4
  <1>4. OpenInProgress'
    BY DEF RecordsInv, OpenInProgress
  <1> QED
    BY <1>1, <1>2, <1>3, <1>4 DEF RecordsInv

\* What a step that goes on leaves alone.
LEMMA GotoKeeps ==
  ASSUME TypeInv, NEW p \in Procs, NEW s \in Steps, Goto(p, s)
  PROVE  /\ op'[p].name = op[p].name /\ op'[p].id = op[p].id /\ op'[p].step = s
         /\ \A q \in Procs \ {p} : op'[q] = op[q]
  BY DEF Goto, TypeInv, TypeOK, Op

LEMMA OpenRecords ==
  ASSUME RecordsInv, TypeInv', NEW p \in Procs, Open(p) \/ OpenOrInit(p) \/ Close(p)
  PROVE  RecordsInv'
  <1>1. CASE Open(p)
    <2>1. op' = op /\ disk' = disk
      BY <1>1 DEF Open, Opened
    <2>2. \A i \in Ids : \/ index'[i] = index[i]
                         \/ (index'[i] = Absent /\ disk[i] = Absent)
                         \/ (index'[i] = RowOf(disk[i]) /\ disk[i] # Absent)
      BY <1>1 DEF Open, Opened, ScannedIndex, Pruned
    <2>3. RowsOfRecords'
      <3>1. ASSUME NEW i \in Ids, IsRecord(i)', index'[i] # Absent
            PROVE  index'[i].type = GeneratedTarget
        <4>1. IsRecord(i)
          BY <2>1, <3>1 DEF IsRecord
        <4> QED
          BY <2>2, <3>1, <4>1, RecordRow DEF RecordsInv, RowsOfRecords
      <3> QED
        BY <3>1 DEF RowsOfRecords
    <2>4. FreshInProgress'
      <3>1. \A q \in Procs : Creating(q) => op[q].id \in Ids
        BY InProgressTyped DEF RecordsInv, Creating
      <3> QED
        BY <2>1, <2>2, <3>1 DEF RecordsInv, FreshInProgress, Creating
    <2>5. RulesInProgress' /\ OpenInProgress'
      BY <1>1, <2>1 DEF Open, Opened, RecordsInv, TypeInv, TypeOK,
                        RulesInProgress, OpenInProgress, IsRecord
    <2> QED
      BY <2>3, <2>4, <2>5 DEF RecordsInv
  <1>2. CASE OpenOrInit(p)
    <2> DEFINE o == [NoOp EXCEPT !.name = "init", !.step = "inner"]
    <2>1. \A q \in Procs : op'[q] = IF q = p THEN o ELSE op[q]
      BY <1>2 DEF OpenOrInit, RecordsInv, TypeInv, TypeOK
    <2>2. o.name = "init" /\ o.id = Absent /\ o.step = "inner"
      BY DEF NoOp
    <2>3. UNCHANGED <<disk, index>> /\ handle' = [handle EXCEPT ![p] = "open"]
      BY <1>2 DEF OpenOrInit
    <2> HIDE DEF o
    <2>4. RowsOfRecords' /\ RulesInProgress'
      BY <2>1, <2>2, <2>3 DEF RecordsInv, RowsOfRecords, RulesInProgress, IsRecord
    <2>6. OpenInProgress'
      BY <2>1, <2>3 DEF RecordsInv, TypeInv, TypeOK, OpenInProgress
    <2>5. FreshInProgress'
      <3>1. \A q \in Procs : Creating(q) => op[q].id # Absent
        BY InProgressTyped, AbsentAssumption DEF RecordsInv, Creating
      <3> QED
        BY <2>1, <2>2, <2>3, <3>1 DEF RecordsInv, FreshInProgress, Creating
    <2> QED
      BY <2>4, <2>5, <2>6 DEF RecordsInv
  <1>3. CASE Close(p)
    BY <1>3 DEF Close, Ready, RecordsInv, TypeInv, TypeOK, RowsOfRecords,
                RulesInProgress, FreshInProgress, OpenInProgress, IsRecord, Creating
  <1> QED
    BY <1>1, <1>2, <1>3

LEMMA CallRecords ==
  ASSUME UpdateTypes \subseteq {RuleEntry},
         RecordsInv, TypeInv', NEW p \in Procs, Call(p)
  PROVE  RecordsInv'
  <1>1. CASE Reindex(p)
    BY <1>1, BeginRecords DEF Reindex
  <1>2. ASSUME NEW i \in Ids, NEW s \in Slugs, NEW b \in Bodies, Create(p, i, s, b)
        PROVE  RecordsInv'
    <2> DEFINE m == [type |-> RuleEntry, slug |-> s, state |-> "draft", body |-> b]
    <2>1. m.type = RuleEntry
      OBVIOUS
    <2>2. Ready(p) /\ Fresh(i) /\ Begin(p, "create", "folder", i, NoPatch, m, slugIndex[p])
      BY <1>2 DEF Create
    <2> HIDE DEF m
    <2> QED
      BY <2>1, <2>2, CreateRecords
  <1>3. ASSUME NEW i \in Ids, NEW s \in Slugs, NEW b \in Bodies, UpsertNew(p, i, s, b)
        PROVE  RecordsInv'
    BY <1>3, CreateRecords DEF UpsertNew
  <1>4. ASSUME NEW i \in Ids, NEW patch \in Patches, Update(p, i, patch)
        PROVE  RecordsInv'
    <2>1. i \in Indexed /\ index[i].type = RuleEntry
      BY <1>4 DEF Update, Updatable
    <2>2. ~IsRecord(i)
      BY <2>1 DEF RecordsInv, RowsOfRecords, Indexed, RuleEntry, GeneratedTarget
    <2>3. Ready(p) /\ Begin(p, "update", "manifest", i, patch, Absent, PatchedSlugs(p, i, patch))
      BY <1>4 DEF Update, Updatable
    <2> QED
      BY <2>1, <2>2, <2>3, BeginRecords
  <1>5. ASSUME NEW i \in Ids, NEW patch \in Patches, UpdateRejected(p, i, patch)
        PROVE  RecordsInv'
    BY <1>5, ReleaseRecords, InputAssumption DEF UpdateRejected
  <1>6. ASSUME NEW i \in Ids, NEW b \in Bodies, UpdateBody(p, i, b)
        PROVE  RecordsInv'
    BY <1>6, BeginRecords DEF UpdateBody
  <1>7. ASSUME NEW s \in GenSlugs, NEW b \in Bodies, UpsertExisting(p, s, b)
        PROVE  RecordsInv'
    BY <1>7, BeginRecords DEF UpsertExisting
  <1>8. ASSUME NEW i \in Ids, Delete(p, i)
        PROVE  RecordsInv'
    BY <1>8, BeginRecords DEF Delete
  <1> QED
    BY <1>1, <1>2, <1>3, <1>4, <1>5, <1>6, <1>7, <1>8 DEF Call

LEMMA StepRecords ==
  ASSUME RecordsInv, TypeInv', NEW p \in Procs, Step(p)
  PROVE  RecordsInv'
  <1> USE DEF At
  <1>0. op[p] \in Op /\ OpShape(op[p]) /\ OneShot \in BOOLEAN
    BY InProgressTyped, InputAssumption DEF RecordsInv
  <1>1. CASE InnerScan(p)
    <2>1. /\ op'[p].name = op[p].name /\ op'[p].id = op[p].id /\ op'[p].step = "bodies"
          /\ \A q \in Procs \ {p} : op'[q] = op[q]
      BY <1>1, GotoKeeps DEF InnerScan, RecordsInv, Steps
    <2>2. /\ UNCHANGED <<disk, handle>>
          /\ \A i \in Ids : index'[i] = IF disk[i] = Absent THEN Absent ELSE RowOf(disk[i])
      BY <1>1 DEF InnerScan
    <2>3. RowsOfRecords'
      <3>1. ASSUME NEW i \in Ids, IsRecord(i)', index'[i] # Absent
            PROVE  index'[i].type = GeneratedTarget
        <4>1. IsRecord(i)
          BY <2>2, <3>1 DEF IsRecord
        <4> QED
          BY <2>2, <3>1, <4>1, RecordRow
      <3> QED
        BY <3>1 DEF RowsOfRecords
    <2>4. FreshInProgress'
      <3>1. \A q \in Procs : Creating(q) => op[q].id \in Ids
        BY InProgressTyped DEF RecordsInv, Creating
      <3>2. \A q \in Procs : Creating(q)' => Creating(q) /\ op'[q] = op[q]
        BY <2>1 DEF Creating
      <3>3. \A q \in Procs : op'[q].id = op[q].id
        BY <2>1
      <3> QED
        BY <2>2, <3>1, <3>2, <3>3 DEF RecordsInv, FreshInProgress
    <2>5. RulesInProgress' /\ OpenInProgress'
      BY <2>1, <2>2 DEF RecordsInv, RulesInProgress, OpenInProgress, IsRecord
    <2> QED
      BY <2>3, <2>4, <2>5 DEF RecordsInv
  <1>2. CASE ReindexBodies(p)
    <2>1. PICK t \in SlugTables(Indexed) :
            Release(p, t, OneShot /\ op[p].name = "reindex")
      BY <1>2 DEF ReindexBodies
    <2> QED
      BY <1>0, <1>2, <2>1, ReleaseRecords DEF ReindexBodies
  <1>3. CASE WriteFolder(p)
    <2>1. PICK i \in Ids : op[p].id = i /\ Creating(p)
      BY <1>0, <1>3 DEF WriteFolder, OpShape, Creating
    <2>2. /\ index[i] = Absent /\ \A q \in Procs \ {p} : op[q].id # i
          /\ op[p].name = "create" => op[p].seen.type = RuleEntry
      BY <2>1 DEF RecordsInv, FreshInProgress
    <2>3. /\ op'[p].name = op[p].name /\ op'[p].id = i /\ op'[p].step = "row"
          /\ \A q \in Procs \ {p} : op'[q] = op[q]
      BY <1>3, <2>1, GotoKeeps DEF WriteFolder, RecordsInv, Steps
    <2>4. /\ index' = index /\ handle' = handle
          /\ disk'[i] = op[p].seen /\ \A j \in Ids \ {i} : disk'[j] = disk[j]
      BY <1>3, <2>1 DEF WriteFolder, RecordsInv, TypeInv, TypeOK
    <2>5. IsRecord(i)' => op[p].name = "upsert_new"
      BY <1>3, <2>2, <2>4 DEF WriteFolder, IsRecord, RuleEntry, GeneratedTarget
    <2> QED
      BY <1>3, <2>1, <2>2, <2>3, <2>4, <2>5, OwnEntityRecords DEF WriteFolder
  <1>4. ASSUME WriteManifest(p) \/ WriteTargetManifest(p) \/ WriteBody(p)
        PROVE  RecordsInv'
    <2>1. PICK i \in Ids : op[p].id = i /\ disk[i] \in Manifest
      BY <1>0, <1>4 DEF WriteManifest, WriteTargetManifest, WriteBody, OpShape,
                        RecordsInv, TypeInv, TypeOK
    <2>2. /\ op'[p].name = op[p].name /\ op'[p].id = i /\ op'[p].step # "folder"
          /\ \A q \in Procs \ {p} : op'[q] = op[q]
      BY <1>0, <1>4, <2>1 DEF WriteManifest, WriteTargetManifest, WriteBody, Goto, Op,
                        RecordsInv, TypeInv, TypeOK
    <2>3. /\ index' = index /\ handle' = handle
          /\ disk[i] # Absent /\ op[p].name # "none"
      BY <1>4, <2>1 DEF WriteManifest, WriteTargetManifest, WriteBody
    <2>4. disk'[i].type = disk[i].type /\ \A j \in Ids \ {i} : disk'[j] = disk[j]
      <3>1. CASE WriteManifest(p)
        BY <2>1, <3>1 DEF WriteManifest, Patched, Manifest, RecordsInv, TypeInv, TypeOK
      <3>2. CASE WriteTargetManifest(p)
        BY <2>1, <3>2 DEF WriteTargetManifest, Manifest, RecordsInv, TypeInv, TypeOK
      <3>3. CASE WriteBody(p)
        BY <2>1, <3>3 DEF WriteBody, Manifest, RecordsInv, TypeInv, TypeOK
      <3> QED
        BY <1>4, <3>1, <3>2, <3>3
    <2>5. IsRecord(i)' => IsRecord(i)
      BY <2>3, <2>4 DEF IsRecord
    <2>6. IsRecord(i)' /\ index'[i] # Absent => index'[i].type = GeneratedTarget
      BY <2>1, <2>3, <2>5 DEF RecordsInv, RowsOfRecords
    <2> QED
      BY <2>1, <2>2, <2>3, <2>4, <2>5, <2>6, OwnEntityRecords
  <1>5. CASE WriteRow(p)
    <2>1. PICK i \in Ids : op[p].id = i
      BY <1>0, <1>5 DEF WriteRow, OpShape
    <2>2. /\ op'[p].name = op[p].name /\ op'[p].id = i /\ op'[p].step = "doc"
          /\ \A q \in Procs \ {p} : op'[q] = op[q]
      BY <1>5, <2>1, GotoKeeps DEF WriteRow, RecordsInv, Steps
    <2>3. /\ disk' = disk /\ handle' = handle
          /\ index'[i].type = WrittenType(p)
          /\ \A j \in Ids \ {i} : index'[j] = index[j]
      BY <1>5, <2>1 DEF WriteRow, RecordsInv, TypeInv, TypeOK
    <2>4. IsRecord(i)' => IsRecord(i)
      BY <2>3 DEF IsRecord
    <2>5. IsRecord(i)' => index'[i].type = GeneratedTarget
      BY <1>5, <2>1, <2>3, <2>4 DEF WriteRow, WrittenType, RecordsInv, RulesInProgress
    <2> QED
      BY <1>5, <2>1, <2>2, <2>3, <2>4, <2>5, OwnEntityRecords DEF WriteRow
  <1>6. CASE WriteDoc(p)
    BY <1>0, <1>6, ReleaseRecords DEF WriteDoc
  <1>7. ASSUME RemoveFolder(p) \/ RemoveRow(p)
        PROVE  RecordsInv'
    <2>1. PICK i \in Ids : op[p].id = i
      BY <1>0, <1>7 DEF RemoveFolder, RemoveRow, OpShape
    <2>2. /\ op'[p].name = op[p].name /\ op'[p].id = i /\ op'[p].step # "folder"
          /\ \A q \in Procs \ {p} : op'[q] = op[q]
      BY <1>7, <2>1, GotoKeeps DEF RemoveFolder, RemoveRow, RecordsInv, Steps
    <2>3. /\ handle' = handle /\ op[p].name # "none"
          /\ \A j \in Ids \ {i} : disk'[j] = disk[j] /\ index'[j] = index[j]
          /\ disk'[i] \in {disk[i], Absent} /\ index'[i] \in {index[i], Absent}
      BY <1>7, <2>1 DEF RemoveFolder, RemoveRow, RecordsInv, TypeInv, TypeOK
    <2>4. IsRecord(i)' => IsRecord(i)
      BY <2>3 DEF IsRecord
    <2>5. IsRecord(i)' /\ index'[i] # Absent => index'[i].type = GeneratedTarget
      BY <2>1, <2>3, <2>4 DEF RecordsInv, RowsOfRecords
    <2> QED
      BY <2>1, <2>2, <2>3, <2>4, <2>5, OwnEntityRecords
  <1>8. CASE RemoveDoc(p)
    BY <1>0, <1>8, ReleaseRecords DEF RemoveDoc
  <1> QED
    BY <1>1, <1>2, <1>3, <1>4, <1>5, <1>6, <1>7, <1>8 DEF Step

LEMMA FaultRecords ==
  ASSUME RecordsInv, TypeInv', NEW p \in Procs, Fail(p) \/ FolderGone(p) \/ Crash(p)
  PROVE  RecordsInv'
  <1>1. CASE Return(p)
    <2>1. (OneShot \/ op[p].name = "init") \in BOOLEAN
      BY InputAssumption
    <2> QED
      BY <1>1, <2>1, ReleaseRecords DEF Return
  <1>2. CASE Crash(p)
    <2>1. Release(p, NoSlugs, TRUE)
      BY <1>2 DEF Crash, Release
    <2> QED
      BY <1>2, <2>1, ReleaseRecords DEF Crash
  <1> QED
    BY <1>1, <1>2 DEF Fail, FolderGone

LEMMA EnvironmentRecords ==
  ASSUME RecordsInv, TypeInv', Environment
  PROVE  RecordsInv'
  <1>1. Outside \/ DerivedLost
    BY DEF Environment, ExternalWrite, ExternalRemove
  <1>2. \A p \in Procs : op[p].name = "none" /\ op'[p].name = "none"
    BY <1>1 DEF Outside, DerivedLost, RecordsInv, OpenInProgress
  <1>3. RowsOfRecords'
    <2>1. ASSUME NEW i \in Ids, NEW m \in Manifest, ExternalWrite(i, m)
          PROVE  RowsOfRecords'
      BY <2>1 DEF ExternalWrite, RecordsInv, TypeInv, TypeOK, RowsOfRecords,
                  IsRecord, RuleEntry, GeneratedTarget
    <2>2. ASSUME NEW i \in Ids, ExternalRemove(i)
          PROVE  RowsOfRecords'
      BY <2>2 DEF ExternalRemove, RecordsInv, TypeInv, TypeOK, RowsOfRecords, IsRecord
    <2>3. CASE DerivedLost
      BY <2>3 DEF DerivedLost, RowsOfRecords
    <2> QED
      BY <2>1, <2>2, <2>3 DEF Environment
  <1> QED
    BY <1>2, <1>3 DEF RecordsInv, RulesInProgress, FreshInProgress, OpenInProgress, Creating

LEMMA NextRecords ==
  ASSUME UpdateTypes \subseteq {RuleEntry}
  PROVE  RecordsInv /\ [Next]_vars => RecordsInv'
  <1> SUFFICES ASSUME RecordsInv, [Next]_vars PROVE RecordsInv'
    OBVIOUS
  <1>1. TypeInv'
    BY NextTyped DEF RecordsInv
  <1>2. CASE UNCHANGED vars
    BY <1>1, <1>2 DEF vars, RecordsInv, RowsOfRecords, RulesInProgress,
                      FreshInProgress, OpenInProgress, IsRecord, Creating
  <1>3. CASE Next
    BY <1>1, <1>3, OpenRecords, CallRecords, StepRecords, FaultRecords,
       EnvironmentRecords DEF Next
  <1> QED
    BY <1>2, <1>3

(* Where update is applied to rule entries only, a generated-target record on
   disk is one in the index whatever processes do next to each other and
   whatever fails: the listing sync-targets works from misses no record that
   has a row.  (The code does not check the type: update of a record rewrites
   its row as a rule entry's.) *)
THEOREM RecordsStay ==
  ASSUME UpdateTypes \subseteq {RuleEntry}
  PROVE  Spec => []RecordsStayRecords
  <1>1. RecordsInv => RecordsStayRecords
    BY DEF RecordsInv, RowsOfRecords, IsRecord, RecordsStayRecords, OnDisk, Indexed
  <1>2. RecordsInv /\ [Next]_vars => RecordsInv'
    BY NextRecords
  <1> QED
    BY <1>1, <1>2, InitRecords, PTL DEF Spec

-----------------------------------------------------------------------------
(***************************************************************************)
(* The derived state agrees with the folders.  DerivedAgrees speaks of the *)
(* moments without an operation in progress, so it is not inductive: the   *)
(* invariant says, for every step an operation can be at, which of the     *)
(* four places it has already changed (Knows, RowDue, DocDue) and that     *)
(* what it holds in memory is what the folder says (HandOK).  Everything   *)
(* else is in line, because an operation in an undisturbed store is alone. *)
(***************************************************************************)
\* In the table of p, the slug s is the one of i: as the folder has it, except
\* that create enters its slug last, delete removes it first, and an update
\* enters the new one before it writes the manifest.
Knows(p, i, s) ==
  IF op[p].id = i /\ op[p].name \in {"create", "upsert_new", "delete"} THEN FALSE
  ELSE IF op[p].id = i /\ At(p, {"update"}, "manifest") /\ op[p].patch.slug # Keep
  THEN s = op[p].patch.slug
  ELSE disk[i] # Absent /\ disk[i].slug = s

TableOK(p) == \A s \in Slugs, i \in Ids : slugIndex[p][s] = i <=> Knows(p, i, s)

\* The operation of p has changed the folder and not yet written the row, or
\* the document.
RowDue(p) == op[p].step = "row" \/ At(p, {"update"}, "body")
DocDue(p) == RowDue(p) \/ op[p].step = "doc"

\* What an operation in progress works from is what the folder says.
HandOK(p) ==
  LET o == op[p]  i == op[p].id IN
  /\ o.step = "inner" => o.name \in {"reindex", "init"}
  /\ o.name \in {"create", "upsert_new"} => slugIndex[p][o.seen.slug] = Absent
  /\ o.step = "folder" /\ o.name # "delete" => o.seen.type = WrittenType(p)
  /\ o.step = "manifest" =>
       /\ index[i] # Absent /\ index[i].type = WrittenType(p)
       /\ o.name = "update" /\ o.patch.state # Keep =>
            <<index[i].state, o.patch.state>> \in Transitions
  /\ o.step \in {"body", "row", "doc"} /\ o.name # "delete" =>
       /\ disk[i] # Absent
       /\ disk[i].type = WrittenType(p) /\ disk[i].state = o.seen.state
       /\ o.name \in {"create", "upsert_new", "upsert_existing"} => disk[i].body = o.seen.body
       /\ o.name \in {"create", "upsert_new"} => disk[i].slug = o.seen.slug
       /\ o.name = "update_body" /\ o.step = "doc" => disk[i].body = o.patch.body
  /\ o.name = "delete" /\ o.step \in {"row", "doc"} => disk[i] = Absent

\* While nothing disturbs the store, only the entity in hand is out of line.
Consistent ==
  /\ UniqueOnDisk
  /\ \A i \in Ids : IndexAgrees(i) \/ \E p \in Procs : op[p].id = i /\ RowDue(p)
  /\ \A i \in Ids : SearchAgrees(i) \/ \E p \in Procs : op[p].id = i /\ DocDue(p)
  /\ \A p \in Procs : handle[p] = "open" => TableOK(p)
  /\ \A p \in Procs : op[p].name # "none" => HandOK(p)

Solo == \A p \in Procs : op[p].name # "none" => Alone(p)

CleanInv ==
  /\ derived # "dirty" => Solo
  /\ derived = "clean" => Consistent
  /\ derived = "repairing" =>
       /\ \E p \in Procs : At(p, {"reindex", "init"}, "bodies")
       /\ \A i \in Ids : IndexAgrees(i)

RecordsActive ==
  /\ \A i \in OnDisk : disk[i].type = GeneratedTarget => disk[i].state = "active"
  /\ \A p \in Procs : At(p, {"upsert_new"}, "folder") => op[p].seen.state = "active"

-----------------------------------------------------------------------------
(***************************************************************************)
(* While the store is not disturbed, an operation in progress is alone.    *)
(***************************************************************************)
LEMMA Lone ==
  ASSUME RecordsInv, CleanInv, derived # "dirty", NEW p \in Procs, op[p].name # "none"
  PROVE  /\ handle[p] = "open"
         /\ \A q \in Procs \ {p} :
              handle[q] = "closed" /\ op[q].name = "none" /\ op[q].step = "idle"
  <1>1. handle[p] = "open" /\ \A q \in Procs \ {p} : handle[q] = "closed"
    BY DEF RecordsInv, OpenInProgress, CleanInv, Solo, Alone
  <1>2. \A q \in Procs : op[q].name # "none" => handle[q] = "open"
    BY DEF RecordsInv, OpenInProgress
  <1>3. \A q \in Procs : op[q].name = "none" <=> op[q].step = "idle"
    BY DEF RecordsInv, TypeInv, OpShape
  <1> QED
    BY <1>1, <1>2, <1>3

\* What Consistent says of the one operation in progress and its entity.
LEMMA SoundFacts ==
  ASSUME RecordsInv, CleanInv, derived = "clean", NEW p \in Procs, op[p].name # "none",
         NEW i, i = op[p].id
  PROVE  /\ UniqueOnDisk /\ TableOK(p) /\ HandOK(p)
         /\ \A j \in Ids : j # i \/ ~RowDue(p) => IndexAgrees(j)
         /\ \A j \in Ids : j # i \/ ~DocDue(p) => SearchAgrees(j)
  <1>1. Consistent /\ derived # "dirty"
    BY DEF CleanInv
  <1>2. handle[p] = "open" /\ \A q \in Procs \ {p} : op[q].step = "idle"
    BY <1>1, Lone
  <1>3. \A q \in Procs \ {p} : ~RowDue(q) /\ ~DocDue(q)
    BY <1>2 DEF RowDue, DocDue, At
  <1> QED
    BY <1>1, <1>2, <1>3 DEF Consistent

\* Consistent after a step that one process took while the others were closed.
LEMMA SoundAgain ==
  ASSUME NEW p \in Procs,
         \A q \in Procs \ {p} : op'[q].name = "none" /\ handle'[q] = "closed",
         UniqueOnDisk', handle'[p] = "open" => TableOK(p)',
         op'[p].name # "none" => HandOK(p)',
         \A j \in Ids : IndexAgrees(j)' \/ (op'[p].id = j /\ RowDue(p)'),
         \A j \in Ids : SearchAgrees(j)' \/ (op'[p].id = j /\ DocDue(p)')
  PROVE  Consistent' /\ Solo'
  <1>1. \A q \in Procs : handle'[q] = "open" => TableOK(q)'
    <2>1. ASSUME NEW q \in Procs, handle'[q] = "open" PROVE q = p
      BY <2>1
    <2> QED
      BY <2>1
  <1>2. \A q \in Procs : op'[q].name # "none" => HandOK(q)'
    <2>1. ASSUME NEW q \in Procs, op'[q].name # "none" PROVE q = p
      BY <2>1
    <2> QED
      BY <2>1
  <1>3. Solo'
    BY DEF Solo, Alone
  <1> QED
    BY <1>1, <1>2, <1>3 DEF Consistent

\* A table that knows the slug of every folder knows no slug twice.
LEMMA UniqueByTable ==
  ASSUME TypeInv, NEW p \in Procs, TableOK(p),
         \A i \in OnDisk : Knows(p, i, disk[i].slug)
  PROVE  UniqueOnDisk
  <1>1. \A i \in OnDisk : disk[i].slug \in Slugs
    BY DEF OnDisk, TypeInv, TypeOK, Manifest
  <1> QED
    BY <1>1 DEF UniqueOnDisk, TableOK, OnDisk

LEMMA GotoFields ==
  ASSUME TypeInv, NEW p \in Procs, NEW s \in Steps, Goto(p, s)
  PROVE  /\ op'[p].name = op[p].name /\ op'[p].id = op[p].id /\ op'[p].step = s
         /\ op'[p].patch = op[p].patch /\ op'[p].seen = op[p].seen
         /\ \A q \in Procs \ {p} : op'[q] = op[q]
  BY DEF Goto, TypeInv, TypeOK, Op

\* The types of what a process works with.
LEMMA OpTyped ==
  ASSUME TypeInv, NEW p \in Procs
  PROVE  /\ op[p] \in Op /\ OpShape(op[p])
         /\ op[p].patch \in Patch /\ op[p].seen \in Manifest \cup {Absent}
         /\ op[p].id \in Ids \cup {Absent}
         /\ op[p].name \notin {"none", "init", "reindex"} => op[p].id \in Ids
         /\ \A s \in Slugs : slugIndex[p][s] \in Ids \cup {Absent}
         /\ \A i \in Ids : disk[i] # Absent => disk[i] \in Manifest
  <1>1. op[p] \in Op /\ OpShape(op[p]) /\ slugIndex[p] \in [Slugs -> Ids \cup {Absent}]
    BY DEF TypeInv, TypeOK
  <1>2. op[p].patch \in Patch /\ op[p].seen \in Manifest \cup {Absent} /\ op[p].id \in Ids \cup {Absent}
    BY <1>1 DEF Op
  <1>3. op[p].name \notin {"none", "init", "reindex"} => op[p].id \in Ids
    BY <1>1 DEF OpShape
  <1> QED
    BY <1>1, <1>2, <1>3 DEF TypeInv, TypeOK

\* Records of different kinds are no Absent.
LEMMA NotAbsent ==
  /\ Absent \notin Manifest
  /\ \A m \in Manifest : RowOf(m) # Absent /\ DocOf(m) # Absent
  BY AbsentAssumption DEF Manifest, RowOf, DocOf

\* What the folders are is in the table of a process between two operations.
LEMMA KnowsIdle ==
  ASSUME NEW p \in Procs, op[p].name = "none", NEW i, NEW s
  PROVE  Knows(p, i, s) <=> disk[i] # Absent /\ disk[i].slug = s
  BY DEF Knows, At

\* Consistent after a write of the one operation in progress, to its own entity.
LEMMA OnwardSound ==
  ASSUME RecordsInv, CleanInv, derived = "clean", NEW p \in Procs, op[p].name # "none",
         NEW i, i = op[p].id, op'[p].id = i,
         \A q \in Procs \ {p} : op'[q] = op[q], handle' = handle,
         \A j \in Ids \ {i} :
           disk'[j] = disk[j] /\ index'[j] = index[j] /\ search'[j] = search[j],
         UniqueOnDisk', TableOK(p)', HandOK(p)',
         i \in Ids => IndexAgrees(i)' \/ RowDue(p)',
         i \in Ids => SearchAgrees(i)' \/ DocDue(p)'
  PROVE  Consistent' /\ Solo'
  <1>1. \A q \in Procs \ {p} : op'[q].name = "none" /\ handle'[q] = "closed"
    BY Lone
  <1>2. \A j \in Ids \ {i} : IndexAgrees(j) /\ SearchAgrees(j)
    BY SoundFacts
  <1>3. \A j \in Ids \ {i} : IndexAgrees(j)' /\ SearchAgrees(j)'
    BY <1>2 DEF IndexAgrees, SearchAgrees
  <1>4. \A j \in Ids : IndexAgrees(j)' \/ (op'[p].id = j /\ RowDue(p)')
    BY <1>3
  <1>5. \A j \in Ids : SearchAgrees(j)' \/ (op'[p].id = j /\ DocDue(p)')
    BY <1>3
  <1> QED
    BY <1>1, <1>4, <1>5, SoundAgain

\* Consistent after the end of an operation that has nothing left to write.
LEMMA EndSound ==
  ASSUME RecordsInv, CleanInv, derived = "clean", NEW p \in Procs, op[p].name # "none",
         NEW i, i = op[p].id, NEW table, NEW closing \in BOOLEAN, Release(p, table, closing),
         disk' = disk,
         \A j \in Ids \ {i} : index'[j] = index[j] /\ search'[j] = search[j],
         i \in Ids => IndexAgrees(i)' /\ SearchAgrees(i)',
         ~closing => \A s \in Slugs, j \in Ids :
                       table[s] = j <=> disk[j] # Absent /\ disk[j].slug = s
  PROVE  Consistent' /\ Solo'
  <1>1. \A q \in Procs \ {p} : op[q].name = "none" /\ handle[q] = "closed"
    BY Lone
  <1>2. /\ op'[p] = NoOp /\ \A q \in Procs \ {p} : op'[q] = op[q] /\ handle'[q] = handle[q]
        /\ closing => handle'[p] = "closed"
        /\ ~closing => slugIndex'[p] = table
    BY DEF Release, RecordsInv, TypeInv, TypeOK
  <1>3. op'[p].name = "none"
    BY <1>2 DEF NoOp
  <1>4. \A j \in Ids \ {i} : IndexAgrees(j) /\ SearchAgrees(j)
    BY SoundFacts
  <1>5. \A j \in Ids : IndexAgrees(j)' /\ SearchAgrees(j)'
    BY <1>4 DEF IndexAgrees, SearchAgrees
  <1>6. UniqueOnDisk'
    BY SoundFacts DEF UniqueOnDisk, OnDisk
  <1>7. ASSUME handle'[p] = "open" PROVE TableOK(p)'
    <2>1. ~closing
      BY <1>2, <1>7
    <2>2. \A j, s : Knows(p, j, s)' <=> disk'[j] # Absent /\ disk'[j].slug = s
      BY <1>3 DEF Knows, At
    <2> QED
      BY <1>2, <2>1, <2>2 DEF TableOK
  <1> QED
    BY <1>1, <1>2, <1>3, <1>5, <1>6, <1>7, SoundAgain

\* Folders, rows and documents stay, and so does what the others hold.
LEMMA SoundStays ==
  ASSUME RecordsInv, CleanInv, derived = "clean", NEW p \in Procs, ~DocDue(p),
         UNCHANGED <<disk, index, search>>,
         \A q \in Procs \ {p} :
           op'[q] = op[q] /\ handle'[q] = handle[q] /\ slugIndex'[q] = slugIndex[q],
         handle'[p] = "open" => TableOK(p)', op'[p].name # "none" => HandOK(p)'
  PROVE  Consistent'
  <1>0. Consistent
    BY DEF CleanInv
  <1>1. ~RowDue(p)
    BY DEF DocDue
  <1>2. \A q \in Procs \ {p} :
          (RowDue(q) => RowDue(q)') /\ (DocDue(q) => DocDue(q)') /\ op'[q].id = op[q].id
    BY DEF RowDue, DocDue, At
  <1>3. UniqueOnDisk'
    BY <1>0 DEF Consistent, UniqueOnDisk, OnDisk
  <1>4. \A i \in Ids : IndexAgrees(i)' \/ \E q \in Procs : op'[q].id = i /\ RowDue(q)'
    <2>1. \A i \in Ids : IndexAgrees(i)' <=> IndexAgrees(i)
      BY DEF IndexAgrees
    <2> QED
      BY <1>0, <1>1, <1>2, <2>1 DEF Consistent
  <1>5. \A i \in Ids : SearchAgrees(i)' \/ \E q \in Procs : op'[q].id = i /\ DocDue(q)'
    <2>1. \A i \in Ids : SearchAgrees(i)' <=> SearchAgrees(i)
      BY DEF SearchAgrees
    <2> QED
      BY <1>0, <1>2, <2>1 DEF Consistent
  <1>6. \A q \in Procs : handle'[q] = "open" => TableOK(q)'
    <2>1. ASSUME NEW q \in Procs \ {p}, handle'[q] = "open" PROVE TableOK(q)'
      <3>1. TableOK(q)
        BY <1>0, <2>1 DEF Consistent
      <3>2. \A j, s : Knows(q, j, s)' <=> Knows(q, j, s)
        BY <2>1 DEF Knows, At
      <3> QED
        BY <2>1, <3>1, <3>2 DEF TableOK
    <2> QED
      BY <2>1
  <1>7. \A q \in Procs : op'[q].name # "none" => HandOK(q)'
    <2>1. ASSUME NEW q \in Procs \ {p}, op'[q].name # "none" PROVE HandOK(q)'
      <3>1. HandOK(q)
        BY <1>0, <2>1 DEF Consistent
      <3>2. WrittenType(q)' = WrittenType(q)
        BY <2>1 DEF WrittenType
      <3> QED
        BY <2>1, <3>1, <3>2 DEF HandOK
    <2> QED
      BY <2>1
  <1> QED
    BY <1>3, <1>4, <1>5, <1>6, <1>7 DEF Consistent

\* A call next to no other open process takes up a sound operation.
LEMMA BeginSound ==
  ASSUME RecordsInv, CleanInv, derived = "clean", NEW p \in Procs, Ready(p),
         NEW name \in OpNames \ {"none"}, NEW step, NEW i, NEW patch, NEW seen, NEW table,
         Begin(p, name, step, i, patch, seen, table), Alone(p),
         TableOK(p)', HandOK(p)'
  PROVE  Consistent' /\ Solo'
  <1>1. /\ op'[p].name = name /\ \A q \in Procs \ {p} : op'[q] = op[q]
        /\ UNCHANGED <<disk, index, search, handle>>
        /\ \A q \in Procs \ {p} : slugIndex'[q] = slugIndex[q]
    BY DEF Begin, RecordsInv, TypeInv, TypeOK
  <1>2. op[p].step = "idle"
    BY DEF Ready, RecordsInv, TypeInv, OpShape
  <1>3. ~DocDue(p)
    BY <1>2 DEF DocDue, RowDue, At
  <1>4. Consistent'
    BY <1>1, <1>3, SoundStays
  <1>5. Solo'
    BY <1>1 DEF Solo, Alone, RecordsInv, OpenInProgress
  <1> QED
    BY <1>4, <1>5

\* What a call may take from its slug table: the folders' slugs.
LEMMA ReadyTable ==
  ASSUME CleanInv, derived = "clean", NEW p \in Procs, Ready(p)
  PROVE  /\ UniqueOnDisk
         /\ \A s \in Slugs, i \in Ids :
              slugIndex[p][s] = i <=> disk[i] # Absent /\ disk[i].slug = s
  <1>1. Consistent /\ handle[p] = "open" /\ op[p].name = "none"
    BY DEF CleanInv, Ready
  <1> QED
    BY <1>1, KnowsIdle DEF Consistent, TableOK

\* Between two operations nothing is out of line.
LEMMA QuietFacts ==
  ASSUME RecordsInv, CleanInv, derived = "clean", Busy = {}
  PROVE  \A i \in Ids : IndexAgrees(i) /\ SearchAgrees(i)
  <1>1. \A q \in Procs : op[q].step = "idle"
    BY DEF Busy, RecordsInv, TypeInv, OpShape
  <1>2. \A q \in Procs : ~RowDue(q) /\ ~DocDue(q)
    BY <1>1 DEF RowDue, DocDue, At
  <1> QED
    BY <1>2 DEF CleanInv, Consistent

LEMMA ReadyQuiet ==
  ASSUME RecordsInv, CleanInv, derived # "dirty", NEW p \in Procs, Ready(p)
  PROVE  Busy = {} /\ derived = "clean"
  <1>1. \A q \in Procs : op[q].name = "none"
    BY DEF Ready, CleanInv, Solo, Alone
  <1>2. derived # "repairing"
    BY <1>1 DEF CleanInv, At
  <1> QED
    BY <1>1, <1>2 DEF Busy, RecordsInv, TypeInv, TypeOK

\* What a call that begins an operation takes along.
LEMMA BeginFields ==
  ASSUME RecordsInv, NEW p \in Procs, NEW name, NEW step, NEW i, NEW patch, NEW seen,
         NEW table, Begin(p, name, step, i, patch, seen, table)
  PROVE  /\ op'[p].name = name /\ op'[p].step = step /\ op'[p].id = i
         /\ op'[p].patch = patch /\ op'[p].seen = seen
         /\ slugIndex'[p] = table /\ disk' = disk /\ index' = index
  BY DEF Begin, RecordsInv, TypeInv, TypeOK

LEMMA CreateSound ==
  ASSUME RecordsInv, CleanInv, derived = "clean", NEW p \in Procs, Ready(p), Alone(p),
         NEW name \in {"create", "upsert_new"}, NEW i \in Ids, Fresh(i),
         NEW seen \in Manifest, seen.type = (IF name = "create" THEN RuleEntry ELSE GeneratedTarget),
         slugIndex[p][seen.slug] = Absent,
         Begin(p, name, "folder", i, NoPatch, seen, slugIndex[p])
  PROVE  Consistent' /\ Solo'
  <1>1. /\ op'[p].name = name /\ op'[p].step = "folder" /\ op'[p].id = i
        /\ op'[p].seen = seen
        /\ slugIndex'[p] = slugIndex[p] /\ disk' = disk
    BY BeginFields
  <1>2. disk[i] = Absent
    BY DEF Fresh
  <1>3. \A j \in Ids, s \in Slugs : Knows(p, j, s)' <=> disk[j] # Absent /\ disk[j].slug = s
    BY <1>1, <1>2 DEF Knows, At
  <1>4. TableOK(p)'
    BY <1>1, <1>3, ReadyTable DEF TableOK
  <1>5. HandOK(p)'
    BY <1>1 DEF HandOK, WrittenType
  <1> QED
    BY <1>4, <1>5, BeginSound DEF OpNames

LEMMA UpdateSound ==
  ASSUME UpdateTypes \subseteq {RuleEntry},
         RecordsInv, CleanInv, derived = "clean", NEW p \in Procs, Alone(p),
         NEW i \in Ids, NEW patch \in Patches, Update(p, i, patch)
  PROVE  Consistent' /\ Solo'
  <1>1. PICK table : table = PatchedSlugs(p, i, patch)
    OBVIOUS
  <1>2. /\ Ready(p) /\ Begin(p, "update", "manifest", i, patch, Absent, table)
        /\ index[i] # Absent /\ index[i].type = RuleEntry
        /\ SlugAccepted(p, i, patch) /\ TransitionAllowed(i, patch)
    BY <1>1 DEF Update, Updatable, Indexed
  <1>3. /\ op'[p].name = "update" /\ op'[p].step = "manifest" /\ op'[p].id = i
        /\ op'[p].patch = patch /\ op'[p].seen = Absent
        /\ slugIndex'[p] = table /\ disk' = disk /\ index' = index
    BY <1>2, BeginFields
  <1>4. HandOK(p)'
    BY <1>2, <1>3 DEF HandOK, WrittenType, TransitionAllowed
  <1>5. /\ UniqueOnDisk
        /\ \A s \in Slugs, j \in Ids :
             slugIndex[p][s] = j <=> disk[j] # Absent /\ disk[j].slug = s
    BY <1>2, ReadyTable
  <1>6. TableOK(p)'
    <2>1. CASE patch.slug = Keep
      <3>1. \A s, j : Knows(p, j, s)' <=> disk[j] # Absent /\ disk[j].slug = s
        BY <1>3, <2>1 DEF Knows, At
      <3> QED
        BY <1>1, <1>3, <1>5, <2>1, <3>1 DEF TableOK, PatchedSlugs
    <2>2. CASE patch.slug # Keep
      <3>1. /\ slugIndex[p][patch.slug] \in {Absent, i} /\ disk[i] # Absent
            /\ patch.slug \in Slugs
        BY <1>2, <2>2, InputAssumption DEF SlugAccepted, Patch
      <3>2. \A s, j : Knows(p, j, s)' <=>
                        IF j = i THEN s = patch.slug
                        ELSE disk[j] # Absent /\ disk[j].slug = s
        BY <1>3, <2>2 DEF Knows, At
      <3>3. \A s \in Slugs : table[s] = IF s = patch.slug THEN i
                                        ELSE IF s = disk[i].slug THEN Absent
                                        ELSE slugIndex[p][s]
        BY <1>1, <2>2 DEF PatchedSlugs
      <3>4. ASSUME NEW s \in Slugs, NEW j \in Ids
            PROVE  table[s] = j <=> Knows(p, j, s)'
        <4>1. CASE s = patch.slug
          BY <1>5, <3>1, <3>2, <3>3, <4>1, AbsentAssumption
        <4>2. CASE s # patch.slug /\ s = disk[i].slug
          BY <1>5, <3>1, <3>2, <3>3, <4>2, AbsentAssumption
        <4>3. CASE s # patch.slug /\ s # disk[i].slug
          BY <1>5, <3>1, <3>2, <3>3, <4>3, AbsentAssumption
        <4> QED
          BY <4>1, <4>2, <4>3
      <3> QED
        BY <1>3, <3>4 DEF TableOK
    <2> QED
      BY <2>1, <2>2
  <1> QED
    BY <1>2, <1>4, <1>6, BeginSound DEF OpNames

\* The other calls.
LEMMA OtherCallSound ==
  ASSUME UpdateTypes \subseteq {RuleEntry},
         RecordsInv, CleanInv, derived = "clean", NEW p \in Procs, Alone(p),
         \/ Reindex(p)
         \/ \E i \in Ids, b \in Bodies : UpdateBody(p, i, b)
         \/ \E s \in GenSlugs, b \in Bodies : UpsertExisting(p, s, b)
         \/ \E i \in Ids : Delete(p, i)
  PROVE  Consistent' /\ Solo'
  <1>0. Ready(p)
    BY DEF Reindex, UpdateBody, UpsertExisting, Delete
  <1>1. /\ UniqueOnDisk
        /\ \A s \in Slugs, j \in Ids :
             slugIndex[p][s] = j <=> disk[j] # Absent /\ disk[j].slug = s
        /\ \A i \in Ids : IndexAgrees(i)
    BY <1>0, ReadyTable, ReadyQuiet, QuietFacts
  <1>2. CASE Reindex(p)
    <2>1. PICK table : table = slugIndex[p]
      OBVIOUS
    <2>2. Begin(p, "reindex", "inner", Absent, NoPatch, Absent, table)
      BY <1>2, <2>1 DEF Reindex
    <2>3. /\ op'[p].name = "reindex" /\ op'[p].step = "inner"
          /\ slugIndex'[p] = table /\ disk' = disk
      BY <2>2, BeginFields
    <2>4. HandOK(p)'
      BY <2>3 DEF HandOK
    <2>5. TableOK(p)'
      BY <1>1, <2>1, <2>3 DEF TableOK, Knows, At
    <2> QED
      BY <1>0, <2>2, <2>4, <2>5, BeginSound DEF OpNames
  <1>3. ASSUME NEW i \in Ids, NEW b \in Bodies, UpdateBody(p, i, b)
        PROVE  Consistent' /\ Solo'
    <2>1. PICK table, patch, seen :
            table = slugIndex[p] /\ patch = [NoPatch EXCEPT !.body = b] /\ seen = disk[i]
      OBVIOUS
    <2>2. /\ Begin(p, "update_body", "body", i, patch, seen, table)
          /\ index[i] # Absent /\ index[i].type = RuleEntry /\ disk[i] # Absent
      BY <1>3, <2>1 DEF UpdateBody, Indexed
    <2>3. /\ op'[p].name = "update_body" /\ op'[p].step = "body" /\ op'[p].id = i
          /\ op'[p].seen = seen /\ slugIndex'[p] = table /\ disk' = disk
      BY <2>2, BeginFields
    <2>4. disk[i].type = RuleEntry
      <3>1. index[i] = RowOf(disk[i])
        BY <1>1, <2>2 DEF IndexAgrees
      <3> QED
        BY <2>2, <3>1 DEF RowOf
    <2>5. HandOK(p)'
      BY <2>1, <2>2, <2>3, <2>4 DEF HandOK, WrittenType
    <2>6. TableOK(p)'
      BY <1>1, <2>1, <2>3 DEF TableOK, Knows, At
    <2> QED
      BY <1>0, <2>2, <2>5, <2>6, BeginSound DEF OpNames
  <1>4. ASSUME NEW s \in GenSlugs, NEW b \in Bodies, UpsertExisting(p, s, b)
        PROVE  Consistent' /\ Solo'
    <2>1. PICK table, patch, i :
            table = slugIndex[p] /\ patch = [NoPatch EXCEPT !.body = b] /\ i = slugIndex[p][s]
      OBVIOUS
    <2>2. /\ Begin(p, "upsert_existing", "manifest", i, patch, Absent, table)
          /\ index[i] # Absent /\ index[i].type = GeneratedTarget
      BY <1>4, <2>1 DEF UpsertExisting, Indexed
    <2>3. /\ op'[p].name = "upsert_existing" /\ op'[p].step = "manifest" /\ op'[p].id = i
          /\ slugIndex'[p] = table /\ disk' = disk /\ index' = index
      BY <2>2, BeginFields
    <2>4. HandOK(p)'
      BY <2>2, <2>3 DEF HandOK, WrittenType
    <2>5. TableOK(p)'
      BY <1>1, <2>1, <2>3 DEF TableOK, Knows, At
    <2> QED
      BY <1>0, <2>2, <2>4, <2>5, BeginSound DEF OpNames
  <1>5. ASSUME NEW i \in Ids, Delete(p, i)
        PROVE  Consistent' /\ Solo'
    <2>1. PICK table : table = [slugIndex[p] EXCEPT ![disk[i].slug] = Absent]
      OBVIOUS
    <2>2. Begin(p, "delete", "folder", i, NoPatch, Absent, table) /\ disk[i] # Absent
      BY <1>5, <2>1 DEF Delete
    <2>3. /\ op'[p].name = "delete" /\ op'[p].step = "folder" /\ op'[p].id = i
          /\ slugIndex'[p] = table /\ disk' = disk
      BY <2>2, BeginFields
    <2>4. HandOK(p)'
      BY <2>3 DEF HandOK
    <2>5. \A s \in Slugs : table[s] = IF s = disk[i].slug THEN Absent ELSE slugIndex[p][s]
      BY <2>1 DEF RecordsInv, TypeInv, TypeOK
    <2>6. \A s, j : Knows(p, j, s)' <=> j # i /\ disk[j] # Absent /\ disk[j].slug = s
      BY <2>3 DEF Knows, At
    <2>7. ASSUME NEW s \in Slugs, NEW j \in Ids
          PROVE  table[s] = j <=> Knows(p, j, s)'
      BY <1>1, <2>2, <2>5, <2>6, AbsentAssumption
    <2>8. TableOK(p)'
      BY <2>3, <2>7 DEF TableOK
    <2> QED
      BY <1>0, <2>2, <2>4, <2>8, BeginSound DEF OpNames
  <1> QED
    BY <1>2, <1>3, <1>4, <1>5

LEMMA CallSound ==
  ASSUME UpdateTypes \subseteq {RuleEntry},
         OneShot \/ \A patch \in Patches : patch.slug = Keep \/ patch.state = Keep,
         RecordsInv, RecordsInv', CleanInv, NEW p \in Procs, Call(p), derived' # "dirty"
  PROVE  Consistent' /\ Solo' /\ derived' = derived
  <1>1. Ready(p) /\ derived' = derived
    BY DEF Call, Reindex, Create, UpsertNew, Update, UpdateRejected, Updatable, UpdateBody,
           UpsertExisting, Delete, Begin
  <1>2. Busy = {} /\ derived = "clean"
    BY <1>1, ReadyQuiet
  <1>3. CASE \E i \in Ids, patch \in Patches : UpdateRejected(p, i, patch)
    <2>1. PICK i \in Ids, patch \in Patches : UpdateRejected(p, i, patch)
      BY <1>3
    <2>2. PICK table : table = PatchedSlugs(p, i, patch)
      OBVIOUS
    <2>3. /\ Release(p, table, OneShot) /\ UNCHANGED <<disk, index, search>>
          /\ patch.state # Keep
      BY <2>1, <2>2 DEF UpdateRejected, TransitionAllowed
    <2>4. ~OneShot => table = slugIndex[p]
      BY <2>2, <2>3 DEF PatchedSlugs
    <2>5. /\ op'[p].name = "none" /\ \A q \in Procs \ {p} : op'[q] = op[q]
          /\ \A q \in Procs \ {p} : handle'[q] = handle[q] /\ slugIndex'[q] = slugIndex[q]
          /\ OneShot => handle'[p] = "closed"
          /\ ~OneShot => slugIndex'[p] = table
      BY <2>3 DEF Release, NoOp, RecordsInv, TypeInv, TypeOK
    <2>6. op[p].step = "idle"
      BY <1>1 DEF Ready, RecordsInv, TypeInv, OpShape
    <2>7. ~DocDue(p)
      BY <2>6 DEF DocDue, RowDue, At
    <2>8. handle'[p] = "open" => TableOK(p)'
      BY <1>1, <1>2, <2>3, <2>4, <2>5, ReadyTable DEF TableOK, Knows, At
    <2>9. Consistent'
      BY <1>2, <2>3, <2>5, <2>7, <2>8, SoundStays
    <2>10. Solo'
      BY <1>2, <2>5 DEF Solo, Busy
    <2> QED
      BY <1>1, <1>2, <2>9, <2>10
  <1>4. CASE ~ \E i \in Ids, patch \in Patches : UpdateRejected(p, i, patch)
    <2>1. Alone(p)
      BY <1>4 DEF Call, Reindex, Create, UpsertNew, Update, UpdateBody,
                  UpsertExisting, Delete, Begin
    <2>2. ASSUME NEW i \in Ids, NEW s \in Slugs, NEW b \in Bodies, Create(p, i, s, b)
          PROVE  Consistent' /\ Solo'
      <3>1. PICK seen : seen = [type |-> RuleEntry, slug |-> s, state |-> "draft", body |-> b]
        OBVIOUS
      <3>2. seen \in Manifest /\ seen.type = RuleEntry /\ seen.slug = s
        BY <3>1 DEF Manifest, Types, States
      <3>3. /\ Fresh(i) /\ slugIndex[p][seen.slug] = Absent
            /\ Begin(p, "create", "folder", i, NoPatch, seen, slugIndex[p])
        BY <2>2, <3>1, <3>2 DEF Create
      <3> QED
        BY <1>1, <1>2, <2>1, <3>2, <3>3, CreateSound
    <2>3. ASSUME NEW i \in Ids, NEW s \in Slugs, NEW b \in Bodies, UpsertNew(p, i, s, b)
          PROVE  Consistent' /\ Solo'
      <3>1. PICK seen : seen = [type |-> GeneratedTarget, slug |-> s, state |-> "active", body |-> b]
        OBVIOUS
      <3>2. seen \in Manifest /\ seen.type = GeneratedTarget /\ seen.slug = s
        BY <3>1 DEF Manifest, Types, States
      <3>3. /\ Fresh(i) /\ slugIndex[p][seen.slug] = Absent
            /\ Begin(p, "upsert_new", "folder", i, NoPatch, seen, slugIndex[p])
        BY <2>3, <3>1, <3>2 DEF UpsertNew
      <3> QED
        BY <1>1, <1>2, <2>1, <3>2, <3>3, CreateSound
    <2>4. ASSUME NEW i \in Ids, NEW patch \in Patches, Update(p, i, patch)
          PROVE  Consistent' /\ Solo'
      BY <1>2, <2>1, <2>4, UpdateSound
    <2>5. CASE \/ Reindex(p)
               \/ \E i \in Ids, b \in Bodies : UpdateBody(p, i, b)
               \/ \E s \in GenSlugs, b \in Bodies : UpsertExisting(p, s, b)
               \/ \E i \in Ids : Delete(p, i)
      BY <1>1, <1>2, <2>1, <2>5, OtherCallSound
    <2> QED
      BY <1>1, <1>2, <1>4, <2>2, <2>3, <2>4, <2>5 DEF Call
  <1> QED
    BY <1>3, <1>4

-----------------------------------------------------------------------------
(***************************************************************************)
(* The durable writes.                                                     *)
(***************************************************************************)
LEMMA WriteFolderSound ==
  ASSUME RecordsInv, RecordsInv', CleanInv, derived = "clean", NEW p \in Procs, WriteFolder(p)
  PROVE  Consistent' /\ Solo'
  <1>0. op[p].name \in {"create", "upsert_new"} /\ op[p].step = "folder"
    BY DEF WriteFolder, At
  <1>1. PICK i \in Ids : i = op[p].id
    BY <1>0, OpTyped DEF RecordsInv
  <1>2. /\ UniqueOnDisk /\ TableOK(p) /\ HandOK(p)
    BY <1>0, <1>1, SoundFacts
  <1>3. PICK m \in Manifest : m = op[p].seen
    BY <1>0, OpTyped DEF RecordsInv, OpShape
  <1>4. /\ op'[p].name = op[p].name /\ op'[p].id = i /\ op'[p].step = "row"
        /\ op'[p].seen = m /\ \A q \in Procs \ {p} : op'[q] = op[q]
    BY <1>1, <1>3, GotoFields DEF WriteFolder, RecordsInv, Steps
  <1>5. /\ disk'[i] = m /\ \A j \in Ids \ {i} : disk'[j] = disk[j]
        /\ UNCHANGED <<index, search, handle, slugIndex>>
    BY <1>1, <1>3 DEF WriteFolder, RecordsInv, TypeInv, TypeOK
  <1>6. m # Absent /\ m.slug \in Slugs /\ slugIndex[p][m.slug] = Absent
        /\ m.type = WrittenType(p) /\ disk[i] = Absent
    BY <1>0, <1>1, <1>2, <1>3, NotAbsent DEF HandOK, Manifest, RecordsInv, FreshInProgress, Creating
  <1>7. \A j \in Ids : \A s : Knows(p, j, s)' <=> Knows(p, j, s)
    BY <1>0, <1>1, <1>4, <1>5 DEF Knows, At
  <1>8. TableOK(p)'
    BY <1>2, <1>5, <1>7 DEF TableOK
  <1>9. HandOK(p)'
    BY <1>0, <1>4, <1>5, <1>6 DEF HandOK, WrittenType
  <1>10. \A j \in Ids \ {i} : disk[j] # Absent => disk[j].slug # m.slug
    <2>1. \A j \in Ids \ {i} : Knows(p, j, m.slug) <=> disk[j] # Absent /\ disk[j].slug = m.slug
      BY <1>1 DEF Knows
    <2> QED
      BY <1>2, <1>6, <2>1, AbsentAssumption DEF TableOK
  <1>11. UniqueOnDisk'
    BY <1>2, <1>5, <1>10 DEF UniqueOnDisk, OnDisk
  <1>12. RowDue(p)' /\ DocDue(p)'
    BY <1>4 DEF RowDue, DocDue
  <1> QED
    BY <1>0, <1>1, <1>4, <1>5, <1>8, <1>9, <1>11, <1>12, OnwardSound

LEMMA WriteManifestSound ==
  ASSUME RecordsInv, RecordsInv', CleanInv, derived = "clean", NEW p \in Procs, WriteManifest(p)
  PROVE  Consistent' /\ Solo'
  <1>0. op[p].name = "update" /\ op[p].step = "manifest"
    BY DEF WriteManifest, At
  <1>1. PICK i \in Ids : i = op[p].id
    BY <1>0, OpTyped DEF RecordsInv
  <1>2. /\ UniqueOnDisk /\ TableOK(p) /\ HandOK(p) /\ IndexAgrees(i)
    BY <1>0, <1>1, SoundFacts DEF RowDue, At
  <1>3. PICK patch, m : patch \in Patch /\ patch = op[p].patch /\ m = Patched(disk[i], patch)
    BY OpTyped DEF RecordsInv
  <1>4. disk[i] \in Manifest /\ disk[i] # Absent
    BY <1>0, <1>1, OpTyped DEF WriteManifest, RecordsInv
  <1>5. /\ m \in Manifest /\ m # Absent /\ m.type = disk[i].type
        /\ m.slug = IF patch.slug = Keep THEN disk[i].slug ELSE patch.slug
    BY <1>3, <1>4, NotAbsent DEF Patched, Manifest, Patch
  <1>6. /\ op'[p].name = "update" /\ op'[p].id = i /\ op'[p].step \in {"row", "body"}
        /\ op'[p].seen = m /\ \A q \in Procs \ {p} : op'[q] = op[q]
    <2>1. op' = [op EXCEPT ![p].seen = m, ![p].step = IF op[p].patch.body = Keep
                                                      THEN "row" ELSE "body"]
      BY <1>1, <1>3 DEF WriteManifest
    <2> QED
      BY <1>0, <1>1, <2>1 DEF RecordsInv, TypeInv, TypeOK, Op
  <1>7. /\ disk'[i] = m /\ \A j \in Ids \ {i} : disk'[j] = disk[j]
        /\ UNCHANGED <<index, search, handle, slugIndex>>
    BY <1>1, <1>3 DEF WriteManifest, RecordsInv, TypeInv, TypeOK
  <1>8. m.type = WrittenType(p)
    BY <1>0, <1>1, <1>2, <1>4, <1>5 DEF HandOK, IndexAgrees, RowOf
  <1>9. \A j \in Ids : \A s : Knows(p, j, s)' <=> Knows(p, j, s)
    <2>1. \A s : Knows(p, i, s) <=> s = m.slug
      BY <1>0, <1>1, <1>3, <1>4, <1>5 DEF Knows, At
    <2>2. \A s : Knows(p, i, s)' <=> s = m.slug
      BY <1>5, <1>6, <1>7 DEF Knows, At
    <2>3. \A j \in Ids \ {i} : \A s : Knows(p, j, s)' <=> Knows(p, j, s)
      BY <1>1, <1>6, <1>7 DEF Knows, At
    <2> QED
      BY <2>1, <2>2, <2>3
  <1>10. TableOK(p)'
    BY <1>2, <1>7, <1>9 DEF TableOK
  <1>11. HandOK(p)'
    BY <1>0, <1>5, <1>6, <1>7, <1>8 DEF HandOK, WrittenType
  <1>12. UniqueOnDisk'
    <2>1. \A j \in Ids : disk'[j] # Absent => Knows(p, j, disk[j].slug)'
      BY <1>6 DEF Knows, At
    <2>2. \A j \in Ids : disk'[j] # Absent => disk'[j].slug \in Slugs
      BY DEF RecordsInv, TypeInv, TypeOK, Manifest
    <2> QED
      BY <1>10, <2>1, <2>2 DEF UniqueOnDisk, OnDisk, TableOK
  <1>13. RowDue(p)' /\ DocDue(p)'
    BY <1>6 DEF RowDue, DocDue, At
  <1> QED
    BY <1>0, <1>1, <1>6, <1>7, <1>10, <1>11, <1>12, <1>13, OnwardSound

LEMMA WriteTargetSound ==
  ASSUME RecordsInv, RecordsInv', CleanInv, derived = "clean", NEW p \in Procs,
         WriteTargetManifest(p)
  PROVE  Consistent' /\ Solo'
  <1>0. op[p].name = "upsert_existing" /\ op[p].step = "manifest"
    BY DEF WriteTargetManifest, At
  <1>1. PICK i \in Ids : i = op[p].id
    BY <1>0, OpTyped DEF RecordsInv
  <1>2. /\ UniqueOnDisk /\ TableOK(p) /\ HandOK(p) /\ IndexAgrees(i)
    BY <1>0, <1>1, SoundFacts DEF RowDue, At
  <1>3. PICK b, m :
          /\ b \in Bodies /\ b = op[p].patch.body
          /\ m = [disk[i] EXCEPT !.state = "active", !.body = b]
    BY <1>0, OpTyped DEF RecordsInv, OpShape
  <1>4. disk[i] \in Manifest /\ disk[i] # Absent
    BY <1>0, <1>1, OpTyped DEF WriteTargetManifest, RecordsInv
  <1>5. m \in Manifest /\ m # Absent /\ m.type = disk[i].type /\ m.slug = disk[i].slug
    BY <1>3, <1>4, NotAbsent DEF Manifest, States
  <1>6. /\ op'[p].name = "upsert_existing" /\ op'[p].id = i /\ op'[p].step = "row"
        /\ op'[p].seen = m /\ \A q \in Procs \ {p} : op'[q] = op[q]
    <2>1. op' = [op EXCEPT ![p].seen = m, ![p].step = "row"]
      BY <1>1, <1>3 DEF WriteTargetManifest
    <2> QED
      BY <1>0, <1>1, <2>1 DEF RecordsInv, TypeInv, TypeOK, Op
  <1>7. /\ disk'[i] = m /\ \A j \in Ids \ {i} : disk'[j] = disk[j]
        /\ UNCHANGED <<index, search, handle, slugIndex>>
    BY <1>1, <1>3 DEF WriteTargetManifest, RecordsInv, TypeInv, TypeOK
  <1>8. m.type = WrittenType(p)
    BY <1>0, <1>1, <1>2, <1>4, <1>5 DEF HandOK, IndexAgrees, RowOf
  <1>9. \A j \in Ids : \A s : Knows(p, j, s)' <=> Knows(p, j, s)
    BY <1>0, <1>1, <1>4, <1>5, <1>6, <1>7 DEF Knows, At
  <1>10. TableOK(p)'
    BY <1>2, <1>7, <1>9 DEF TableOK
  <1>11. HandOK(p)'
    BY <1>0, <1>5, <1>6, <1>7, <1>8 DEF HandOK, WrittenType
  <1>12. UniqueOnDisk'
    BY <1>2, <1>4, <1>5, <1>7 DEF UniqueOnDisk, OnDisk
  <1>13. RowDue(p)' /\ DocDue(p)'
    BY <1>6 DEF RowDue, DocDue, At
  <1> QED
    BY <1>0, <1>1, <1>6, <1>7, <1>10, <1>11, <1>12, <1>13, OnwardSound

LEMMA WriteBodySound ==
  ASSUME RecordsInv, RecordsInv', CleanInv, derived = "clean", NEW p \in Procs, WriteBody(p)
  PROVE  Consistent' /\ Solo'
  <1>0. op[p].name \in {"update", "update_body"} /\ op[p].step = "body"
    BY DEF WriteBody, At
  <1>1. PICK i \in Ids : i = op[p].id
    BY <1>0, OpTyped DEF RecordsInv
  <1>2. /\ UniqueOnDisk /\ TableOK(p) /\ HandOK(p)
        /\ op[p].name = "update_body" => IndexAgrees(i)
    BY <1>0, <1>1, SoundFacts DEF RowDue, At
  <1>3. PICK b, m, next :
          /\ b = op[p].patch.body /\ m = [disk[i] EXCEPT !.body = b]
          /\ next = IF op[p].name = "update" THEN "row" ELSE "doc"
    OBVIOUS
  <1>4. disk[i] \in Manifest /\ disk[i] # Absent
    BY <1>0, <1>1, OpTyped DEF WriteBody, RecordsInv
  <1>5. /\ m \in Manifest /\ m # Absent /\ m.type = disk[i].type /\ m.slug = disk[i].slug
        /\ m.state = disk[i].state /\ m.body = b
    <2>1. b \in Bodies
      BY <1>0, <1>3, OpTyped DEF RecordsInv, OpShape
    <2> QED
      BY <1>3, <1>4, <2>1, NotAbsent DEF Manifest
  <1>6. /\ op'[p].name = op[p].name /\ op'[p].id = i /\ op'[p].step = next
        /\ op'[p].seen = op[p].seen /\ op'[p].patch = op[p].patch
        /\ \A q \in Procs \ {p} : op'[q] = op[q]
    <2>1. Goto(p, next) /\ next \in Steps
      BY <1>3 DEF WriteBody, Steps
    <2> QED
      BY <1>1, <2>1, GotoFields DEF RecordsInv
  <1>7. /\ disk'[i] = m /\ \A j \in Ids \ {i} : disk'[j] = disk[j]
        /\ UNCHANGED <<index, search, handle, slugIndex>>
    BY <1>1, <1>3 DEF WriteBody, RecordsInv, TypeInv, TypeOK
  <1>8. \A j \in Ids : \A s : Knows(p, j, s)' <=> Knows(p, j, s)
    <2>1. \A s : Knows(p, i, s) <=> s = m.slug
      BY <1>0, <1>1, <1>4, <1>5 DEF Knows, At
    <2>2. \A s : Knows(p, i, s)' <=> s = m.slug
      BY <1>0, <1>3, <1>5, <1>6, <1>7 DEF Knows, At
    <2>3. \A j \in Ids \ {i} : \A s : Knows(p, j, s)' <=> Knows(p, j, s)
      BY <1>1, <1>6, <1>7 DEF Knows, At
    <2> QED
      BY <2>1, <2>2, <2>3
  <1>9. TableOK(p)'
    BY <1>2, <1>7, <1>8 DEF TableOK
  <1>10. disk[i].type = WrittenType(p) /\ disk[i].state = op[p].seen.state
    BY <1>0, <1>1, <1>2 DEF HandOK
  <1>11. HandOK(p)'
    BY <1>0, <1>3, <1>5, <1>6, <1>7, <1>10 DEF HandOK, WrittenType
  <1>12. UniqueOnDisk'
    BY <1>2, <1>4, <1>5, <1>7 DEF UniqueOnDisk, OnDisk
  <1>13. DocDue(p)'
    BY <1>3, <1>6 DEF RowDue, DocDue
  <1>14. IndexAgrees(i)' \/ RowDue(p)'
    <2>1. CASE op[p].name = "update"
      BY <1>3, <1>6, <2>1 DEF RowDue
    <2>2. CASE op[p].name = "update_body"
      BY <1>2, <1>4, <1>5, <1>7, <2>2 DEF IndexAgrees, RowOf
    <2> QED
      BY <1>0, <2>1, <2>2
  <1> QED
    BY <1>0, <1>1, <1>6, <1>7, <1>9, <1>11, <1>12, <1>13, <1>14, OnwardSound

LEMMA WriteRowSound ==
  ASSUME RecordsInv, RecordsInv', CleanInv, derived = "clean", NEW p \in Procs, WriteRow(p)
  PROVE  Consistent' /\ Solo'
  <1>0. /\ op[p].name \in {"create", "update", "upsert_new", "upsert_existing"}
        /\ op[p].step = "row"
    BY DEF WriteRow, At
  <1>1. PICK i \in Ids : i = op[p].id
    BY <1>0, OpTyped DEF RecordsInv
  <1>2. /\ UniqueOnDisk /\ TableOK(p) /\ HandOK(p)
    BY <1>0, <1>1, SoundFacts
  <1>3. /\ disk[i] # Absent
        /\ disk[i].type = WrittenType(p) /\ disk[i].state = op[p].seen.state
    BY <1>0, <1>1, <1>2 DEF HandOK
  <1>4. /\ op'[p].name = op[p].name /\ op'[p].id = i /\ op'[p].step = "doc"
        /\ op'[p].seen = op[p].seen /\ op'[p].patch = op[p].patch
        /\ \A q \in Procs \ {p} : op'[q] = op[q]
    BY <1>1, GotoFields DEF WriteRow, RecordsInv, Steps
  <1>5. /\ index'[i] = [type |-> WrittenType(p), state |-> op[p].seen.state]
        /\ \A j \in Ids \ {i} : index'[j] = index[j]
        /\ UNCHANGED <<disk, search, handle, slugIndex>>
    BY <1>1 DEF WriteRow, RecordsInv, TypeInv, TypeOK
  <1>6. IndexAgrees(i)'
    BY <1>3, <1>5 DEF IndexAgrees, RowOf
  <1>7. \A j \in Ids : \A s : Knows(p, j, s)' <=> Knows(p, j, s)
    BY <1>0, <1>1, <1>4, <1>5 DEF Knows, At
  <1>8. TableOK(p)'
    BY <1>2, <1>5, <1>7 DEF TableOK
  <1>9. HandOK(p)'
    BY <1>0, <1>1, <1>2, <1>4, <1>5 DEF HandOK, WrittenType
  <1>10. UniqueOnDisk' /\ DocDue(p)'
    BY <1>2, <1>4, <1>5 DEF UniqueOnDisk, OnDisk, DocDue
  <1> QED
    BY <1>0, <1>1, <1>4, <1>5, <1>6, <1>8, <1>9, <1>10, OnwardSound

LEMMA WriteDocSound ==
  ASSUME RecordsInv, RecordsInv', CleanInv, derived = "clean", NEW p \in Procs, WriteDoc(p)
  PROVE  Consistent' /\ Solo'
  <1>0. /\ op[p].name \in {"create", "update", "update_body", "upsert_new", "upsert_existing"}
        /\ op[p].step = "doc" /\ OneShot \in BOOLEAN
    BY InputAssumption DEF WriteDoc, At
  <1>1. PICK i \in Ids : i = op[p].id
    BY <1>0, OpTyped DEF RecordsInv
  <1>2. /\ TableOK(p) /\ HandOK(p) /\ IndexAgrees(i)
    BY <1>0, <1>1, SoundFacts DEF RowDue, At
  <1>3. /\ disk[i] # Absent
        /\ disk[i].type = WrittenType(p) /\ disk[i].state = op[p].seen.state
        /\ op[p].name \in {"create", "upsert_new", "upsert_existing"} => disk[i].body = op[p].seen.body
        /\ op[p].name \in {"create", "upsert_new"} =>
             disk[i].slug = op[p].seen.slug /\ slugIndex[p][op[p].seen.slug] = Absent
        /\ op[p].name = "update_body" => disk[i].body = op[p].patch.body
    BY <1>0, <1>1, <1>2 DEF HandOK
  <1>4. PICK table : table = FinalSlugs(p)
    OBVIOUS
  <1>5. /\ Release(p, table, OneShot) /\ UNCHANGED <<disk, index>>
        /\ search'[i] = [type |-> WrittenType(p), state |-> op[p].seen.state,
                         body |-> DocBody(p)]
        /\ \A j \in Ids \ {i} : search'[j] = search[j]
    BY <1>1, <1>4 DEF WriteDoc, RecordsInv, TypeInv, TypeOK
  <1>6. DocBody(p) = disk[i].body
    BY <1>0, <1>1, <1>3 DEF DocBody
  <1>7. IndexAgrees(i)' /\ SearchAgrees(i)'
    BY <1>2, <1>3, <1>5, <1>6 DEF IndexAgrees, SearchAgrees, DocOf
  <1>8. ASSUME NEW s \in Slugs, NEW j \in Ids
        PROVE  table[s] = j <=> disk[j] # Absent /\ disk[j].slug = s
    <2>1. slugIndex[p][s] = j <=> Knows(p, j, s)
      BY <1>2 DEF TableOK
    <2>2. CASE op[p].name \in {"create", "upsert_new"}
      <3>1. table[s] = IF s = disk[i].slug THEN i ELSE slugIndex[p][s]
        BY <1>1, <1>3, <1>4, <2>2 DEF FinalSlugs, RecordsInv, TypeInv, TypeOK
      <3>2. Knows(p, j, s) <=> j # i /\ disk[j] # Absent /\ disk[j].slug = s
        BY <1>1, <2>2 DEF Knows, At
      <3>3. j # Absent /\ slugIndex[p][disk[i].slug] = Absent
        BY <1>3, <2>2, AbsentAssumption
      <3> QED
        BY <1>3, <2>1, <3>1, <3>2, <3>3
    <2>3. CASE op[p].name \in {"update", "update_body", "upsert_existing"}
      BY <1>0, <1>4, <2>1, <2>3 DEF FinalSlugs, Knows, At
    <2> QED
      BY <1>0, <2>2, <2>3
  <1> QED
    BY <1>0, <1>1, <1>5, <1>7, <1>8, EndSound

LEMMA RemoveSound ==
  ASSUME RecordsInv, RecordsInv', CleanInv, derived = "clean", NEW p \in Procs,
         RemoveFolder(p) \/ RemoveRow(p) \/ RemoveDoc(p)
  PROVE  Consistent' /\ Solo'
  <1>0. op[p].name = "delete" /\ op[p].step \in {"folder", "row", "doc"} /\ OneShot \in BOOLEAN
    BY InputAssumption DEF RemoveFolder, RemoveRow, RemoveDoc, At
  <1>1. PICK i \in Ids : i = op[p].id
    BY <1>0, OpTyped DEF RecordsInv
  <1>2. UniqueOnDisk /\ TableOK(p) /\ HandOK(p)
    BY <1>0, <1>1, SoundFacts
  <1>3. \A j \in Ids : \A s : Knows(p, j, s) <=> j # i /\ disk[j] # Absent /\ disk[j].slug = s
    BY <1>0, <1>1 DEF Knows, At
  <1>4. CASE RemoveFolder(p) \/ RemoveRow(p)
    <2>1. PICK next \in {"row", "doc"} : Goto(p, next) /\ (RemoveRow(p) => next = "doc")
                                         /\ (RemoveFolder(p) => next = "row")
      BY <1>4 DEF RemoveFolder, RemoveRow, At
    <2>2. /\ op'[p].name = "delete" /\ op'[p].id = i /\ op'[p].step = next
          /\ \A q \in Procs \ {p} : op'[q] = op[q]
      BY <1>0, <1>1, <2>1, GotoFields DEF RecordsInv, Steps
    <2>3. /\ disk'[i] = Absent
          /\ \A j \in Ids \ {i} : disk'[j] = disk[j] /\ index'[j] = index[j]
          /\ RemoveRow(p) => index'[i] = Absent
          /\ UNCHANGED <<search, handle, slugIndex>>
      BY <1>1, <1>2, <1>4 DEF RemoveFolder, RemoveRow, At, HandOK, RecordsInv, TypeInv, TypeOK
    <2>4. \A j \in Ids : \A s : Knows(p, j, s)' <=> Knows(p, j, s)
      <3>1. \A j \in Ids : \A s : Knows(p, j, s)' <=> j # i /\ disk'[j] # Absent /\ disk'[j].slug = s
        BY <2>2, <2>3 DEF Knows, At
      <3> QED
        BY <1>3, <2>3, <3>1
    <2>5. TableOK(p)' /\ HandOK(p)'
      BY <1>2, <2>2, <2>3, <2>4 DEF TableOK, HandOK
    <2>6. UniqueOnDisk' /\ DocDue(p)'
      BY <1>2, <2>2, <2>3 DEF UniqueOnDisk, OnDisk, DocDue, RowDue
    <2>7. IndexAgrees(i)' \/ RowDue(p)'
      BY <1>4, <2>1, <2>2, <2>3 DEF IndexAgrees, RowDue
    <2>8. \A j \in Ids \ {i} :
            disk'[j] = disk[j] /\ index'[j] = index[j] /\ search'[j] = search[j]
      BY <2>3
    <2> QED
      BY <1>0, <1>1, <2>2, <2>3, <2>5, <2>6, <2>7, <2>8, OnwardSound
  <1>5. CASE RemoveDoc(p)
    <2>1. PICK table : table = slugIndex[p]
      OBVIOUS
    <2>2. /\ Release(p, table, OneShot) /\ UNCHANGED <<disk, index>>
          /\ \A j \in Ids \ {i} : search'[j] = search[j]
          /\ op[p].step = "doc"
      BY <1>1, <1>5, <2>1 DEF RemoveDoc, At, RecordsInv, TypeInv, TypeOK
    <2>3. disk[i] = Absent /\ IndexAgrees(i)
      BY <1>0, <1>1, <1>2, <2>2, SoundFacts DEF HandOK, RowDue, At
    <2>4. IndexAgrees(i)' /\ SearchAgrees(i)'
      BY <2>2, <2>3 DEF IndexAgrees, SearchAgrees
    <2>5. \A s \in Slugs, j \in Ids : table[s] = j <=> disk[j] # Absent /\ disk[j].slug = s
      BY <1>2, <1>3, <2>1, <2>3 DEF TableOK
    <2> QED
      BY <1>0, <1>1, <2>2, <2>4, <2>5, EndSound
  <1> QED
    BY <1>4, <1>5

-----------------------------------------------------------------------------
(***************************************************************************)
(* Opening, the forced scan, errors, and what happens outside.             *)
(***************************************************************************)
\* A table built from the rows of all folders has exactly their slugs.
LEMMA FullTable ==
  ASSUME UniqueOnDisk, NEW rows, rows = OnDisk, NEW t \in SlugTables(rows),
         NEW s \in Slugs, NEW i \in Ids
  PROVE  t[s] = i <=> disk[i] # Absent /\ disk[i].slug = s
  <1> DEFINE owners == {j \in rows : disk[j] # Absent /\ disk[j].slug = s}
  <1>1. IF owners = {} THEN t[s] = Absent ELSE t[s] \in owners
    BY DEF SlugTables
  <1>2. i \in owners <=> disk[i] # Absent /\ disk[i].slug = s
    BY DEF OnDisk
  <1>3. \A j, k \in owners : j = k
    BY DEF UniqueOnDisk
  <1>4. i # Absent
    BY AbsentAssumption
  <1> HIDE DEF owners
  <1> QED
    BY <1>1, <1>2, <1>3, <1>4

\* In an undisturbed store, whoever is busy while a forced scan finishes is it.
LEMMA Repairing ==
  ASSUME RecordsInv, CleanInv, derived = "repairing", NEW p \in Procs, op[p].name # "none"
  PROVE  At(p, {"reindex", "init"}, "bodies")
  <1>1. PICK q \in Procs : At(q, {"reindex", "init"}, "bodies")
    BY DEF CleanInv
  <1>2. op[q].name # "none"
    BY <1>1 DEF At
  <1>3. p = q
    BY <1>2, Lone
  <1> QED
    BY <1>1, <1>3

LEMMA OpenClean ==
  ASSUME RecordsInv, RecordsInv', CleanInv, NEW p \in Procs, Open(p) \/ OpenOrInit(p) \/ Close(p)
  PROVE  CleanInv'
  <1>1. CASE derived' = "dirty"
    BY <1>1 DEF CleanInv
  <1>2. CASE derived' # "dirty" /\ Open(p)
    <2>1. /\ handle[p] = "closed" /\ Busy = {} /\ derived' = derived
          /\ op' = op /\ disk' = disk
          /\ \A q \in Procs \ {p} : handle'[q] = handle[q] /\ slugIndex'[q] = slugIndex[q]
      BY <1>2 DEF Open, Opened
    <2>2. \A q \in Procs : op[q].name = "none" /\ ~At(q, {"reindex", "init"}, "bodies")
      BY <2>1 DEF Busy, At
    <2>3. derived = "clean"
      BY <1>2, <2>1, <2>2 DEF CleanInv, RecordsInv, TypeInv, TypeOK
    <2>4. \A i \in Ids : IndexAgrees(i) /\ SearchAgrees(i)
      BY <2>1, <2>3, QuietFacts
    <2>5. \A i \in Ids : disk[i] # Absent => RowOf(disk[i]) # Absent
      BY NotAbsent DEF RecordsInv, TypeInv, TypeOK
    <2>6. \A i \in Ids : index[i] = Absent <=> disk[i] = Absent
      BY <2>4, <2>5 DEF IndexAgrees
    <2>7. index' = index
      <3>1. \A i \in Ids : Pruned[i] = index[i] /\ ScannedIndex[i] = index[i]
        BY <2>6 DEF Pruned, ScannedIndex
      <3>2. index \in [Ids -> Row \cup {Absent}] /\ index' \in [Ids -> Row \cup {Absent}]
        BY DEF RecordsInv, TypeInv, TypeOK
      <3>3. index' \in {Pruned, ScannedIndex}
        BY <1>2 DEF Open, Opened
      <3> QED
        BY <3>1, <3>2, <3>3
    <2>8. search' = search
      <3>1. OnDisk \ Indexed = {}
        BY <2>6 DEF OnDisk, Indexed
      <3>2. \A withBody \in BOOLEAN, i \in Ids : ScannedSearch({}, withBody)[i] = search[i]
        BY DEF ScannedSearch
      <3>3. search \in [Ids -> Doc \cup {Absent}] /\ search' \in [Ids -> Doc \cup {Absent}]
        BY DEF RecordsInv, TypeInv, TypeOK
      <3>4. search' = search \/ \E withBody \in BOOLEAN : search' = ScannedSearch({}, withBody)
        BY <1>2, <3>1 DEF Open, Opened
      <3> QED
        BY <3>2, <3>3, <3>4
    <2>9. ~DocDue(p)
      <3>1. op[p].step = "idle"
        BY <2>2 DEF RecordsInv, TypeInv, OpShape
      <3> QED
        BY <3>1 DEF DocDue, RowDue, At
    <2>10. TableOK(p)'
      <3>1. PICK rows, t : /\ rows = {i \in Ids : index'[i] # Absent}
                           /\ t \in SlugTables(rows) /\ slugIndex'[p] = t
        BY <1>2 DEF Open, Opened, RecordsInv, TypeInv, TypeOK
      <3>2. rows = OnDisk
        BY <2>6, <2>7, <3>1 DEF OnDisk
      <3>3. UniqueOnDisk
        BY <2>3 DEF CleanInv, Consistent
      <3>4. \A s \in Slugs, i \in Ids : t[s] = i <=> disk[i] # Absent /\ disk[i].slug = s
        BY <3>1, <3>2, <3>3, FullTable
      <3> QED
        BY <2>1, <2>2, <3>1, <3>4 DEF TableOK, Knows, At
    <2>11. Consistent'
      <3>1. \A q \in Procs : op'[q] = op[q] /\ op'[q].name = "none"
        BY <2>1, <2>2
      <3>2. UNCHANGED <<disk, index, search>>
        BY <2>1, <2>7, <2>8
      <3> QED
        BY <2>1, <2>3, <2>9, <2>10, <3>1, <3>2, SoundStays
    <2>12. Solo'
      BY <2>1, <2>2 DEF Solo
    <2> QED
      BY <2>1, <2>3, <2>11, <2>12 DEF CleanInv
  <1>3. CASE derived' # "dirty" /\ Close(p)
    <2>1. /\ Ready(p) /\ derived' = derived /\ op' = op /\ UNCHANGED <<disk, index, search>>
          /\ handle'[p] = "closed"
          /\ \A q \in Procs \ {p} : handle'[q] = handle[q] /\ slugIndex'[q] = slugIndex[q]
      BY <1>3 DEF Close, RecordsInv, TypeInv, TypeOK
    <2>2. derived = "clean" /\ \A q \in Procs : op[q].name = "none"
      BY <1>3, <2>1, ReadyQuiet DEF Busy
    <2>3. ~DocDue(p)
      <3>1. op[p].step = "idle"
        BY <2>2 DEF RecordsInv, TypeInv, OpShape
      <3> QED
        BY <3>1 DEF DocDue, RowDue, At
    <2>4. Consistent'
      <3>1. \A q \in Procs : op'[q] = op[q] /\ op'[q].name = "none"
        BY <2>1, <2>2
      <3> QED
        BY <2>1, <2>2, <2>3, <3>1, SoundStays
    <2>5. Solo'
      BY <2>1, <2>2 DEF Solo
    <2> QED
      BY <2>1, <2>2, <2>4, <2>5 DEF CleanInv
  <1>4. OpenOrInit(p) => derived' = "dirty"
    BY DEF OpenOrInit
  <1> QED
    BY <1>1, <1>2, <1>3, <1>4

LEMMA ScanClean ==
  ASSUME RecordsInv, RecordsInv', CleanInv, NEW p \in Procs,
         InnerScan(p) \/ ReindexBodies(p), derived' # "dirty"
  PROVE  CleanInv'
  <1>1. CASE InnerScan(p)
    <2>1. /\ Alone(p) /\ derived' = "repairing" /\ UNCHANGED <<disk, handle>>
          /\ op[p].name \in {"reindex", "init"}
      BY <1>1 DEF InnerScan, At
    <2>2. /\ op'[p].name = op[p].name /\ op'[p].step = "bodies"
          /\ \A q \in Procs \ {p} : op'[q] = op[q]
      BY <1>1, GotoFields DEF InnerScan, RecordsInv, Steps
    <2>3. \A i \in Ids : IndexAgrees(i)'
      BY <1>1 DEF InnerScan, IndexAgrees
    <2>4. At(p, {"reindex", "init"}, "bodies")'
      BY <2>1, <2>2 DEF At
    <2>5. Solo'
      BY <2>1, <2>2 DEF Solo, Alone, RecordsInv, OpenInProgress
    <2> QED
      BY <2>1, <2>3, <2>4, <2>5 DEF CleanInv
  <1>2. CASE ReindexBodies(p)
    <2>1. /\ derived = "repairing" /\ Alone(p) /\ UniqueOnDisk /\ derived' = "clean"
          /\ UNCHANGED <<disk, index>>
      BY <1>2 DEF ReindexBodies
    <2>2. PICK t \in SlugTables(Indexed), closing \in BOOLEAN : Release(p, t, closing)
      BY <1>2, InputAssumption DEF ReindexBodies
    <2>3. \A i \in Ids : IndexAgrees(i)
      BY <2>1 DEF CleanInv
    <2>4. \A i \in Ids : index[i] # Absent <=> disk[i] # Absent
      <3>1. \A i \in Ids : disk[i] # Absent => RowOf(disk[i]) # Absent
        BY NotAbsent DEF RecordsInv, TypeInv, TypeOK
      <3> QED
        BY <2>3, <3>1 DEF IndexAgrees
    <2>5. PICK rows : rows = Indexed /\ rows = OnDisk
      BY <2>4 DEF Indexed, OnDisk
    <2>6. \A s \in Slugs, i \in Ids : t[s] = i <=> disk[i] # Absent /\ disk[i].slug = s
      BY <2>1, <2>2, <2>5, FullTable
    <2>7. /\ op'[p].name = "none" /\ \A q \in Procs \ {p} : op'[q] = op[q]
          /\ \A q \in Procs \ {p} : handle'[q] = handle[q]
          /\ closing => handle'[p] = "closed"
          /\ ~closing => slugIndex'[p] = t
      BY <2>2 DEF Release, NoOp, RecordsInv, TypeInv, TypeOK
    <2>8. \A q \in Procs \ {p} : op'[q].name = "none" /\ handle'[q] = "closed"
      BY <2>1, <2>7 DEF Alone, RecordsInv, OpenInProgress
    <2>9. handle'[p] = "open" => TableOK(p)'
      BY <2>1, <2>6, <2>7 DEF TableOK, Knows, At
    <2>10. \A i \in Ids : IndexAgrees(i)'
      BY <2>1, <2>3 DEF IndexAgrees
    <2>11. \A i \in Ids : SearchAgrees(i)'
      <3>1. ASSUME NEW i \in Ids, disk[i] # Absent, disk[i].type = RuleEntry
            PROVE  search'[i] = DocOf(disk[i])
        <4>1. index[i] = RowOf(disk[i])
          BY <2>3, <3>1 DEF IndexAgrees
        <4>2. i \in Indexed /\ index[i].type = RuleEntry
          BY <2>4, <3>1, <4>1 DEF Indexed, RowOf
        <4>3. search'[i] = [DocOf(disk[i]) EXCEPT !.type = RuleEntry]
          BY <1>2, <4>2 DEF ReindexBodies
        <4> QED
          BY <3>1, <4>3 DEF DocOf
      <3> QED
        BY <2>1, <3>1 DEF SearchAgrees
    <2>12. UniqueOnDisk'
      BY <2>1 DEF UniqueOnDisk, OnDisk
    <2>13. Consistent' /\ Solo'
      BY <2>7, <2>8, <2>9, <2>10, <2>11, <2>12, SoundAgain
    <2> QED
      BY <2>1, <2>13 DEF CleanInv
  <1> QED
    BY <1>1, <1>2

LEMMA StepClean ==
  ASSUME RecordsInv, RecordsInv', CleanInv, NEW p \in Procs, Step(p)
  PROVE  CleanInv'
  <1>1. CASE derived' = "dirty"
    BY <1>1 DEF CleanInv
  <1>2. CASE derived' # "dirty" /\ (InnerScan(p) \/ ReindexBodies(p))
    BY <1>2, ScanClean
  <1>3. CASE derived' # "dirty" /\ ~(InnerScan(p) \/ ReindexBodies(p))
    <2>1. /\ op[p].name # "none" /\ ~At(p, {"reindex", "init"}, "bodies")
          /\ derived' = derived
      BY <1>3 DEF Step, WriteFolder, WriteManifest, WriteTargetManifest, WriteBody, WriteRow,
                  WriteDoc, RemoveFolder, RemoveRow, RemoveDoc, At
    <2>2. derived = "clean"
      BY <1>3, <2>1, Repairing DEF RecordsInv, TypeInv, TypeOK
    <2>3. Consistent' /\ Solo'
      BY <1>3, <2>2, WriteFolderSound, WriteManifestSound, WriteTargetSound, WriteBodySound,
         WriteRowSound, WriteDocSound, RemoveSound DEF Step
    <2> QED
      BY <2>1, <2>2, <2>3 DEF CleanInv
  <1> QED
    BY <1>1, <1>2, <1>3

\* An operation that ends before its first write.
LEMMA FaultClean ==
  ASSUME RecordsInv, RecordsInv', CleanInv, NEW p \in Procs,
         Fail(p) \/ FolderGone(p) \/ Crash(p)
  PROVE  CleanInv'
  <1>1. CASE derived' = "dirty"
    BY <1>1 DEF CleanInv
  <1>2. CASE derived' # "dirty"
    <2>1. PICK closing \in BOOLEAN :
            /\ Release(p, slugIndex[p], closing)
            /\ Untouched(p) /\ derived' = derived /\ op[p].name # "none"
            /\ UNCHANGED <<disk, index, search>>
            /\ ~closing => ~SlugsTouched(p)
      <3>1. CASE Return(p)
        <4>1. (OneShot \/ op[p].name = "init") \in BOOLEAN
          BY InputAssumption
        <4>2. Untouched(p) /\ derived' = derived /\ (SlugsTouched(p) => OneShot)
          BY <1>2, <3>1 DEF Return
        <4>3. op[p].name # "none"
          BY <4>2 DEF Untouched, RecordsInv, TypeInv, OpShape
        <4> QED
          BY <3>1, <4>1, <4>2, <4>3 DEF Return
      <3>2. CASE Crash(p)
        <4>1. Release(p, slugIndex[p], TRUE)
          BY <3>2 DEF Crash, Release
        <4> QED
          BY <1>2, <3>2, <4>1 DEF Crash
      <3> QED
        BY <3>1, <3>2 DEF Fail, FolderGone
    <2>2. ~At(p, {"reindex", "init"}, "bodies") /\ ~DocDue(p)
      BY <2>1 DEF Untouched, At, DocDue, RowDue
    <2>3. derived = "clean"
      BY <1>2, <2>1, <2>2, Repairing DEF RecordsInv, TypeInv, TypeOK
    <2>4. PICK i : i = op[p].id
      OBVIOUS
    <2>5. TableOK(p) /\ \A j \in Ids : IndexAgrees(j) /\ SearchAgrees(j)
      BY <2>1, <2>2, <2>3, <2>4, SoundFacts DEF DocDue
    <2>6. \A j \in Ids : IndexAgrees(j)' /\ SearchAgrees(j)'
      BY <2>1, <2>5 DEF IndexAgrees, SearchAgrees
    <2>7. PICK table : table = slugIndex[p]
      OBVIOUS
    <2>8. ASSUME ~closing, NEW s \in Slugs, NEW j \in Ids
          PROVE  table[s] = j <=> disk[j] # Absent /\ disk[j].slug = s
      <3>1. table[s] = j <=> Knows(p, j, s)
        BY <2>5, <2>7 DEF TableOK
      <3>2. /\ op[p].name # "delete"
            /\ op[p].name = "update" => op[p].patch.slug = Keep
        BY <2>1, <2>8 DEF SlugsTouched
      <3>3. op[p].name \in {"create", "upsert_new"} => op[p].step = "folder"
        <4>1. op[p].step = "inner" => op[p].name \in {"reindex", "init"}
          BY <2>1, <2>3, <2>4, SoundFacts DEF HandOK
        <4> QED
          BY <2>1, <4>1 DEF Untouched
      <3>4. op[p].name \in {"create", "upsert_new"} => disk[op[p].id] = Absent
        BY <3>3 DEF RecordsInv, FreshInProgress, Creating
      <3> QED
        BY <3>1, <3>2, <3>4 DEF Knows, At
    <2>9. Consistent' /\ Solo'
      BY <2>1, <2>3, <2>4, <2>6, <2>7, <2>8, EndSound
    <2> QED
      BY <2>1, <2>3, <2>9 DEF CleanInv
  <1> QED
    BY <1>1, <1>2

\* Records are always active.
LEMMA ActiveStays ==
  ASSUME RecordsInv, RecordsActive, [Next]_vars
  PROVE  RecordsActive'
  <1>1. CASE UNCHANGED vars
    BY <1>1 DEF vars, RecordsActive, OnDisk, At
  <1>2. ASSUME NEW p \in Procs, Open(p) \/ OpenOrInit(p) \/ Close(p)
        PROVE  RecordsActive'
    <2>1. /\ disk' = disk
          /\ \A q \in Procs : op'[q] = op[q] \/ op'[q].name = "init"
      BY <1>2 DEF Open, Opened, OpenOrInit, Close, NoOp, RecordsInv, TypeInv, TypeOK
    <2> QED
      BY <2>1 DEF RecordsActive, OnDisk, At
  <1>3. ASSUME NEW p \in Procs, Call(p)
        PROVE  RecordsActive'
    <2>1. disk' = disk /\ \A q \in Procs \ {p} : op'[q] = op[q]
      BY <1>3 DEF Call, Reindex, Create, UpsertNew, Update, UpdateRejected, UpdateBody,
                  UpsertExisting, Delete, Begin, Release, RecordsInv, TypeInv, TypeOK
    <2>2. At(p, {"upsert_new"}, "folder")' => op'[p].seen.state = "active"
      <3>1. CASE \E i \in Ids, s \in Slugs, b \in Bodies : UpsertNew(p, i, s, b)
        BY <3>1 DEF UpsertNew, Begin, RecordsInv, TypeInv, TypeOK
      <3>2. CASE ~ \E i \in Ids, s \in Slugs, b \in Bodies : UpsertNew(p, i, s, b)
        BY <1>3, <3>2 DEF Call, Reindex, Create, Update, UpdateRejected, UpdateBody, NoOp,
                  UpsertExisting, Delete, Begin, Release, RecordsInv, TypeInv, TypeOK, At
      <3> QED
        BY <3>1, <3>2
    <2> QED
      BY <2>1, <2>2 DEF RecordsActive, OnDisk, At
  <1>4. ASSUME NEW p \in Procs, Step(p)
        PROVE  RecordsActive'
    <2>1. \A q \in Procs \ {p} : op'[q] = op[q]
      BY <1>4 DEF Step, InnerScan, ReindexBodies, WriteFolder, WriteManifest,
           WriteTargetManifest, WriteBody, WriteRow, WriteDoc, RemoveFolder, RemoveRow,
           RemoveDoc, Goto, Release, RecordsInv, TypeInv, TypeOK
    <2>2. ~At(p, {"upsert_new"}, "folder")'
      <3>1. op'[p].name = "none" \/ op'[p].step # "folder"
        BY <1>4 DEF Step, InnerScan, ReindexBodies, WriteFolder, WriteManifest,
             WriteTargetManifest, WriteBody, WriteRow, WriteDoc, RemoveFolder, RemoveRow,
             RemoveDoc, Goto, Release, NoOp, RecordsInv, TypeInv, TypeOK, Op
      <3> QED
        BY <3>1 DEF At
    <2>3. \A i \in OnDisk' : disk'[i].type = GeneratedTarget => disk'[i].state = "active"
      <3>1. CASE disk' = disk
        BY <3>1 DEF RecordsActive, OnDisk
      <3>2. CASE WriteFolder(p)
        BY <3>2 DEF WriteFolder, RecordsActive, RecordsInv, FreshInProgress, Creating, OnDisk,
                    At, TypeInv, TypeOK, RuleEntry, GeneratedTarget
      <3>3. CASE WriteManifest(p)
        <4>1. PICK i \in Ids : i = op[p].id /\ disk[i] \in Manifest /\ disk[i] # Absent
          BY <3>3, OpTyped DEF WriteManifest, At, RecordsInv
        <4>2. disk[i].type # GeneratedTarget
          BY <3>3, <4>1 DEF WriteManifest, At, RecordsInv, RulesInProgress, IsRecord
        <4>3. Patched(disk[i], op[p].patch).type = disk[i].type
          BY <4>1 DEF Patched, Manifest
        <4>4. /\ disk'[i] = Patched(disk[i], op[p].patch)
              /\ \A j \in Ids \ {i} : disk'[j] = disk[j]
          BY <3>3, <4>1 DEF WriteManifest, RecordsInv, TypeInv, TypeOK
        <4> QED
          BY <4>2, <4>3, <4>4 DEF RecordsActive, OnDisk
      <3>4. CASE WriteTargetManifest(p)
        <4>1. PICK i \in Ids : i = op[p].id /\ disk[i] \in Manifest
          BY <3>4, OpTyped DEF WriteTargetManifest, At, RecordsInv
        <4>2. disk'[i].state = "active" /\ \A j \in Ids \ {i} : disk'[j] = disk[j]
          BY <3>4, <4>1 DEF WriteTargetManifest, Manifest, RecordsInv, TypeInv, TypeOK
        <4> QED
          BY <4>2 DEF RecordsActive, OnDisk
      <3>5. CASE WriteBody(p)
        <4>1. PICK i \in Ids : i = op[p].id /\ disk[i] \in Manifest /\ disk[i] # Absent
          BY <3>5, OpTyped DEF WriteBody, At, RecordsInv
        <4>2. /\ disk'[i].state = disk[i].state /\ disk'[i].type = disk[i].type
              /\ \A j \in Ids \ {i} : disk'[j] = disk[j]
          BY <3>5, <4>1 DEF WriteBody, Manifest, RecordsInv, TypeInv, TypeOK
        <4> QED
          BY <4>1, <4>2 DEF RecordsActive, OnDisk
      <3>6. CASE RemoveFolder(p)
        BY <3>6 DEF RemoveFolder, RecordsActive, OnDisk, RecordsInv, TypeInv, TypeOK
      <3> QED
        BY <1>4, <3>1, <3>2, <3>3, <3>4, <3>5, <3>6 DEF Step, InnerScan, ReindexBodies,
           WriteRow, WriteDoc, RemoveRow, RemoveDoc
    <2> QED
      BY <2>1, <2>2, <2>3 DEF RecordsActive, At
  <1>5. ASSUME NEW p \in Procs, Fail(p) \/ FolderGone(p) \/ Crash(p)
        PROVE  RecordsActive'
    <2>1. /\ disk' = disk
          /\ \A q \in Procs : op'[q] = op[q] \/ op'[q].name = "none"
      BY <1>5 DEF Fail, FolderGone, Crash, Return, Release, NoOp, RecordsInv, TypeInv, TypeOK
    <2> QED
      BY <2>1 DEF RecordsActive, OnDisk, At
  <1>6. CASE Environment
    <2>1. op' = op
      BY <1>6 DEF Environment, ExternalWrite, ExternalRemove, Outside, DerivedLost
    <2>2. \A i \in OnDisk' : disk'[i] = disk[i] \/ disk'[i].type = RuleEntry
      BY <1>6 DEF Environment, ExternalWrite, ExternalRemove, DerivedLost, OnDisk,
                  RecordsInv, TypeInv, TypeOK
    <2> QED
      BY <2>1, <2>2 DEF RecordsActive, OnDisk, At, RuleEntry, GeneratedTarget
  <1> QED
    BY <1>1, <1>2, <1>3, <1>4, <1>5, <1>6 DEF Next

CleanAssumptions ==
  /\ UpdateTypes \subseteq {RuleEntry}
  /\ OneShot \/ \A patch \in Patches : patch.slug = Keep \/ patch.state = Keep

LEMMA InitClean == Init => CleanInv /\ RecordsActive
  <1> SUFFICES ASSUME Init PROVE CleanInv /\ RecordsActive
    OBVIOUS
  <1>1. /\ OnDisk = {} /\ \A p \in Procs : op[p].name = "none" /\ handle[p] = "closed"
        /\ derived = "clean"
    BY DEF Init, OnDisk, NoOp
  <1>2. \A i \in Ids : IndexAgrees(i) /\ SearchAgrees(i)
    BY DEF Init, IndexAgrees, SearchAgrees
  <1> QED
    BY <1>1, <1>2 DEF CleanInv, Consistent, Solo, UniqueOnDisk, RecordsActive, At

LEMMA NextClean ==
  ASSUME CleanAssumptions, RecordsInv, RecordsInv', CleanInv, [Next]_vars
  PROVE  CleanInv'
  <1>1. CASE UNCHANGED vars
    <2>1. /\ \A p : RowDue(p)' <=> RowDue(p)
          /\ \A p : DocDue(p)' <=> DocDue(p)
          /\ \A p : TableOK(p)' <=> TableOK(p)
          /\ \A p : HandOK(p)' <=> HandOK(p)
          /\ \A i : IndexAgrees(i)' <=> IndexAgrees(i)
          /\ \A i : SearchAgrees(i)' <=> SearchAgrees(i)
      BY <1>1 DEF vars, RowDue, DocDue, TableOK, Knows, HandOK, WrittenType, IndexAgrees,
                  SearchAgrees, At
    <2> QED
      BY <1>1, <2>1 DEF vars, CleanInv, Consistent, Solo, Alone, UniqueOnDisk, OnDisk, At
  <1>2. ASSUME NEW p \in Procs, Call(p)
        PROVE  CleanInv'
    <2>1. CASE derived' = "dirty"
      BY <2>1 DEF CleanInv
    <2>2. CASE derived' # "dirty"
      <3>1. Ready(p)
        BY <1>2 DEF Call, Reindex, Create, UpsertNew, Update, UpdateRejected, Updatable,
                    UpdateBody, UpsertExisting, Delete
      <3>2. Consistent' /\ Solo' /\ derived' = derived
        BY <1>2, <2>2, CallSound DEF CleanAssumptions
      <3>3. derived = "clean"
        BY <2>2, <3>1, <3>2, ReadyQuiet
      <3> QED
        BY <3>2, <3>3 DEF CleanInv
    <2> QED
      BY <2>1, <2>2
  <1>3. CASE Environment
    BY <1>3 DEF Environment, ExternalWrite, ExternalRemove, Outside, DerivedLost, CleanInv
  <1> QED
    BY <1>1, <1>2, <1>3, OpenClean, StepClean, FaultClean DEF Next

UndisturbedInv == RecordsInv /\ CleanInv /\ RecordsActive

LEMMA NextUndisturbed ==
  ASSUME CleanAssumptions
  PROVE  UndisturbedInv /\ [Next]_vars => UndisturbedInv'
  <1> SUFFICES ASSUME UndisturbedInv, [Next]_vars PROVE UndisturbedInv'
    OBVIOUS
  <1>1. RecordsInv'
    BY NextRecords DEF CleanAssumptions, UndisturbedInv
  <1> QED
    BY <1>1, NextClean, ActiveStays DEF UndisturbedInv

(* Whatever operations processes perform, in whatever order, and wherever a
   call fails before its first write: in a store that has not been disturbed
   since the last forced scan, the rows, the documents and every open slug
   table say what the folders say between two operations.  A rejected update
   leaves its new slug in the table, so the store must be closed after an
   operation or no request may rename and change the state at once. *)
THEOREM DerivedStateAgrees ==
  ASSUME UpdateTypes \subseteq {RuleEntry},
         OneShot \/ \A patch \in Patches : patch.slug = Keep \/ patch.state = Keep
  PROVE  Spec => []DerivedAgrees
  <1>1. UndisturbedInv => DerivedAgrees
    <2> SUFFICES ASSUME UndisturbedInv, derived = "clean", Busy = {}
                 PROVE  /\ \A i \in Ids : IndexAgrees(i) /\ SearchAgrees(i)
                        /\ \A p \in Procs : handle[p] = "open" => SlugsAgree(p)
      BY DEF DerivedAgrees
    <2>1. \A p \in Procs : op[p].name = "none"
      BY DEF Busy
    <2>2. \A p \in Procs : handle[p] = "open" => Ready(p)
      BY <2>1 DEF Ready
    <2> QED
      BY <2>2, QuietFacts, ReadyTable DEF UndisturbedInv, SlugsAgree
  <1>2. Init => UndisturbedInv
    BY InitRecords, InitClean DEF UndisturbedInv
  <1>3. UndisturbedInv /\ [Next]_vars => UndisturbedInv'
    BY NextUndisturbed DEF CleanAssumptions
  <1> QED
    BY <1>1, <1>2, <1>3, PTL DEF Spec

\* What a step of an undisturbed store does to a state.
LEMMA StepLegal ==
  ASSUME UndisturbedInv, derived = "clean", [Next]_vars
  PROVE  LegalStep
  <1> SUFFICES ASSUME NEW i \in Ids, Busy # {}, disk[i] # Absent, disk'[i] # Absent,
                      disk'[i].state # disk[i].state
               PROVE  <<disk[i].state, disk'[i].state>> \in Transitions
    BY DEF LegalStep
  <1>1. PICK p \in Procs : WriteManifest(p) \/ WriteTargetManifest(p) \/ WriteFolder(p)
                           \/ WriteBody(p) \/ RemoveFolder(p)
    <2>1. disk' # disk
      OBVIOUS
    <2>2. PICK q \in Procs : op[q].name # "none"
      BY DEF Busy
    <2>3. handle[q] = "open"
      BY <2>2 DEF UndisturbedInv, RecordsInv, OpenInProgress
    <2>4. ~Environment
      BY <2>1, <2>3 DEF Environment, ExternalWrite, ExternalRemove, Outside, DerivedLost
    <2>5. PICK p \in Procs : \/ Open(p) \/ OpenOrInit(p) \/ Close(p) \/ Call(p) \/ Step(p)
                             \/ Fail(p) \/ FolderGone(p) \/ Crash(p)
      BY <2>1, <2>4 DEF Next, vars
    <2>6. Step(p)
      BY <2>1, <2>5 DEF Open, Opened, OpenOrInit, Close, Call, Reindex, Create, UpsertNew,
         Update, UpdateRejected, UpdateBody, UpsertExisting, Delete, Begin, Fail, FolderGone,
         Return, Crash
    <2> QED
      BY <2>1, <2>6 DEF Step, InnerScan, ReindexBodies, WriteRow, WriteDoc, RemoveRow, RemoveDoc
  <1>2. op[p].name \notin {"none", "init", "reindex"}
    BY <1>1 DEF WriteManifest, WriteTargetManifest, WriteFolder, WriteBody, RemoveFolder, At
  <1>3. disk \in [Ids -> Manifest \cup {Absent}] /\ RecordsInv /\ CleanInv
    BY DEF UndisturbedInv, RecordsInv, TypeInv, TypeOK
  <1>4. i = op[p].id
    BY <1>1, <1>3 DEF WriteManifest, WriteTargetManifest, WriteFolder, WriteBody, RemoveFolder
  <1>5. HandOK(p) /\ (~RowDue(p) => IndexAgrees(i))
    BY <1>2, <1>3, <1>4, SoundFacts
  <1>6. CASE WriteManifest(p)
    <2>1. op[p].name = "update" /\ op[p].step = "manifest" /\ ~RowDue(p)
      BY <1>6 DEF WriteManifest, At, RowDue
    <2>2. disk'[i] = Patched(disk[i], op[p].patch) /\ disk[i] \in Manifest
      BY <1>3, <1>4, <1>6 DEF WriteManifest
    <2>3. op[p].patch.state # Keep /\ disk'[i].state = op[p].patch.state
      BY <2>2 DEF Patched, Manifest
    <2>4. index[i].state = disk[i].state
      <3>1. index[i] = RowOf(disk[i])
        BY <1>5, <2>1 DEF IndexAgrees
      <3> QED
        BY <3>1 DEF RowOf
    <2> QED
      BY <1>4, <1>5, <2>1, <2>3, <2>4 DEF HandOK
  <1>7. CASE WriteTargetManifest(p)
    <2>1. op[p].name = "upsert_existing" /\ op[p].step = "manifest" /\ ~RowDue(p)
      BY <1>7 DEF WriteTargetManifest, At, RowDue
    <2>2. disk'[i].state = "active" /\ disk[i] \in Manifest
      BY <1>3, <1>4, <1>7 DEF WriteTargetManifest, Manifest
    <2>3. disk[i].type = GeneratedTarget
      <3>1. index[i] = RowOf(disk[i])
        BY <1>5, <2>1 DEF IndexAgrees
      <3> QED
        BY <1>4, <1>5, <2>1, <3>1 DEF RowOf, HandOK, WrittenType
    <2> QED
      BY <2>2, <2>3 DEF UndisturbedInv, RecordsActive, OnDisk
  <1>8. CASE WriteFolder(p)
    BY <1>3, <1>4, <1>8 DEF WriteFolder, At, RecordsInv, FreshInProgress, Creating
  <1>9. CASE WriteBody(p)
    BY <1>3, <1>4, <1>9 DEF WriteBody, Manifest
  <1>10. CASE RemoveFolder(p)
    BY <1>3, <1>4, <1>10 DEF RemoveFolder
  <1> QED
    BY <1>1, <1>6, <1>7, <1>8, <1>9, <1>10

(* In an undisturbed store no operation, in no step of it, takes a rule along
   an edge the rule-entry schema does not have, although update checks the
   transition against the index row and writes the manifest later: the row
   still has the manifest's state when the manifest is written. *)
THEOREM TransitionsLegal ==
  ASSUME UpdateTypes \subseteq {RuleEntry},
         OneShot \/ \A patch \in Patches : patch.slug = Keep \/ patch.state = Keep
  PROVE  Spec => LegalTransitions
  <1>1. Init => UndisturbedInv
    BY InitRecords, InitClean DEF UndisturbedInv
  <1>2. UndisturbedInv /\ [Next]_vars => UndisturbedInv'
    BY NextUndisturbed DEF CleanAssumptions
  <1>3. UndisturbedInv /\ [Next]_vars => [derived = "clean" => LegalStep]_vars
    BY StepLegal
  <1> QED
    BY <1>1, <1>2, <1>3, PTL DEF Spec, LegalTransitions

-----------------------------------------------------------------------------
(***************************************************************************)
(* The store as a library: every call is one step.                         *)
(***************************************************************************)
\* What a request in progress holds, beyond HandOK.
RequestsShaped ==
  \A p \in Procs :
    /\ op[p].name \in {"update_body", "upsert_existing"} =>
         op[p].patch.slug = Keep /\ op[p].patch.state = Keep
    /\ At(p, {"delete"}, "folder") /\ derived = "clean" => disk[op[p].id] # Absent

LibraryInv == UndisturbedInv /\ RequestsShaped

\* What users see between two requests, and during one.
IdleView ==
  (\A q \in Procs : op[q].name \in {"none", "init", "reindex"}) =>
    Shown = [i \in Ids |-> disk[i]] /\ Requested = Absent /\ Phase = "idle"

Seen(p) ==
  [i \in Ids |-> IF HalfWritten(p, i) THEN [disk[i] EXCEPT !.body = op[p].patch.body]
                 ELSE disk[i]]

BusyView ==
  \A p \in Procs :
    /\ op[p].name \notin {"none", "init", "reindex"}
    /\ \A q \in Procs \ {p} : op[q].name = "none"
    => /\ Shown = Seen(p) /\ Requested = RequestOf(p)
       /\ Phase = IF Untouched(p) THEN "asked" ELSE "done"

LEMMA IdleViewed == IdleView
  <1> SUFFICES ASSUME \A q \in Procs : op[q].name \in {"none", "init", "reindex"}
               PROVE  Shown = [i \in Ids |-> disk[i]] /\ Requested = Absent /\ Phase = "idle"
    BY DEF IdleView
  <1>1. Requesting = {}
    BY DEF Requesting
  <1>2. \A p \in Procs : \A i : ~HalfWritten(p, i)
    BY DEF HalfWritten, At
  <1> QED
    BY <1>1, <1>2 DEF Shown, Requested, Phase

LEMMA BusyViewed == BusyView
  <1> SUFFICES ASSUME NEW p \in Procs, op[p].name \notin {"none", "init", "reindex"},
                      \A q \in Procs \ {p} : op[q].name = "none"
               PROVE  /\ Shown = Seen(p) /\ Requested = RequestOf(p)
                      /\ Phase = IF Untouched(p) THEN "asked" ELSE "done"
    BY DEF BusyView
  <1>1. Requesting = {p}
    BY DEF Requesting
  <1>2. Requester = p
    BY <1>1 DEF Requester
  <1>3. \A q \in Procs \ {p} : \A i : ~HalfWritten(q, i)
    BY DEF HalfWritten, At
  <1>4. Shown = Seen(p)
    <2>1. ASSUME NEW i \in Ids, HalfWritten(p, i)
          PROVE  (CHOOSE q \in Procs : HalfWritten(q, i)) = p
      BY <1>3, <2>1
    <2>2. ASSUME NEW i \in Ids
          PROVE  Shown[i] = Seen(p)[i]
      <3>1. CASE HalfWritten(p, i)
        BY <2>1, <3>1 DEF Shown, Seen
      <3>2. CASE ~HalfWritten(p, i)
        BY <1>3, <3>2 DEF Shown, Seen
      <3> QED
        BY <3>1, <3>2
    <2> QED
      BY <2>2 DEF Shown, Seen
  <1> QED
    BY <1>1, <1>2, <1>4 DEF Requested, Phase

LEMMA Viewed == IdleView /\ BusyView /\ IdleView' /\ BusyView'
  <1>1. IdleView /\ BusyView
    BY IdleViewed, BusyViewed
  <1> QED
    BY <1>1, PTL

LEMMA LibraryInit == Init => Library!Init /\ RequestsShaped
  <1> SUFFICES ASSUME Init PROVE Library!Init /\ RequestsShaped
    OBVIOUS
  <1>1. \A p \in Procs : op[p].name = "none" /\ op[p].step = "idle"
    BY DEF Init, NoOp
  <1>2. Shown = [i \in Ids |-> Absent] /\ Requested = Absent /\ Phase = "idle"
    BY <1>1, IdleViewed DEF IdleView, Init
  <1> QED
    BY <1>1, <1>2 DEF Library!Init, Init, RequestsShaped, At

\* Which steps change a folder while the store is trusted, and whose they are.
LEMMA TrustedWrite ==
  ASSUME UndisturbedInv, derived = "clean", derived' = "clean", [Next]_vars, disk' # disk
  PROVE  \E p \in Procs :
           /\ op[p].name # "none"
           /\ \/ WriteFolder(p) \/ WriteManifest(p) \/ WriteTargetManifest(p)
              \/ WriteBody(p) \/ RemoveFolder(p)
  <1>1. ~Environment
    BY DEF Environment, ExternalWrite, ExternalRemove, Outside, DerivedLost
  <1>2. PICK p \in Procs : \/ Open(p) \/ OpenOrInit(p) \/ Close(p) \/ Call(p) \/ Step(p)
                           \/ Fail(p) \/ FolderGone(p) \/ Crash(p)
    BY <1>1 DEF Next, vars
  <1>3. Step(p)
    BY <1>2 DEF Open, Opened, OpenOrInit, Close, Call, Reindex, Create, UpsertNew,
         Update, UpdateRejected, UpdateBody, UpsertExisting, Delete, Begin, Fail, FolderGone,
         Return, Crash
  <1>4. \/ WriteFolder(p) \/ WriteManifest(p) \/ WriteTargetManifest(p)
        \/ WriteBody(p) \/ RemoveFolder(p)
    BY <1>3 DEF Step, InnerScan, ReindexBodies, WriteRow, WriteDoc, RemoveRow, RemoveDoc
  <1> QED
    BY <1>4 DEF WriteFolder, WriteManifest, WriteTargetManifest, WriteBody, RemoveFolder, At

\* What a call or step makes of the operations, as far as requests go.
LEMMA RequestsKept ==
  ASSUME TypeInv, [Next]_vars, NEW p \in Procs
  PROVE  \/ /\ op'[p].name = op[p].name /\ op'[p].patch = op[p].patch
            /\ op'[p].id = op[p].id
            /\ At(p, {"delete"}, "folder")' => At(p, {"delete"}, "folder")
         \/ op'[p].name \in {"none", "init", "reindex", "create", "upsert_new", "update"}
         \/ /\ op'[p].name \in {"update_body", "upsert_existing"}
            /\ op'[p].patch.slug = Keep /\ op'[p].patch.state = Keep
         \/ op'[p].name = "delete" /\ disk'[op'[p].id] # Absent
  <1>1. CASE op'[p] = op[p]
    BY <1>1 DEF At
  <1>2. CASE op'[p] # op[p]
    <2>1. ~(UNCHANGED vars) /\ ~Environment
      BY <1>2 DEF vars, Environment, ExternalWrite, ExternalRemove, Outside, DerivedLost
    <2>2. PICK q \in Procs : \/ Open(q) \/ OpenOrInit(q) \/ Close(q) \/ Call(q) \/ Step(q)
                             \/ Fail(q) \/ FolderGone(q) \/ Crash(q)
      BY <2>1 DEF Next
    <2>3. q = p
      <3>1. CASE Open(q) \/ OpenOrInit(q) \/ Close(q)
        BY <1>2, <3>1 DEF Open, Opened, OpenOrInit, Close, TypeInv, TypeOK
      <3>2. CASE Call(q)
        BY <1>2, <3>2 DEF Call, Reindex, Create, UpsertNew, Update, UpdateRejected, UpdateBody,
                  UpsertExisting, Delete, Begin, Release, TypeInv, TypeOK
      <3>3. CASE Step(q)
        BY <1>2, <3>3 DEF Step, InnerScan, ReindexBodies, WriteFolder, WriteManifest,
             WriteTargetManifest, WriteBody, WriteRow, WriteDoc, RemoveFolder, RemoveRow,
             RemoveDoc, Goto, Release, TypeInv, TypeOK
      <3>4. CASE Fail(q) \/ FolderGone(q) \/ Crash(q)
        BY <1>2, <3>4 DEF Fail, FolderGone, Crash, Return, Release, TypeInv, TypeOK
      <3> QED
        BY <2>2, <3>1, <3>2, <3>3, <3>4
    <2>4. CASE Open(p) \/ OpenOrInit(p) \/ Close(p)
      BY <2>4 DEF Open, Opened, OpenOrInit, Close, NoOp, At, TypeInv, TypeOK
    <2>5. CASE Call(p)
      <3>1. CASE \E i \in Ids, b \in Bodies : UpdateBody(p, i, b)
        BY <3>1 DEF UpdateBody, Begin, NoPatch, TypeInv, TypeOK
      <3>2. CASE \E s \in GenSlugs, b \in Bodies : UpsertExisting(p, s, b)
        BY <3>2 DEF UpsertExisting, Begin, NoPatch, TypeInv, TypeOK
      <3>3. CASE \E i \in Ids : Delete(p, i)
        BY <3>3 DEF Delete, Begin, TypeInv, TypeOK
      <3>4. CASE \/ Reindex(p)
                 \/ \E i \in Ids, s \in Slugs, b \in Bodies :
                      Create(p, i, s, b) \/ UpsertNew(p, i, s, b)
                 \/ \E i \in Ids, patch \in Patches : Update(p, i, patch) \/ UpdateRejected(p, i, patch)
        BY <3>4 DEF Reindex, Create, UpsertNew, Update, UpdateRejected, Begin, Release, NoOp,
                    TypeInv, TypeOK
      <3> QED
        BY <2>5, <3>1, <3>2, <3>3, <3>4 DEF Call
    <2>6. CASE Step(p)
      <3>1. CASE ReindexBodies(p) \/ WriteDoc(p) \/ RemoveDoc(p)
        BY <3>1 DEF ReindexBodies, WriteDoc, RemoveDoc, Release, NoOp, TypeInv, TypeOK
      <3>2. CASE WriteManifest(p) \/ WriteTargetManifest(p)
        BY <3>2 DEF WriteManifest, WriteTargetManifest, At, TypeInv, TypeOK, Op
      <3>3. ASSUME NEW s \in Steps \ {"folder"}, Goto(p, s)
            PROVE  /\ op'[p].name = op[p].name /\ op'[p].patch = op[p].patch
                   /\ op'[p].id = op[p].id /\ ~At(p, {"delete"}, "folder")'
        BY <3>3 DEF Goto, At, TypeInv, TypeOK, Op
      <3>4. CASE ~(ReindexBodies(p) \/ WriteDoc(p) \/ RemoveDoc(p)
                   \/ WriteManifest(p) \/ WriteTargetManifest(p))
        <4>1. \E s \in {"bodies", "row", "doc"} : Goto(p, s)
          BY <2>6, <3>4 DEF Step, InnerScan, WriteFolder, WriteBody, WriteRow, RemoveFolder,
                  RemoveRow
        <4> QED
          BY <3>3, <4>1 DEF Steps
      <3> QED
        BY <3>1, <3>2, <3>4
    <2>7. CASE Fail(p) \/ FolderGone(p) \/ Crash(p)
      BY <2>7 DEF Fail, FolderGone, Crash, Return, Release, NoOp, TypeInv, TypeOK
    <2> QED
      BY <2>2, <2>3, <2>4, <2>5, <2>6, <2>7
  <1> QED
    BY <1>1, <1>2

\* Only a forced scan that finished makes the store trusted again.
LEMMA TrustRegained ==
  ASSUME [Next]_vars, derived # "clean", derived' = "clean"
  PROVE  \E p \in Procs : ReindexBodies(p) /\ derived = "repairing" /\ Alone(p) /\ UniqueOnDisk
  <1>1. ~(UNCHANGED vars) /\ ~Environment
    BY DEF vars, Environment, ExternalWrite, ExternalRemove, Outside, DerivedLost
  <1>2. PICK p \in Procs : \/ Open(p) \/ OpenOrInit(p) \/ Close(p) \/ Call(p) \/ Step(p)
                           \/ Fail(p) \/ FolderGone(p) \/ Crash(p)
    BY <1>1 DEF Next
  <1>3. Step(p)
    BY <1>2 DEF Open, Opened, OpenOrInit, Close, Call, Reindex, Create, UpsertNew,
         Update, UpdateRejected, UpdateBody, UpsertExisting, Delete, Begin, Fail, FolderGone,
         Return, Crash
  <1>4. ReindexBodies(p)
    BY <1>3 DEF Step, InnerScan, WriteFolder, WriteManifest, WriteTargetManifest, WriteBody,
         WriteRow, WriteDoc, RemoveFolder, RemoveRow, RemoveDoc
  <1> QED
    BY <1>4 DEF ReindexBodies

LEMMA LoneTrusted ==
  ASSUME UndisturbedInv, derived = "clean", NEW p \in Procs, op[p].name # "none"
  PROVE  \A q \in Procs \ {p} : op[q].name = "none" /\ handle[q] = "closed"
  BY Lone DEF UndisturbedInv

LEMMA RequestsStay ==
  ASSUME UndisturbedInv, UndisturbedInv', RequestsShaped, [Next]_vars
  PROVE  RequestsShaped'
  <1> SUFFICES ASSUME NEW p \in Procs
               PROVE  /\ op'[p].name \in {"update_body", "upsert_existing"} =>
                           op'[p].patch.slug = Keep /\ op'[p].patch.state = Keep
                      /\ At(p, {"delete"}, "folder")' /\ derived' = "clean" =>
                           disk'[op'[p].id] # Absent
    BY DEF RequestsShaped
  <1>0. TypeInv
    BY DEF UndisturbedInv, RecordsInv
  <1>1. op'[p].name \in {"update_body", "upsert_existing"} =>
          op'[p].patch.slug = Keep /\ op'[p].patch.state = Keep
    BY <1>0, RequestsKept DEF RequestsShaped
  <1>2. ASSUME At(p, {"delete"}, "folder")', derived' = "clean"
        PROVE  disk'[op'[p].id] # Absent
    <2>1. op'[p].name = "delete" /\ op'[p].step = "folder"
      BY <1>2 DEF At
    <2>2. CASE disk'[op'[p].id] # Absent
      BY <2>2
    <2>3. CASE disk'[op'[p].id] = Absent
      <3>1. op'[p].id = op[p].id /\ At(p, {"delete"}, "folder")
        BY <1>0, <1>2, <2>1, <2>3, RequestsKept
      <3>2. op[p].name # "none"
        BY <3>1 DEF At
      <3>3. derived = "clean"
        <4>1. SUFFICES ASSUME derived # "clean" PROVE FALSE
          OBVIOUS
        <4>2. PICK q \in Procs : ReindexBodies(q) /\ Alone(q)
          BY <1>2, <4>1, TrustRegained
        <4>3. q = p
          BY <3>2, <4>2 DEF Alone, UndisturbedInv, RecordsInv, OpenInProgress
        <4> QED
          BY <3>1, <4>2, <4>3 DEF ReindexBodies, At
      <3>4. disk[op[p].id] # Absent /\ disk' # disk
        BY <2>3, <3>1, <3>3 DEF RequestsShaped
      <3>5. PICK q \in Procs : /\ op[q].name # "none"
                               /\ \/ WriteFolder(q) \/ WriteManifest(q) \/ WriteTargetManifest(q)
                                  \/ WriteBody(q) \/ RemoveFolder(q)
        BY <1>2, <3>3, <3>4, TrustedWrite
      <3>6. q = p
        BY <3>2, <3>3, <3>5, LoneTrusted
      <3>7. RemoveFolder(p)
        BY <3>1, <3>5, <3>6 DEF WriteFolder, WriteManifest, WriteTargetManifest, WriteBody, At
      <3> QED
        BY <1>0, <2>1, <3>7 DEF RemoveFolder, Goto, TypeInv, TypeOK, Op
    <2> QED
      BY <2>2, <2>3
  <1> QED
    BY <1>1, <1>2

LEMMA ViewTypes ==
  TypeInv => /\ Shown \in [Ids -> Manifest \cup {Absent}]
             /\ Requested \in AnyRequest \cup {Absent}
             /\ Phase \in {"idle", "asked", "done"}
  <1> SUFFICES ASSUME TypeInv
               PROVE  /\ Shown \in [Ids -> Manifest \cup {Absent}]
                      /\ Requested \in AnyRequest \cup {Absent}
    BY DEF Phase
  <1>1. ASSUME NEW i \in Ids
        PROVE  Shown[i] \in Manifest \cup {Absent}
    <2>1. CASE \E p \in Procs : HalfWritten(p, i)
      <3>1. PICK p \in Procs : p = CHOOSE q \in Procs : HalfWritten(q, i)
        BY <2>1
      <3>2. HalfWritten(p, i)
        BY <2>1, <3>1
      <3>3. op[p].patch.body \in Bodies /\ disk[i] \in Manifest
        BY <3>2 DEF HalfWritten, At, TypeInv, TypeOK, OpShape
      <3>4. Shown[i] = [disk[i] EXCEPT !.body = op[p].patch.body]
        BY <2>1, <3>1 DEF Shown
      <3> QED
        BY <3>3, <3>4 DEF Manifest
    <2>2. CASE ~ \E p \in Procs : HalfWritten(p, i)
      BY <2>2 DEF Shown, TypeInv, TypeOK
    <2> QED
      BY <2>1, <2>2
  <1>2. Shown = [i \in Ids |-> Shown[i]]
    BY DEF Shown
  <1>3. CASE Requesting = {}
    BY <1>1, <1>2, <1>3 DEF Requested
  <1>4. CASE Requesting # {}
    <2>1. Requester \in Requesting
      BY <1>4 DEF Requester
    <2>2. PICK p \in Procs : p = Requester /\ op[p].name \notin {"none", "init", "reindex"}
      BY <2>1 DEF Requesting
    <2>3. op[p].name \in OpNames /\ op[p].id \in Ids /\ op[p].patch \in Patch
          /\ op[p].seen \in Manifest \cup {Absent}
      BY <2>2, InProgressTyped DEF Op
    <2>4. RequestOf(p) \in AnyRequest
      BY <2>3 DEF RequestOf, AnyRequest
    <2> QED
      BY <1>1, <1>2, <1>4, <2>2, <2>4 DEF Requested
  <1> QED
    BY <1>3, <1>4

LEMMA ViewTyped ==
  TypeInv' => /\ Shown' \in [Ids -> Manifest \cup {Absent}]
              /\ Requested' \in AnyRequest \cup {Absent}
              /\ Phase' \in {"idle", "asked", "done"}
  <1> DEFINE Typed == /\ Shown \in [Ids -> Manifest \cup {Absent}]
                      /\ Requested \in AnyRequest \cup {Absent}
                      /\ Phase \in {"idle", "asked", "done"}
  <1>1. TypeInv => Typed
    BY ViewTypes
  <1>2. TypeInv' => Typed'
    BY <1>1, PTL
  <1> QED
    BY <1>2

LEMMA SameShown ==
  ASSUME disk' = disk,
         \A p \in Procs : \/ op'[p] = op[p]
                          \/ /\ \A i : ~HalfWritten(p, i)
                             /\ ~At(p, {"update"}, "body")'
  PROVE  Shown' = Shown
  <1>1. ASSUME NEW p \in Procs, NEW i
        PROVE  /\ HalfWritten(p, i)' <=> HalfWritten(p, i)
               /\ HalfWritten(p, i) => op'[p] = op[p]
    BY DEF HalfWritten, At
  <1>2. ASSUME NEW i \in Ids
        PROVE  Shown'[i] = Shown[i]
    <2>1. (CHOOSE p \in Procs : HalfWritten(p, i)') = CHOOSE p \in Procs : HalfWritten(p, i)
      BY <1>1
    <2>2. CASE \E p \in Procs : HalfWritten(p, i)
      <3>1. PICK p \in Procs : p = CHOOSE q \in Procs : HalfWritten(q, i)
        BY <2>2
      <3>2. HalfWritten(p, i) /\ op'[p] = op[p] /\ HalfWritten(p, i)'
        BY <1>1, <2>2, <3>1
      <3>3. Shown[i] = [disk[i] EXCEPT !.body = op[p].patch.body]
        BY <2>2, <3>1 DEF Shown
      <3>4. Shown'[i] = [disk'[i] EXCEPT !.body = op'[p].patch.body]
        BY <2>1, <3>1, <3>2 DEF Shown
      <3> QED
        BY <3>2, <3>3, <3>4
    <2>3. CASE ~ \E p \in Procs : HalfWritten(p, i)
      <3>1. ~ \E p \in Procs : HalfWritten(p, i)'
        BY <1>1, <2>3
      <3> QED
        BY <2>3, <3>1 DEF Shown
    <2> QED
      BY <2>2, <2>3
  <1> QED
    BY <1>2 DEF Shown

\* What leaves folders and operations alone is not seen.
LEMMA SameView ==
  ASSUME disk' = disk, op' = op
  PROVE  Shown' = Shown /\ Requested' = Requested /\ Phase' = Phase
  <1>1. Shown' = Shown
    BY SameShown
  <1>2. Requesting' = Requesting /\ Requester' = Requester
    BY DEF Requesting, Requester
  <1> QED
    BY <1>1, <1>2 DEF Requested, RequestOf, Phase, Untouched

LEMMA FaultsCount ==
  ASSUME TypeInv, [Next]_vars
  PROVE  faults \in Nat /\ faults' \in {faults, faults + 1}
  <1>1. faults \in Nat
    BY InputAssumption DEF TypeInv, TypeOK
  <1> SUFFICES faults' \in {faults, faults + 1}
    BY <1>1
  <1>2. CASE UNCHANGED vars \/ Environment
    BY <1>2 DEF vars, Environment, ExternalWrite, ExternalRemove, Outside, DerivedLost
  <1>3. CASE \E p \in Procs : Open(p) \/ OpenOrInit(p) \/ Close(p) \/ Call(p)
    BY <1>3 DEF Open, Opened, OpenOrInit, Close, Call, Reindex, Create, UpsertNew,
         Update, UpdateRejected, UpdateBody, UpsertExisting, Delete, Begin
  <1>4. CASE \E p \in Procs : Step(p)
    BY <1>4 DEF Step, InnerScan, ReindexBodies, WriteFolder, WriteManifest, WriteTargetManifest,
         WriteBody, WriteRow, WriteDoc, RemoveFolder, RemoveRow, RemoveDoc
  <1>5. CASE \E p \in Procs : Fail(p) \/ FolderGone(p) \/ Crash(p)
    BY <1>5 DEF Fail, FolderGone, Crash
  <1> QED
    BY <1>1, <1>2, <1>3, <1>4, <1>5 DEF Next

\* No fault, and the store is no longer trusted: nothing is seen of it.
LEMMA DistrustUnseen ==
  ASSUME TypeInv, OpenInProgress, [Next]_vars, derived = "clean", derived' # "clean",
         faults' = faults
  PROVE  Shown' = Shown
  <1>1. ~(UNCHANGED vars) /\ ~Environment
    BY FaultsCount DEF vars, Environment, ExternalWrite, ExternalRemove, Outside, DerivedLost
  <1>2. PICK p \in Procs : \/ Open(p) \/ OpenOrInit(p) \/ Close(p) \/ Call(p) \/ Step(p)
                           \/ Fail(p) \/ FolderGone(p) \/ Crash(p)
    BY <1>1 DEF Next
  <1>3. CASE Open(p)
    BY <1>3, SameView DEF Open, Opened
  <1>4. CASE OpenOrInit(p)
    <2>1. op[p].name = "none"
      BY <1>4 DEF OpenOrInit, OpenInProgress
    <2>2. /\ disk' = disk /\ op'[p].name = "init"
          /\ \A q \in Procs \ {p} : op'[q] = op[q]
      BY <1>4 DEF OpenOrInit, NoOp, TypeInv, TypeOK
    <2> QED
      BY <2>1, <2>2, SameShown DEF HalfWritten, At
  <1>5. CASE Call(p)
    <2>1. op[p].name = "none"
      BY <1>5 DEF Call, Reindex, Create, UpsertNew, Update, UpdateRejected, Updatable,
                  UpdateBody, UpsertExisting, Delete, Ready
    <2>2. ~(\E i \in Ids, patch \in Patches : UpdateRejected(p, i, patch))
      BY DEF UpdateRejected
    <2>3. /\ disk' = disk
          /\ op'[p].name = "update" => op'[p].step # "body"
          /\ \A q \in Procs \ {p} : op'[q] = op[q]
      BY <1>5, <2>2 DEF Call, Reindex, Create, UpsertNew, Update, UpdateBody, UpsertExisting,
                        Delete, Begin, TypeInv, TypeOK
    <2> QED
      BY <2>1, <2>3, SameShown DEF HalfWritten, At
  <1>6. CASE Step(p)
    <2>1. InnerScan(p) \/ ReindexBodies(p)
      BY <1>6 DEF Step, WriteFolder, WriteManifest, WriteTargetManifest, WriteBody, WriteRow,
                  WriteDoc, RemoveFolder, RemoveRow, RemoveDoc
    <2>2. /\ disk' = disk /\ op[p].name \in {"reindex", "init"}
          /\ op'[p].name \in {"reindex", "init", "none"}
          /\ \A q \in Procs \ {p} : op'[q] = op[q]
      BY <2>1 DEF InnerScan, ReindexBodies, Goto, Release, NoOp, At, TypeInv, TypeOK, Op
    <2> QED
      BY <2>2, SameShown DEF HalfWritten, At
  <1>7. CASE FolderGone(p)
    <2>1. /\ disk' = disk /\ op'[p].name = "none"
          /\ \A q \in Procs \ {p} : op'[q] = op[q]
      BY <1>7 DEF FolderGone, Return, Release, NoOp, TypeInv, TypeOK
    <2>2. \A i : ~HalfWritten(p, i)
      BY <1>7 DEF FolderGone, HalfWritten, At
    <2> QED
      BY <2>1, <2>2, SameShown DEF At
  <1> QED
    BY <1>2, <1>3, <1>4, <1>5, <1>6, <1>7, FaultsCount DEF Close, Fail, Crash

LEMMA LibraryDistrust ==
  ASSUME TypeInv, TypeInv', OpenInProgress, [Next]_vars, derived' # "clean"
  PROVE  Library!Distrust
  <1>1. /\ Shown' \in [Ids -> Manifest \cup {Absent}]
        /\ Requested' \in AnyRequest \cup {Absent} /\ Phase' \in {"idle", "asked", "done"}
    BY ViewTyped
  <1>2. faults' \in {faults, faults + 1}
    BY FaultsCount
  <1>3. derived = "clean" /\ faults' = faults => Shown' = Shown
    BY DistrustUnseen
  <1>4. (derived = "clean")' = FALSE
    OBVIOUS
  <1> QED
    BY <1>1, <1>2, <1>3, <1>4 DEF Library!Distrust

LEMMA LibraryRestore ==
  ASSUME TypeInv, OpenInProgress, [Next]_vars, derived # "clean", derived' = "clean"
  PROVE  Library!Restore
  <1>1. PICK p \in Procs : ReindexBodies(p) /\ Alone(p) /\ UniqueOnDisk
    BY TrustRegained
  <1>2. /\ \A q \in Procs : op[q].name \in {"none", "init", "reindex"}
        /\ \A q \in Procs : op'[q].name = "none"
        /\ disk' = disk /\ faults' = faults
    BY <1>1 DEF ReindexBodies, Release, NoOp, Alone, OpenInProgress, At, TypeInv, TypeOK
  <1>3. /\ Shown = [i \in Ids |-> disk[i]] /\ Shown' = Shown
        /\ Requested' = Absent /\ Phase' = "idle"
    BY <1>2, Viewed DEF IdleView
  <1>4. Library!Distinct
    BY <1>1, <1>3 DEF Library!Distinct, Library!SlugFree, UniqueOnDisk, OnDisk
  <1>5. (derived = "clean") = FALSE /\ (derived = "clean")' = TRUE
    OBVIOUS
  <1> QED
    BY <1>2, <1>3, <1>4, <1>5 DEF Library!Restore

\* Between two operations of a trusted store.
LEMMA TrustedReady ==
  ASSUME UndisturbedInv, derived = "clean", NEW p \in Procs, Ready(p)
  PROVE  /\ \A q \in Procs : op[q].name = "none"
         /\ Shown = [i \in Ids |-> disk[i]] /\ Requested = Absent /\ Phase = "idle"
         /\ \A i \in Ids : index[i] # Absent =>
              disk[i] # Absent /\ disk[i] \in Manifest
              /\ index[i].type = disk[i].type /\ index[i].state = disk[i].state
         /\ \A s \in Slugs, i \in Ids :
              slugIndex[p][s] = i <=> disk[i] # Absent /\ disk[i].slug = s
  <1>0. RecordsInv /\ CleanInv /\ Busy = {}
    BY ReadyQuiet DEF UndisturbedInv
  <1>1. \A q \in Procs : op[q].name = "none"
    BY <1>0 DEF Busy
  <1>2. Shown = [i \in Ids |-> disk[i]] /\ Requested = Absent /\ Phase = "idle"
    BY <1>1, Viewed DEF IdleView
  <1>3. ASSUME NEW i \in Ids, index[i] # Absent
        PROVE  disk[i] # Absent /\ disk[i] \in Manifest
               /\ index[i].type = disk[i].type /\ index[i].state = disk[i].state
    <2>1. index[i] = RowOf(disk[i]) /\ disk[i] # Absent
      BY <1>0, <1>3, QuietFacts DEF IndexAgrees
    <2> QED
      BY <1>0, <2>1 DEF RowOf, RecordsInv, TypeInv, TypeOK
  <1> QED
    BY <1>0, <1>1, <1>2, <1>3, ReadyTable

\* A call that begins is a request the library accepts.
LEMMA LibraryAccept ==
  ASSUME UndisturbedInv, TypeInv', derived = "clean", derived' = "clean",
         NEW p \in Procs, Ready(p),
         NEW name, NEW step, NEW i, NEW patch, NEW seen, NEW table,
         Begin(p, name, step, i, patch, seen, table),
         \/ name \in {"create", "upsert_new", "delete"} /\ step = "folder"
         \/ name \in {"update", "upsert_existing"} /\ step = "manifest"
         \/ name = "update_body" /\ step = "body",
         NEW r, r = [name |-> name, id |-> i, patch |-> patch,
                     rule |-> IF name \in {"create", "upsert_new"} THEN seen ELSE Absent],
         Library!Allowed(r)
  PROVE  Library!Accept
  <1>0. RecordsInv /\ TypeInv
    BY DEF UndisturbedInv, RecordsInv
  <1>1. /\ \A q \in Procs : op[q].name = "none"
        /\ Shown = [j \in Ids |-> disk[j]] /\ Phase = "idle"
    BY TrustedReady
  <1>2. /\ op'[p].name = name /\ op'[p].step = step /\ op'[p].id = i
        /\ op'[p].patch = patch /\ op'[p].seen = seen /\ disk' = disk /\ faults' = faults
        /\ \A q \in Procs \ {p} : op'[q] = op[q]
    BY <1>0, BeginFields DEF Begin, TypeInv, TypeOK
  <1>3. name \notin {"none", "init", "reindex"}
    OBVIOUS
  <1>4. Untouched(p)' /\ \A j : ~HalfWritten(p, j)'
    BY <1>2 DEF Untouched, HalfWritten, At
  <1>5. Shown' = Seen(p)' /\ Requested' = RequestOf(p)' /\ Phase' = "asked"
    <2>1. \A q \in Procs \ {p} : op'[q].name = "none"
      BY <1>1, <1>2
    <2> QED
      BY <1>2, <1>3, <1>4, <2>1, Viewed DEF BusyView
  <1>6. Shown' = Shown
    BY <1>1, <1>2, <1>4, <1>5 DEF Seen
  <1>7. Requested' = r
    BY <1>2, <1>5 DEF RequestOf
  <1>8. op'[p] \in Op /\ op'[p].id \in Ids
    BY <1>2, <1>3 DEF TypeInv, TypeOK, OpShape
  <1>9. Requested' \in AnyRequest
    BY <1>5, <1>8 DEF RequestOf, AnyRequest, Op
  <1> QED
    BY <1>1, <1>2, <1>5, <1>6, <1>7, <1>9 DEF Library!Accept

\* Every call is one the library accepts, or is not seen.
LEMMA LibraryCall ==
  ASSUME UndisturbedInv, UndisturbedInv', UpdateTypes \subseteq {RuleEntry},
         derived = "clean", derived' = "clean", NEW p \in Procs, Call(p)
  PROVE  Library!Accept \/ UNCHANGED <<Shown, Requested, Phase, derived = "clean", faults>>
  <1>0. RecordsInv /\ TypeInv /\ TypeInv' /\ RecordsActive
    BY DEF UndisturbedInv, RecordsInv
  <1>1. Ready(p)
    BY DEF Call, Reindex, Create, UpsertNew, Update, UpdateRejected, Updatable, UpdateBody,
           UpsertExisting, Delete
  <1>2. /\ \A q \in Procs : op[q].name = "none"
        /\ Shown = [i \in Ids |-> disk[i]] /\ Requested = Absent /\ Phase = "idle"
        /\ \A i \in Ids : index[i] # Absent =>
             disk[i] # Absent /\ disk[i] \in Manifest
             /\ index[i].type = disk[i].type /\ index[i].state = disk[i].state
        /\ \A s \in Slugs, i \in Ids :
             slugIndex[p][s] = i <=> disk[i] # Absent /\ disk[i].slug = s
    BY <1>1, TrustedReady
  <1>3. ASSUME NEW s \in Slugs, NEW i \in Ids, slugIndex[p][s] \in {Absent, i}
        PROVE  Library!SlugFree(s, i)
    BY <1>2, <1>3, AbsentAssumption DEF Library!SlugFree
  <1>4. ASSUME NEW i \in Ids, NEW s \in Slugs, NEW b \in Bodies,
               Create(p, i, s, b) \/ UpsertNew(p, i, s, b)
        PROVE  Library!Accept
    <2> DEFINE name == IF Create(p, i, s, b) THEN "create" ELSE "upsert_new"
               rule == [type  |-> IF name = "create" THEN RuleEntry ELSE GeneratedTarget,
                        slug  |-> s, body |-> b,
                        state |-> IF name = "create" THEN "draft" ELSE "active"]
               req  == [name |-> name, id |-> i, patch |-> NoPatch, rule |-> rule]
    <2>1. slugIndex[p][s] = Absent /\ disk[i] = Absent
      BY <1>4 DEF Create, UpsertNew, Fresh
    <2>2. Library!SlugFree(s, i) /\ Shown[i] = Absent
      BY <1>2, <1>3, <2>1
    <2>3. Library!Creates(req)
      BY <2>2 DEF Library!Creates, RuleEntry, GeneratedTarget
    <2>4. Begin(p, name, "folder", i, NoPatch, rule, slugIndex[p])
      <3>1. CASE Create(p, i, s, b)
        BY <3>1, Zenon DEF Create
      <3>2. CASE ~Create(p, i, s, b)
        BY <1>4, <3>2, Zenon DEF UpsertNew
      <3> QED
        BY <3>1, <3>2
    <2> QED
      BY <1>0, <1>1, <2>3, <2>4, LibraryAccept DEF Library!Allowed
  <1>5. ASSUME NEW i \in Ids, NEW patch \in Patches, Update(p, i, patch)
        PROVE  Library!Accept
    <2> DEFINE req == [name |-> "update", id |-> i, patch |-> patch, rule |-> Absent]
    <2>1. /\ index[i] # Absent /\ index[i].type = "rule-entry"
          /\ SlugAccepted(p, i, patch) /\ TransitionAllowed(i, patch)
          /\ Begin(p, "update", "manifest", i, patch, Absent, PatchedSlugs(p, i, patch))
      BY <1>5 DEF Update, Updatable, Indexed, RuleEntry
    <2>2. patch \in Patch
      BY InputAssumption
    <2>3. patch.slug # Keep => Library!SlugFree(patch.slug, i)
      BY <1>3, <2>1, <2>2 DEF SlugAccepted, Patch
    <2>4. Library!Updates(req)
      BY <1>2, <2>1, <2>3 DEF Library!Updates, TransitionAllowed
    <2> QED
      BY <1>0, <1>1, <2>1, <2>4, LibraryAccept DEF Library!Allowed
  <1>6. ASSUME NEW i \in Ids, NEW b \in Bodies, UpdateBody(p, i, b)
        PROVE  Library!Accept
    <2> DEFINE patch == [NoPatch EXCEPT !.body = b]
               req == [name |-> "update_body", id |-> i, patch |-> patch, rule |-> Absent]
    <2>1. /\ index[i] # Absent /\ index[i].type = "rule-entry"
          /\ Begin(p, "update_body", "body", i, patch, disk[i], slugIndex[p])
      BY <1>6 DEF UpdateBody, Indexed, RuleEntry
    <2>2. Library!Rewrites(req)
      BY <1>2, <2>1 DEF Library!Rewrites
    <2> HIDE DEF patch
    <2> QED
      BY <1>0, <1>1, <2>1, <2>2, LibraryAccept DEF Library!Allowed
  <1>7. ASSUME NEW s \in GenSlugs, NEW b \in Bodies, UpsertExisting(p, s, b)
        PROVE  Library!Accept
    <2> DEFINE i == slugIndex[p][s]
               patch == [NoPatch EXCEPT !.body = b]
               req == [name |-> "upsert_existing", id |-> i, patch |-> patch, rule |-> Absent]
    <2>1. /\ i \in Ids /\ index[i] # Absent /\ index[i].type = "generated-target"
          /\ Begin(p, "upsert_existing", "manifest", i, patch, Absent, slugIndex[p])
      BY <1>7 DEF UpsertExisting, Indexed, GeneratedTarget
    <2>2. disk[i] # Absent /\ disk[i].type = "generated-target" /\ disk[i].state = "active"
      BY <1>0, <1>2, <2>1 DEF RecordsActive, OnDisk, GeneratedTarget
    <2>3. Library!Rewrites(req)
      BY <1>2, <2>1, <2>2 DEF Library!Rewrites
    <2> HIDE DEF i, patch
    <2> QED
      BY <1>0, <1>1, <2>1, <2>3, LibraryAccept DEF Library!Allowed
  <1>8. ASSUME NEW i \in Ids, Delete(p, i)
        PROVE  Library!Accept
    <2> DEFINE req == [name |-> "delete", id |-> i, patch |-> NoPatch, rule |-> Absent]
    <2>1. /\ disk[i] # Absent
          /\ Begin(p, "delete", "folder", i, NoPatch, Absent,
                   [slugIndex[p] EXCEPT ![disk[i].slug] = Absent])
      BY <1>8 DEF Delete
    <2>2. Library!Deletes(req)
      BY <1>2, <2>1 DEF Library!Deletes
    <2> QED
      BY <1>0, <1>1, <2>1, <2>2, LibraryAccept DEF Library!Allowed
  <1>9. CASE \/ Reindex(p)
             \/ \E i \in Ids, patch \in Patches : UpdateRejected(p, i, patch)
    <2>1. /\ disk' = disk /\ faults' = faults
          /\ op'[p].name \in {"none", "reindex"}
          /\ \A q \in Procs \ {p} : op'[q] = op[q]
      BY <1>0, <1>9 DEF Reindex, Begin, UpdateRejected, Release, NoOp, TypeInv, TypeOK
    <2>2. \A q \in Procs : op'[q].name \in {"none", "init", "reindex"}
      BY <1>2, <2>1
    <2>3. Shown' = [i \in Ids |-> disk'[i]] /\ Requested' = Absent /\ Phase' = "idle"
      BY <2>2, Viewed DEF IdleView
    <2> QED
      BY <1>2, <2>1, <2>3
  <1> QED
    BY <1>4, <1>5, <1>6, <1>7, <1>8, <1>9 DEF Call

LEMMA LoneTrustedAfter ==
  UndisturbedInv' /\ derived' = "clean" =>
    \A p \in Procs : op'[p].name # "none" =>
      \A q \in Procs \ {p} : op'[q].name = "none" /\ handle'[q] = "closed"
  <1> DEFINE Lonely == \A p \in Procs : op[p].name # "none" =>
                         \A q \in Procs \ {p} : op[q].name = "none" /\ handle[q] = "closed"
  <1>1. UndisturbedInv /\ derived = "clean" => Lonely
    BY LoneTrusted
  <1>2. UndisturbedInv' /\ (derived = "clean")' => Lonely'
    BY <1>1, PTL
  <1> QED
    BY <1>2

\* The first write of a request performs it.
LEMMA LibraryPerform ==
  ASSUME UndisturbedInv, UndisturbedInv', derived = "clean", derived' = "clean",
         NEW p \in Procs, op[p].name \notin {"none", "init", "reindex"},
         op'[p].name = op[p].name, op'[p].id = op[p].id, op'[p].patch = op[p].patch,
         op[p].name \in {"create", "upsert_new"} => op'[p].seen = op[p].seen,
         Untouched(p), ~Untouched(p)', faults' = faults,
         NEW i, i = op[p].id,
         \A j \in Ids \ {i} : disk'[j] = disk[j],
         Seen(p)'[i] = Library!Outcome(RequestOf(p))
  PROVE  Library!Perform
  <1>0. TypeInv /\ TypeInv' /\ i \in Ids
    BY InProgressTyped DEF UndisturbedInv, RecordsInv
  <1>1. \A q \in Procs \ {p} : op[q].name = "none" /\ op'[q].name = "none"
    BY <1>0, LoneTrusted, LoneTrustedAfter
  <1>2. /\ Shown = Seen(p) /\ Requested = RequestOf(p) /\ Phase = "asked"
        /\ Shown' = Seen(p)' /\ Requested' = RequestOf(p)' /\ Phase' = "done"
    BY <1>1, Viewed DEF BusyView
  <1>3. RequestOf(p)' = RequestOf(p) /\ RequestOf(p).id = i
    BY DEF RequestOf
  <1>4. \A j : ~HalfWritten(p, j)
    BY DEF HalfWritten, Untouched, At
  <1>5. Shown = [j \in Ids |-> disk[j]]
    BY <1>2, <1>4 DEF Seen
  <1>6. \A j \in Ids \ {i} : ~HalfWritten(p, j)'
    BY DEF HalfWritten
  <1>7. \A j \in Ids \ {i} : Shown'[j] = Shown[j]
    BY <1>2, <1>5, <1>6 DEF Seen
  <1>8. Shown' = [Shown EXCEPT ![i] = Library!Outcome(Requested)]
    BY <1>0, <1>2, <1>5, <1>7 DEF Seen
  <1> QED
    BY <1>2, <1>3, <1>8 DEF Library!Perform

\* A request that has not written yet leaves the folders as users see them.
LEMMA AskedShown ==
  ASSUME UndisturbedInv, derived = "clean", NEW p \in Procs,
         op[p].name \notin {"none", "init", "reindex"}, Untouched(p)
  PROVE  \A i \in Ids : Shown[i] = disk[i]
  <1>1. \A q \in Procs \ {p} : op[q].name = "none"
    BY LoneTrusted
  <1>2. Shown = Seen(p)
    BY <1>1, Viewed DEF BusyView
  <1> QED
    BY <1>2 DEF Seen, HalfWritten, Untouched, At

\* A step of a request is not seen when it changes neither what there is to
\* see nor the phase.
LEMMA LibraryUnseen ==
  ASSUME UndisturbedInv, UndisturbedInv', derived = "clean", derived' = "clean",
         NEW p \in Procs, op[p].name \notin {"none", "init", "reindex"},
         op'[p].name = op[p].name, op'[p].id = op[p].id, op'[p].patch = op[p].patch,
         op[p].name \in {"create", "upsert_new"} => op'[p].seen = op[p].seen,
         Untouched(p)' <=> Untouched(p), faults' = faults,
         Seen(p)' = Seen(p)
  PROVE  UNCHANGED <<Shown, Requested, Phase, derived = "clean", faults>>
  <1>1. \A q \in Procs \ {p} : op[q].name = "none" /\ op'[q].name = "none"
    BY LoneTrusted, LoneTrustedAfter
  <1>2. /\ Shown = Seen(p) /\ Requested = RequestOf(p)
        /\ Phase = IF Untouched(p) THEN "asked" ELSE "done"
        /\ Shown' = Seen(p)' /\ Requested' = RequestOf(p)'
        /\ Phase' = IF Untouched(p)' THEN "asked" ELSE "done"
    BY <1>1, Viewed DEF BusyView
  <1>3. RequestOf(p)' = RequestOf(p)
    BY DEF RequestOf
  <1> QED
    BY <1>2, <1>3

\* The request ends with its last write.
LEMMA LibraryAnswer ==
  ASSUME UndisturbedInv, UndisturbedInv', derived = "clean", derived' = "clean",
         NEW p \in Procs, WriteDoc(p) \/ RemoveDoc(p)
  PROVE  Library!Answer
  <1>0. TypeInv /\ TypeInv'
    BY DEF UndisturbedInv, RecordsInv
  <1>1. op[p].name \notin {"none", "init", "reindex"} /\ op[p].step = "doc"
    BY DEF WriteDoc, RemoveDoc, At
  <1>2. \A q \in Procs \ {p} : op[q].name = "none"
    BY <1>1, LoneTrusted
  <1>3. /\ op' = [op EXCEPT ![p] = NoOp] /\ disk' = disk /\ faults' = faults
    BY DEF WriteDoc, RemoveDoc, Release
  <1>4. \A q \in Procs : op'[q].name = "none"
    BY <1>0, <1>2, <1>3 DEF NoOp, TypeInv, TypeOK
  <1>5. Shown = Seen(p) /\ Phase = IF Untouched(p) THEN "asked" ELSE "done"
    BY <1>1, <1>2, Viewed DEF BusyView
  <1>6. ~Untouched(p) /\ \A i : ~HalfWritten(p, i)
    BY <1>1 DEF Untouched, HalfWritten, At
  <1>7. Shown' = [i \in Ids |-> disk'[i]] /\ Requested' = Absent /\ Phase' = "idle"
    BY <1>4, Viewed DEF IdleView
  <1> QED
    BY <1>3, <1>5, <1>6, <1>7 DEF Library!Answer, Seen

LEMMA PatchedWithBody ==
  ASSUME NEW m \in Manifest, NEW patch \in Patch
  PROVE  [m EXCEPT !.slug  = IF patch.slug  = Keep THEN @ ELSE patch.slug,
                   !.state = IF patch.state = Keep THEN @ ELSE patch.state,
                   !.body  = IF patch.body  = Keep THEN @ ELSE patch.body]
         = IF patch.body = Keep THEN Patched(m, patch)
           ELSE [Patched(m, patch) EXCEPT !.body = patch.body]
  <1> DEFINE slug  == IF patch.slug  = Keep THEN m.slug ELSE patch.slug
             state == IF patch.state = Keep THEN m.state ELSE patch.state
             body  == IF patch.body  = Keep THEN m.body ELSE patch.body
  <1>1. ASSUME NEW r \in Manifest, NEW s, NEW t, NEW b
        PROVE  /\ [r EXCEPT !.slug = s] = [type |-> r.type, slug |-> s, state |-> r.state, body |-> r.body]
               /\ [r EXCEPT !.state = t] = [type |-> r.type, slug |-> r.slug, state |-> t, body |-> r.body]
               /\ [r EXCEPT !.body = b] = [type |-> r.type, slug |-> r.slug, state |-> r.state, body |-> b]
    BY DEF Manifest
  <1>2. slug \in Slugs /\ state \in States /\ body \in Bodies
    BY DEF Manifest, Patch
  <1>3. [m EXCEPT !.slug = slug] \in Manifest
    <2> HIDE DEF slug
    <2> QED
      BY <1>1, <1>2 DEF Manifest
  <1>4. /\ [m EXCEPT !.slug = slug, !.state = state] \in Manifest
        /\ [m EXCEPT !.slug = slug, !.state = state]
             = [type |-> m.type, slug |-> slug, state |-> state, body |-> m.body]
    <2> HIDE DEF slug, state
    <2> QED
      BY <1>1, <1>2, <1>3 DEF Manifest
  <1>5. /\ [m EXCEPT !.slug = slug, !.state = state, !.body = body]
             = [type |-> m.type, slug |-> slug, state |-> state, body |-> body]
        /\ [[m EXCEPT !.slug = slug, !.state = state] EXCEPT !.body = patch.body]
             = [type |-> m.type, slug |-> slug, state |-> state, body |-> patch.body]
    <2> HIDE DEF slug, state, body
    <2> QED
      BY <1>1, <1>4
  <1>6. Patched(m, patch) = [m EXCEPT !.slug = slug, !.state = state]
    BY Zenon DEF Patched
  <1>7. CASE patch.body = Keep
    BY <1>4, <1>5, <1>6, <1>7
  <1>8. CASE patch.body # Keep
    BY <1>4, <1>5, <1>6, <1>8
  <1> QED
    BY <1>7, <1>8

LEMMA LibraryStep ==
  ASSUME UndisturbedInv, UndisturbedInv', RequestsShaped,
         derived = "clean", derived' = "clean", NEW p \in Procs, Step(p)
  PROVE  \/ Library!Perform \/ Library!Answer
         \/ UNCHANGED <<Shown, Requested, Phase, derived = "clean", faults>>
  <1>0. RecordsInv /\ CleanInv /\ RecordsActive /\ TypeInv /\ TypeInv'
    BY DEF UndisturbedInv, RecordsInv
  <1> DEFINE i == op[p].id
  <1>1. CASE InnerScan(p) \/ ReindexBodies(p)
    BY <1>1 DEF InnerScan, ReindexBodies
  <1>2. CASE WriteDoc(p) \/ RemoveDoc(p)
    BY <1>2, LibraryAnswer
  <1>3. CASE WriteFolder(p)
    <2>1. /\ op[p].name \in {"create", "upsert_new"} /\ op[p].step = "folder" /\ i \in Ids
          /\ op[p].seen \in Manifest
      BY <1>0, <1>3 DEF WriteFolder, At, TypeInv, OpShape
    <2>2. /\ op'[p] = [op[p] EXCEPT !.step = "row"] /\ faults' = faults
          /\ disk' = [disk EXCEPT ![i] = op[p].seen] /\ op[p] \in Op
      BY <1>0, <1>3 DEF WriteFolder, Goto, TypeInv, TypeOK
    <2>3. /\ op'[p].name = op[p].name /\ op'[p].id = op[p].id /\ op'[p].patch = op[p].patch
          /\ op'[p].seen = op[p].seen /\ op'[p].step = "row"
      BY <2>2 DEF Op
    <2>4. /\ \A j \in Ids \ {i} : disk'[j] = disk[j]
          /\ disk'[i] = op[p].seen
      BY <1>0, <2>1, <2>2 DEF TypeInv, TypeOK
    <2>5. Seen(p)'[i] = Library!Outcome(RequestOf(p))
      BY <2>1, <2>3, <2>4 DEF Seen, HalfWritten, At, RequestOf, Library!Outcome
    <2>6. Untouched(p) /\ ~Untouched(p)'
      BY <2>1, <2>3 DEF Untouched
    <2> QED
      BY <2>1, <2>2, <2>3, <2>4, <2>5, <2>6, LibraryPerform
  <1>4. CASE WriteManifest(p)
    <2> DEFINE patch == op[p].patch
    <2>1. /\ op[p].name = "update" /\ op[p].step = "manifest" /\ i \in Ids
          /\ disk[i] \in Manifest /\ op[p] \in Op /\ patch \in Patch
      <3>1. op[p].name = "update" /\ op[p].step = "manifest" /\ disk[i] # Absent
        BY <1>4 DEF WriteManifest, At
      <3>2. op[p] \in Op /\ i \in Ids
        BY <1>0, <3>1, InProgressTyped
      <3>3. patch \in Patch
        BY <3>2 DEF Op
      <3> QED
        BY <1>0, <3>1, <3>2, <3>3 DEF TypeInv, TypeOK
    <2>2. /\ op'[p].name = op[p].name /\ op'[p].id = op[p].id /\ op'[p].patch = patch
          /\ op'[p].step = (IF patch.body = Keep THEN "row" ELSE "body")
          /\ faults' = faults
      BY <1>0, <1>4, <2>1 DEF WriteManifest, TypeInv, TypeOK, Op
    <2>3. /\ \A j \in Ids \ {i} : disk'[j] = disk[j]
          /\ disk'[i] = Patched(disk[i], patch)
      BY <1>0, <1>4, <2>1 DEF WriteManifest, TypeInv, TypeOK
    <2>4. Untouched(p) /\ ~Untouched(p)'
      BY <2>1, <2>2 DEF Untouched
    <2>5. Shown[i] = disk[i]
      BY <2>1, <2>4, AskedShown
    <2>6. disk'[i] # Absent /\ disk'[i] \in Manifest
      BY <2>1, <2>3, AbsentAssumption, KeepAssumption DEF Patched, Manifest, Patch
    <2>7. Seen(p)'[i] = (IF patch.body = Keep THEN Patched(disk[i], patch)
                         ELSE [Patched(disk[i], patch) EXCEPT !.body = patch.body])
      BY <2>1, <2>2, <2>3, <2>6 DEF Seen, HalfWritten, At
    <2>8. Library!Outcome(RequestOf(p)) =
            [disk[i] EXCEPT !.slug  = IF patch.slug  = Keep THEN @ ELSE patch.slug,
                            !.state = IF patch.state = Keep THEN @ ELSE patch.state,
                            !.body  = IF patch.body  = Keep THEN @ ELSE patch.body]
      BY <2>1, <2>5 DEF Library!Outcome, RequestOf
    <2>9. Seen(p)'[i] = Library!Outcome(RequestOf(p))
      BY <2>1, <2>7, <2>8, PatchedWithBody
    <2> QED
      BY <2>1, <2>2, <2>3, <2>4, <2>9, LibraryPerform
  <1>5. CASE WriteTargetManifest(p)
    <2> DEFINE patch == op[p].patch
    <2>1. /\ op[p].name = "upsert_existing" /\ op[p].step = "manifest" /\ i \in Ids
          /\ disk[i] \in Manifest /\ op[p] \in Op /\ patch.body \in Bodies
          /\ patch.slug = Keep /\ patch.state = Keep
      <3>1. op[p].name = "upsert_existing" /\ op[p].step = "manifest" /\ disk[i] # Absent
        BY <1>5 DEF WriteTargetManifest, At
      <3>2. op[p] \in Op /\ i \in Ids /\ patch.body \in Bodies
        BY <1>0, <3>1, InProgressTyped DEF OpShape
      <3>3. patch.slug = Keep /\ patch.state = Keep
        BY <3>1 DEF RequestsShaped
      <3> QED
        BY <1>0, <3>1, <3>2, <3>3 DEF TypeInv, TypeOK
    <2>2. /\ op'[p].name = op[p].name /\ op'[p].id = op[p].id /\ op'[p].patch = patch
          /\ op'[p].step = "row" /\ faults' = faults
      BY <1>0, <1>5, <2>1 DEF WriteTargetManifest, TypeInv, TypeOK, Op
    <2>3. /\ \A j \in Ids \ {i} : disk'[j] = disk[j]
          /\ disk'[i] = [disk[i] EXCEPT !.state = "active", !.body = patch.body]
      BY <1>0, <1>5, <2>1 DEF WriteTargetManifest, TypeInv, TypeOK
    <2>4. Untouched(p) /\ ~Untouched(p)'
      BY <2>1, <2>2 DEF Untouched
    <2>5. Shown[i] = disk[i]
      BY <2>1, <2>4, AskedShown
    <2>6. disk[i].state = "active"
      <3>1. HandOK(p) /\ IndexAgrees(i)
        BY <1>0, <2>1, SoundFacts DEF RowDue, At
      <3>2. index[i] # Absent /\ index[i].type = GeneratedTarget
        BY <2>1, <3>1 DEF HandOK, WrittenType
      <3> QED
        BY <1>0, <2>1, <3>1, <3>2 DEF IndexAgrees, RowOf, RecordsActive, OnDisk
    <2>7. Seen(p)'[i] = disk'[i]
      BY <2>1, <2>2 DEF Seen, HalfWritten, At
    <2>8. Library!Outcome(RequestOf(p)) =
            [disk[i] EXCEPT !.slug = @, !.state = @, !.body = patch.body]
      BY <2>1, <2>5, KeepAssumption DEF Library!Outcome, RequestOf
    <2>9. Seen(p)'[i] = Library!Outcome(RequestOf(p))
      BY <2>1, <2>3, <2>6, <2>7, <2>8 DEF Manifest
    <2> QED
      BY <2>1, <2>2, <2>3, <2>4, <2>9, LibraryPerform
  <1>6. CASE WriteBody(p)
    <2> DEFINE patch == op[p].patch
    <2>1. /\ op[p].name \in {"update", "update_body"} /\ op[p].step = "body" /\ i \in Ids
          /\ disk[i] \in Manifest /\ disk[i] # Absent /\ op[p] \in Op /\ patch.body \in Bodies
      BY <1>0, <1>6 DEF WriteBody, At, TypeInv, TypeOK, OpShape
    <2>2. /\ op'[p].name = op[p].name /\ op'[p].id = op[p].id /\ op'[p].patch = patch
          /\ op'[p].step = (IF op[p].name = "update" THEN "row" ELSE "doc")
          /\ faults' = faults
      BY <1>0, <1>6, <2>1 DEF WriteBody, Goto, TypeInv, TypeOK, Op
    <2>3. /\ \A j \in Ids \ {i} : disk'[j] = disk[j]
          /\ disk'[i] = [disk[i] EXCEPT !.body = patch.body]
      BY <1>0, <1>6, <2>1 DEF WriteBody, TypeInv, TypeOK
    <2>4. Seen(p)'[i] = disk'[i] /\ \A j \in Ids \ {i} : Seen(p)'[j] = disk[j]
      BY <2>1, <2>2, <2>3 DEF Seen, HalfWritten, At
    <2>5. CASE op[p].name = "update"
      <3>1. ~Untouched(p) /\ ~Untouched(p)'
        BY <2>1, <2>2, <2>5 DEF Untouched
      <3>2. \A j \in Ids : HalfWritten(p, j) <=> j = i
        BY <2>1, <2>5 DEF HalfWritten, At
      <3>3. \A j \in Ids : Seen(p)[j] = IF j = i THEN [disk[j] EXCEPT !.body = patch.body] ELSE disk[j]
        BY <3>2 DEF Seen
      <3>4. \A j \in Ids : Seen(p)'[j] = Seen(p)[j]
        BY <2>3, <2>4, <3>3
      <3>5. Seen(p)' = Seen(p)
        BY <3>4 DEF Seen
      <3> QED
        BY <2>1, <2>2, <2>5, <3>1, <3>5, LibraryUnseen
    <2>6. CASE op[p].name = "update_body"
      <3>1. Untouched(p) /\ ~Untouched(p)'
        BY <2>1, <2>2, <2>6 DEF Untouched
      <3>2. Shown[i] = disk[i] /\ patch.slug = Keep /\ patch.state = Keep
        BY <2>1, <2>6, <3>1, AskedShown DEF RequestsShaped
      <3>3. Library!Outcome(RequestOf(p)) =
              [disk[i] EXCEPT !.slug = @, !.state = @, !.body = patch.body]
        BY <2>1, <2>6, <3>2, KeepAssumption DEF Library!Outcome, RequestOf
      <3>4. Seen(p)'[i] = Library!Outcome(RequestOf(p))
        BY <2>1, <2>3, <2>4, <3>3 DEF Manifest
      <3> QED
        BY <2>1, <2>2, <2>3, <2>6, <3>1, <3>4, LibraryPerform
    <2> QED
      BY <2>1, <2>5, <2>6
  <1>7. CASE RemoveFolder(p)
    <2>1. op[p].name = "delete" /\ op[p].step = "folder" /\ i \in Ids
      BY <1>0, <1>7 DEF RemoveFolder, At, TypeInv, OpShape
    <2>2. /\ op'[p] = [op[p] EXCEPT !.step = "row"] /\ faults' = faults
          /\ disk' = [disk EXCEPT ![i] = Absent] /\ op[p] \in Op
      BY <1>0, <1>7 DEF RemoveFolder, Goto, TypeInv, TypeOK
    <2>3. /\ op'[p].name = op[p].name /\ op'[p].id = op[p].id /\ op'[p].patch = op[p].patch
          /\ op'[p].step = "row"
      BY <2>2 DEF Op
    <2>4. /\ \A j \in Ids \ {i} : disk'[j] = disk[j]
          /\ disk'[i] = Absent
      BY <1>0, <2>1, <2>2 DEF TypeInv, TypeOK
    <2>5. Seen(p)'[i] = Library!Outcome(RequestOf(p))
      BY <2>1, <2>3, <2>4 DEF Seen, HalfWritten, At, RequestOf, Library!Outcome
    <2>6. Untouched(p) /\ ~Untouched(p)'
      BY <2>1, <2>3 DEF Untouched
    <2> QED
      BY <2>1, <2>2, <2>3, <2>4, <2>5, <2>6, LibraryPerform
  <1>8. CASE WriteRow(p) \/ RemoveRow(p)
    <2>1. /\ op[p].name \notin {"none", "init", "reindex"} /\ op[p].step = "row"
          /\ op[p] \in Op
      BY <1>0, <1>8 DEF WriteRow, RemoveRow, At, TypeInv, TypeOK
    <2>2. op'[p] = [op[p] EXCEPT !.step = "doc"] /\ faults' = faults /\ disk' = disk
      BY <1>0, <1>8 DEF WriteRow, RemoveRow, Goto, TypeInv, TypeOK
    <2>3. /\ op'[p].name = op[p].name /\ op'[p].id = op[p].id /\ op'[p].patch = op[p].patch
          /\ op'[p].seen = op[p].seen /\ op'[p].step = "doc"
      BY <2>1, <2>2 DEF Op
    <2>4. ~Untouched(p) /\ ~Untouched(p)'
      BY <2>1, <2>3 DEF Untouched
    <2>5. \A j : ~HalfWritten(p, j) /\ ~HalfWritten(p, j)'
      BY <2>1, <2>3 DEF HalfWritten, At
    <2>6. Seen(p)' = Seen(p)
      BY <2>2, <2>5 DEF Seen
    <2> QED
      BY <2>1, <2>2, <2>3, <2>4, <2>6, LibraryUnseen
  <1> QED
    BY <1>1, <1>2, <1>3, <1>4, <1>5, <1>6, <1>7, <1>8 DEF Step

LEMMA LibraryFail ==
  ASSUME UndisturbedInv, UndisturbedInv', derived = "clean", derived' = "clean",
         NEW p \in Procs, Fail(p) \/ Crash(p)
  PROVE  Library!Fail
  <1>0. TypeInv /\ TypeInv'
    BY DEF UndisturbedInv, RecordsInv
  <1>1. /\ op[p].name # "none" /\ Untouched(p) /\ faults' = faults + 1
        /\ op' = [op EXCEPT ![p] = NoOp] /\ disk' = disk
    BY DEF Fail, Crash, Return, Release
  <1>2. \A q \in Procs \ {p} : op[q].name = "none"
    BY <1>1, LoneTrusted
  <1>3. \A q \in Procs : op'[q].name = "none"
    BY <1>0, <1>1, <1>2 DEF NoOp, TypeInv, TypeOK
  <1>4. Shown' = [i \in Ids |-> disk'[i]] /\ Requested' = Absent /\ Phase' = "idle"
    BY <1>3, Viewed DEF IdleView
  <1>5. Phase # "done" /\ Shown = [i \in Ids |-> disk[i]]
    <2>1. CASE op[p].name \in {"init", "reindex"}
      <3>1. \A q \in Procs : op[q].name \in {"none", "init", "reindex"}
        BY <1>2, <2>1
      <3> QED
        BY <3>1, Viewed DEF IdleView
    <2>2. CASE op[p].name \notin {"init", "reindex"}
      <3>1. Shown = Seen(p) /\ Phase = "asked"
        BY <1>1, <1>2, <2>2, Viewed DEF BusyView
      <3>2. \A i : ~HalfWritten(p, i)
        BY <1>1 DEF Untouched, HalfWritten, At
      <3> QED
        BY <3>1, <3>2 DEF Seen
    <2> QED
      BY <2>1, <2>2
  <1> QED
    BY <1>1, <1>4, <1>5 DEF Library!Fail

\* In a trusted store no folder an operation goes on to read is gone.
LEMMA FolderKept ==
  ASSUME UndisturbedInv, RequestsShaped, derived = "clean", derived' = "clean",
         NEW p \in Procs
  PROVE  ~FolderGone(p)
  <1> SUFFICES ASSUME FolderGone(p) PROVE FALSE
    OBVIOUS
  <1>0. RecordsInv /\ CleanInv /\ TypeInv
    BY DEF UndisturbedInv, RecordsInv
  <1>1. Untouched(p)
    BY DEF FolderGone, Return
  <1>2. CASE At(p, {"delete"}, "folder")
    BY <1>2 DEF FolderGone, RequestsShaped, At
  <1>3. CASE op[p].step \in {"manifest", "body"}
    <2>1. op[p].name \in {"update", "upsert_existing", "update_body"} /\ ~RowDue(p)
      BY <1>1, <1>3 DEF Untouched, RowDue, At
    <2>2. op[p].id \in Ids
      BY <1>0, <2>1, InProgressTyped
    <2>3. HandOK(p) /\ IndexAgrees(op[p].id)
      BY <1>0, <2>1, <2>2, SoundFacts
    <2>4. disk[op[p].id] # Absent
      BY <1>3, <2>1, <2>3 DEF HandOK, IndexAgrees
    <2> QED
      BY <1>3, <2>4 DEF FolderGone, At
  <1>4. CASE op[p].step = "bodies"
    BY <1>1, <1>4 DEF Untouched
  <1> QED
    BY <1>2, <1>3, <1>4 DEF FolderGone

\* Every step of the store is one of the library, or is not seen.
LEMMA LibraryNext ==
  ASSUME CleanAssumptions, LibraryInv, UndisturbedInv', [Next]_vars
  PROVE  [Library!Next]_(Library!vars)
  <1>0. UndisturbedInv /\ RequestsShaped /\ TypeInv /\ TypeInv' /\ OpenInProgress
    BY DEF LibraryInv, UndisturbedInv, RecordsInv
  <1>1. CASE derived' # "clean"
    BY <1>0, <1>1, LibraryDistrust DEF Library!Next
  <1>2. CASE derived # "clean" /\ derived' = "clean"
    BY <1>0, <1>2, LibraryRestore DEF Library!Next
  <1>3. CASE derived = "clean" /\ derived' = "clean"
    <2> DEFINE Unseen == UNCHANGED <<Shown, Requested, Phase, derived = "clean", faults>>
    <2>1. SUFFICES \/ Library!Accept \/ Library!Perform \/ Library!Answer
                   \/ Library!Fail \/ Unseen
      BY DEF Library!Next, Library!vars
    <2>2. CASE UNCHANGED vars
      BY <1>3, <2>2, SameView DEF vars
    <2>3. ASSUME NEW p \in Procs, Open(p) \/ Close(p)
          PROVE  Unseen
      BY <1>3, <2>3, SameView DEF Open, Opened, Close
    <2>4. ASSUME NEW p \in Procs, OpenOrInit(p)
          PROVE  FALSE
      BY <1>3, <2>4 DEF OpenOrInit
    <2>5. ASSUME NEW p \in Procs, Call(p)
          PROVE  Library!Accept \/ Unseen
      BY <1>0, <1>3, <2>5, LibraryCall DEF CleanAssumptions
    <2>6. ASSUME NEW p \in Procs, Step(p)
          PROVE  Library!Perform \/ Library!Answer \/ Unseen
      BY <1>0, <1>3, <2>6, LibraryStep
    <2>7. ASSUME NEW p \in Procs, Fail(p) \/ Crash(p)
          PROVE  Library!Fail
      BY <1>0, <1>3, <2>7, LibraryFail
    <2>8. \A p \in Procs : ~FolderGone(p)
      BY <1>0, <1>3, FolderKept
    <2>9. ~Environment
      BY <1>3 DEF Environment, ExternalWrite, ExternalRemove, Outside, DerivedLost
    <2> HIDE DEF Unseen
    <2> QED
      BY <2>2, <2>3, <2>4, <2>5, <2>6, <2>7, <2>8, <2>9 DEF Next
  <1> QED
    BY <1>1, <1>2, <1>3

(* The store implements the library: in a store that was not disturbed since
   the last forced scan, every call is one step on a map from ids to rules
   with different slugs.  The assumptions are those of DerivedStateAgrees,
   for the same reason: a call is checked against the row and the slug table,
   so these must say what the folders say when it is. *)
THEOREM CallsAtomic ==
  ASSUME UpdateTypes \subseteq {RuleEntry},
         OneShot \/ \A patch \in Patches : patch.slug = Keep \/ patch.state = Keep
  PROVE  Spec => AtomicCalls
  <1>1. Init => Library!Init /\ LibraryInv
    BY LibraryInit, InitRecords, InitClean DEF LibraryInv, UndisturbedInv
  <1>2. LibraryInv /\ [Next]_vars => LibraryInv' /\ [Library!Next]_(Library!vars)
    <2> SUFFICES ASSUME LibraryInv, [Next]_vars
                 PROVE  LibraryInv' /\ [Library!Next]_(Library!vars)
      OBVIOUS
    <2>1. CleanAssumptions
      BY DEF CleanAssumptions
    <2>2. UndisturbedInv'
      BY <2>1, NextUndisturbed DEF LibraryInv
    <2>3. RequestsShaped'
      BY <2>2, RequestsStay DEF LibraryInv
    <2> QED
      BY <2>1, <2>2, <2>3, LibraryNext DEF LibraryInv
  <1> QED
    BY <1>1, <1>2, PTL DEF Spec, AtomicCalls, Library!Spec

-----------------------------------------------------------------------------
(***************************************************************************)
(* One process at a time, which scans when it opens the store and exits    *)
(* after one operation: the way the commands and the server's tools run.   *)
(* Nothing is assumed of faults: crashes, failed writes and outside edits  *)
(* come at any point.  What create and update looked up in the slug table  *)
(* is still so when they write the folder.                                 *)
(***************************************************************************)
Served ==
  /\ UniqueOnDisk
  /\ \A p \in Procs :
       /\ Ready(p) => Indexed = OnDisk /\ SlugsAgree(p)
       /\ Creating(p) => \A j \in OnDisk : disk[j].slug # op[p].seen.slug
       /\ At(p, {"update"}, "manifest") /\ op[p].patch.slug # Keep =>
            \A j \in OnDisk \ {op[p].id} : disk[j].slug # op[p].patch.slug
       /\ At(p, {"init"}, "bodies") => Indexed = OnDisk

ServedInv == TypeInv /\ OpenInProgress /\ Served

ServedAssumptions ==
  /\ \A p, q \in Procs : p = q
  /\ ScanOnOpen /\ OneShot /\ ~ExternalDuplicates

LEMMA OpenStays ==
  ASSUME TypeInv, OpenInProgress, [Next]_vars
  PROVE  OpenInProgress'
  <1> USE DEF TypeInv, TypeOK
  <1>1. CASE UNCHANGED vars
    BY <1>1 DEF vars, OpenInProgress
  <1>2. ASSUME NEW p \in Procs, Open(p) \/ OpenOrInit(p) \/ Close(p)
        PROVE  OpenInProgress'
    BY <1>2 DEF Open, Opened, OpenOrInit, Close, Ready, OpenInProgress
  <1>3. ASSUME NEW p \in Procs, Call(p)
        PROVE  OpenInProgress'
    <2>1. Ready(p)
      BY <1>3 DEF Call, Reindex, Create, UpsertNew, Update, UpdateRejected, Updatable,
                  UpdateBody, UpsertExisting, Delete
    <2>2. /\ \A q \in Procs \ {p} : op'[q] = op[q] /\ handle'[q] = handle[q]
          /\ handle'[p] = handle[p] \/ op'[p].name = "none"
      BY <1>3 DEF Call, Reindex, Create, UpsertNew, Update, UpdateRejected, UpdateBody,
                  UpsertExisting, Delete, Begin, Release, NoOp
    <2> QED
      BY <2>1, <2>2 DEF Ready, OpenInProgress
  <1>4. ASSUME NEW p \in Procs, Step(p) \/ Fail(p) \/ FolderGone(p) \/ Crash(p)
        PROVE  OpenInProgress'
    <2>1. /\ \A q \in Procs \ {p} : op'[q] = op[q] /\ handle'[q] = handle[q]
          /\ (op'[p].name = op[p].name /\ handle' = handle) \/ op'[p].name = "none"
      BY <1>4 DEF Step, InnerScan, ReindexBodies, WriteFolder, WriteManifest,
           WriteTargetManifest, WriteBody, WriteRow, WriteDoc, RemoveFolder, RemoveRow,
           RemoveDoc, Fail, FolderGone, Return, Crash, Goto, Release, NoOp, Op
    <2> QED
      BY <2>1 DEF OpenInProgress
  <1>5. CASE Environment
    BY <1>5 DEF Environment, ExternalWrite, ExternalRemove, Outside, DerivedLost, OpenInProgress
  <1> QED
    BY <1>1, <1>2, <1>3, <1>4, <1>5 DEF Next

LEMMA OpenServed ==
  ASSUME ServedAssumptions, ServedInv, TypeInv', NEW p \in Procs,
         Open(p) \/ OpenOrInit(p) \/ Close(p)
  PROVE  Served'
  <1>0. \A q \in Procs : q = p
    BY DEF ServedAssumptions
  <1>1. UniqueOnDisk /\ disk' = disk /\ OnDisk' = OnDisk
    BY DEF ServedInv, Served, Open, Opened, OpenOrInit, Close, OnDisk
  <1>2. UniqueOnDisk'
    BY <1>1 DEF UniqueOnDisk
  <1>3. CASE Open(p)
    <2>1. handle[p] = "closed" /\ op'[p] = op[p] /\ op[p].name = "none"
      BY <1>3 DEF Open, Opened, ServedInv, OpenInProgress
    <2>2. /\ index' = ScannedIndex
          /\ \E t \in SlugTables({i \in Ids : index'[i] # Absent}) : slugIndex'[p] = t
      BY <1>3 DEF Open, Opened, ServedAssumptions, ServedInv, TypeInv, TypeOK
    <2>3. \A i \in Ids : index'[i] # Absent <=> disk[i] # Absent
      <3>1. \A i \in Ids : disk[i] # Absent => RowOf(disk[i]) # Absent
        BY NotAbsent DEF ServedInv, TypeInv, TypeOK
      <3> QED
        BY <2>2, <3>1 DEF ScannedIndex
    <2>4. Indexed' = OnDisk'
      BY <1>1, <2>3 DEF Indexed, OnDisk
    <2>5. PICK rows, t : rows = OnDisk /\ t \in SlugTables(rows) /\ slugIndex'[p] = t
      BY <2>2, <2>3 DEF OnDisk
    <2>6. SlugsAgree(p)'
      <3>1. \A s \in Slugs, i \in Ids : t[s] = i <=> disk[i] # Absent /\ disk[i].slug = s
        BY <1>1, <2>5, FullTable
      <3> QED
        BY <1>1, <2>5, <3>1 DEF SlugsAgree
    <2> QED
      BY <1>0, <1>2, <2>1, <2>4, <2>6 DEF Served, Creating, At
  <1>4. CASE OpenOrInit(p)
    <2>1. op'[p].name = "init" /\ op'[p].step = "inner"
      BY <1>4 DEF OpenOrInit, NoOp, ServedInv, TypeInv, TypeOK
    <2> QED
      BY <1>0, <1>2, <2>1 DEF Served, Ready, Creating, At
  <1>5. CASE Close(p)
    <2>1. op'[p] = op[p] /\ op[p].name = "none" /\ handle'[p] = "closed"
      BY <1>5 DEF Close, Ready, ServedInv, TypeInv, TypeOK
    <2> QED
      BY <1>0, <1>2, <2>1 DEF Served, Ready, Creating, At
  <1> QED
    BY <1>3, <1>4, <1>5

LEMMA CallServed ==
  ASSUME ServedAssumptions, ServedInv, TypeInv', NEW p \in Procs, Call(p)
  PROVE  Served'
  <1>0. \A q \in Procs : q = p
    BY DEF ServedAssumptions
  <1>1. /\ Ready(p) /\ disk' = disk /\ OnDisk' = OnDisk
    BY DEF Call, Reindex, Create, UpsertNew, Update, UpdateRejected, Updatable, UpdateBody,
           UpsertExisting, Delete, Begin, OnDisk
  <1>2. UniqueOnDisk /\ Indexed = OnDisk /\ SlugsAgree(p)
    BY <1>1 DEF ServedInv, Served
  <1>3. UniqueOnDisk'
    BY <1>1, <1>2 DEF UniqueOnDisk
  <1>4. \A s \in Slugs : slugIndex[p][s] = Absent => \A j \in OnDisk : disk[j].slug # s
    BY <1>2, AbsentAssumption DEF SlugsAgree, OnDisk
  <1>5. ASSUME NEW name \in {"create", "upsert_new"}, NEW i, NEW seen, NEW table,
               seen.slug \in Slugs, slugIndex[p][seen.slug] = Absent,
               Begin(p, name, "folder", i, NoPatch, seen, table)
        PROVE  Served'
    <2>1. op'[p].name = name /\ op'[p].step = "folder" /\ op'[p].seen = seen
      BY <1>5 DEF Begin, ServedInv, TypeInv, TypeOK
    <2> QED
      BY <1>0, <1>1, <1>3, <1>4, <1>5, <2>1 DEF Served, Ready, Creating, At
  <1>6. ASSUME NEW i \in Ids, NEW s \in Slugs, NEW b \in Bodies,
               Create(p, i, s, b) \/ UpsertNew(p, i, s, b)
        PROVE  Served'
    BY <1>5, <1>6 DEF Create, UpsertNew
  <1>7. ASSUME NEW i \in Ids, NEW patch \in Patches, Update(p, i, patch)
        PROVE  Served'
    <2>1. op'[p].name = "update" /\ op'[p].step = "manifest" /\ op'[p].id = i /\ op'[p].patch = patch
      BY <1>7 DEF Update, Begin, ServedInv, TypeInv, TypeOK
    <2>2. ASSUME patch.slug # Keep, NEW j \in OnDisk \ {i}
          PROVE  disk[j].slug # patch.slug
      <3>1. slugIndex[p][patch.slug] \in {Absent, i} /\ patch.slug \in Slugs
        BY <1>7, <2>2, InputAssumption DEF Update, Updatable, SlugAccepted, Patch
      <3> QED
        BY <1>2, <2>2, <3>1, AbsentAssumption DEF SlugsAgree, OnDisk
    <2> QED
      BY <1>0, <1>1, <1>3, <2>1, <2>2 DEF Served, Ready, Creating, At
  <1>8. ASSUME NEW i \in Ids, NEW patch \in Patches, UpdateRejected(p, i, patch)
        PROVE  Served'
    <2>1. op'[p].name = "none" /\ handle'[p] = "closed"
      BY <1>8 DEF UpdateRejected, Release, NoOp, ServedAssumptions, ServedInv, TypeInv, TypeOK
    <2> QED
      BY <1>0, <1>3, <2>1 DEF Served, Ready, Creating, At
  <1>9. CASE \/ Reindex(p)
             \/ \E i \in Ids, b \in Bodies : UpdateBody(p, i, b)
             \/ \E s \in GenSlugs, b \in Bodies : UpsertExisting(p, s, b)
             \/ \E i \in Ids : Delete(p, i)
    <2>1. op'[p].name \in {"reindex", "update_body", "upsert_existing", "delete"}
          /\ op'[p].step # "bodies"
      BY <1>9 DEF Reindex, UpdateBody, UpsertExisting, Delete, Begin, ServedInv, TypeInv, TypeOK
    <2> QED
      BY <1>0, <1>3, <2>1 DEF Served, Ready, Creating, At
  <1> QED
    BY <1>6, <1>7, <1>8, <1>9 DEF Call

LEMMA StepServed ==
  ASSUME ServedAssumptions, ServedInv, TypeInv', NEW p \in Procs, Step(p)
  PROVE  Served'
  <1>0. \A q \in Procs : q = p
    BY DEF ServedAssumptions
  <1>1. UniqueOnDisk /\ disk \in [Ids -> Manifest \cup {Absent}] /\ op[p].name # "none"
    BY DEF ServedInv, Served, TypeInv, TypeOK, Step, InnerScan, ReindexBodies, WriteFolder,
           WriteManifest, WriteTargetManifest, WriteBody, WriteRow, WriteDoc, RemoveFolder,
           RemoveRow, RemoveDoc, At
  <1>2. CASE InnerScan(p)
    <2>1. /\ op'[p].name = op[p].name /\ op'[p].step = "bodies"
          /\ op[p].name \in {"reindex", "init"} /\ disk' = disk
      BY <1>2, GotoFields DEF InnerScan, At, ServedInv, Steps
    <2>2. Indexed' = OnDisk'
      <3>1. \A i \in Ids : disk[i] # Absent => RowOf(disk[i]) # Absent
        BY NotAbsent DEF ServedInv, TypeInv, TypeOK
      <3> QED
        BY <1>2, <3>1 DEF InnerScan, Indexed, OnDisk
    <2>3. UniqueOnDisk'
      BY <1>1, <2>1 DEF UniqueOnDisk, OnDisk
    <2> QED
      BY <1>0, <2>1, <2>2, <2>3 DEF Served, Ready, Creating, At
  <1>3. CASE ReindexBodies(p)
    <2>1. PICK t \in SlugTables(Indexed) : Release(p, t, OneShot /\ op[p].name = "reindex")
      BY <1>3 DEF ReindexBodies
    <2>2. /\ op[p].name \in {"reindex", "init"} /\ op[p].step = "bodies"
          /\ UNCHANGED <<disk, index>>
      BY <1>3 DEF ReindexBodies, At
    <2>3. /\ op'[p].name = "none"
          /\ op[p].name = "reindex" => handle'[p] = "closed"
          /\ op[p].name = "init" => slugIndex'[p] = t
      BY <2>1 DEF Release, NoOp, ServedAssumptions, ServedInv, TypeInv, TypeOK
    <2>4. ASSUME op[p].name = "init"
          PROVE  Indexed' = OnDisk' /\ SlugsAgree(p)'
      <3>1. PICK rows : rows = Indexed /\ rows = OnDisk
        BY <2>2, <2>4 DEF ServedInv, Served, At
      <3>2. \A s \in Slugs, i \in Ids : t[s] = i <=> disk[i] # Absent /\ disk[i].slug = s
        BY <1>1, <2>1, <3>1, FullTable
      <3> QED
        BY <2>2, <2>3, <2>4, <3>1, <3>2 DEF SlugsAgree, Indexed, OnDisk
    <2>5. UniqueOnDisk'
      BY <1>1, <2>2 DEF UniqueOnDisk, OnDisk
    <2> QED
      BY <1>0, <2>2, <2>3, <2>4, <2>5 DEF Served, Ready, Creating, At
  <1>4. ASSUME op'[p].name = op[p].name, op'[p].step \notin {"folder", "manifest"},
               op[p].name \notin {"reindex", "init"}, UniqueOnDisk'
        PROVE  Served'
    BY <1>0, <1>1, <1>4 DEF Served, Ready, Creating, At
  <1>5. CASE WriteFolder(p)
    <2>1. /\ op'[p].name = op[p].name /\ op'[p].step = "row"
          /\ op[p].name \in {"create", "upsert_new"} /\ Creating(p)
      BY <1>5, GotoFields DEF WriteFolder, At, ServedInv, Steps, Creating
    <2>2. PICK i, m : i = op[p].id /\ m = op[p].seen /\ disk' = [disk EXCEPT ![i] = m]
      BY <1>5 DEF WriteFolder
    <2>3. \A j \in OnDisk : disk[j].slug # m.slug
      BY <2>1, <2>2 DEF ServedInv, Served
    <2>4. UniqueOnDisk'
      BY <1>1, <2>2, <2>3 DEF UniqueOnDisk, OnDisk
    <2> QED
      BY <1>4, <2>1, <2>4
  <1>6. CASE WriteManifest(p)
    <2>1. PICK i, patch, m :
            i = op[p].id /\ patch = op[p].patch /\ m = Patched(disk[i], patch)
      OBVIOUS
    <2>2. /\ op[p].name = "update" /\ op[p].step = "manifest" /\ disk[i] # Absent
          /\ disk' = [disk EXCEPT ![i] = m]
          /\ op' = [op EXCEPT ![p].seen = m,
                              ![p].step = IF op[p].patch.body = Keep THEN "row" ELSE "body"]
      BY <1>6, <2>1 DEF WriteManifest, At
    <2>3. op'[p].name = op[p].name /\ op'[p].step \in {"row", "body"}
      BY <2>2 DEF ServedInv, TypeInv, TypeOK, Op
    <2>4. i \in Ids /\ disk[i] \in Manifest
      BY <1>1, <2>1, <2>2, OpTyped DEF ServedInv
    <2>5. m.slug = IF patch.slug = Keep THEN disk[i].slug ELSE patch.slug
      BY <2>1, <2>4 DEF Patched, Manifest
    <2>6. \A j \in OnDisk \ {i} : disk[j].slug # m.slug
      <3>1. CASE patch.slug = Keep
        BY <1>1, <2>2, <2>4, <2>5, <3>1 DEF UniqueOnDisk, OnDisk
      <3>2. CASE patch.slug # Keep
        BY <2>1, <2>2, <2>5, <3>2 DEF ServedInv, Served, At
      <3> QED
        BY <3>1, <3>2
    <2>7. UniqueOnDisk'
      BY <1>1, <2>2, <2>4, <2>6 DEF UniqueOnDisk, OnDisk
    <2> QED
      BY <1>4, <2>2, <2>3, <2>7
  <1>7. CASE WriteTargetManifest(p) \/ WriteBody(p)
    <2>1. /\ op'[p].name = op[p].name /\ op'[p].step \in {"row", "doc"}
          /\ op[p].name \in {"upsert_existing", "update", "update_body"}
      BY <1>7 DEF WriteTargetManifest, WriteBody, At, Goto, ServedInv, TypeInv, TypeOK, Op
    <2>2. PICK i \in Ids : i = op[p].id /\ disk[i] \in Manifest
      BY <1>1, <1>7, <2>1, OpTyped DEF WriteTargetManifest, WriteBody, ServedInv
    <2>3. disk'[i].slug = disk[i].slug /\ \A j \in Ids \ {i} : disk'[j] = disk[j]
      <3>1. CASE WriteTargetManifest(p)
        BY <1>1, <2>2, <3>1 DEF WriteTargetManifest, Manifest
      <3>2. CASE WriteBody(p)
        BY <1>1, <2>2, <3>2 DEF WriteBody, Manifest
      <3> QED
        BY <1>7, <3>1, <3>2
    <2>4. disk[i] # Absent
      BY <2>2, NotAbsent
    <2>5. UniqueOnDisk'
      BY <1>1, <2>3, <2>4 DEF UniqueOnDisk, OnDisk
    <2> QED
      BY <1>4, <2>1, <2>5
  <1>8. CASE WriteRow(p) \/ RemoveFolder(p) \/ RemoveRow(p)
    <2>1. /\ op'[p].name = op[p].name /\ op'[p].step \in {"row", "doc"}
          /\ op[p].name \notin {"reindex", "init"}
      BY <1>8, GotoFields DEF WriteRow, RemoveFolder, RemoveRow, At, ServedInv, Steps
    <2>2. \A j \in Ids : disk'[j] \in {disk[j], Absent}
      BY <1>1, <1>8 DEF WriteRow, RemoveFolder, RemoveRow
    <2>3. UniqueOnDisk'
      BY <1>1, <2>2 DEF UniqueOnDisk, OnDisk
    <2> QED
      BY <1>4, <2>1, <2>3
  <1>9. CASE WriteDoc(p) \/ RemoveDoc(p)
    <2>1. op'[p].name = "none" /\ handle'[p] = "closed" /\ disk' = disk
      BY <1>9 DEF WriteDoc, RemoveDoc, Release, NoOp, ServedAssumptions, ServedInv, TypeInv, TypeOK
    <2>2. UniqueOnDisk'
      BY <1>1, <2>1 DEF UniqueOnDisk, OnDisk
    <2> QED
      BY <1>0, <2>1, <2>2 DEF Served, Ready, Creating, At
  <1> QED
    BY <1>2, <1>3, <1>5, <1>6, <1>7, <1>8, <1>9 DEF Step

LEMMA FaultServed ==
  ASSUME ServedAssumptions, ServedInv, TypeInv', NEW p \in Procs,
         Fail(p) \/ FolderGone(p) \/ Crash(p)
  PROVE  Served'
  <1>0. \A q \in Procs : q = p
    BY DEF ServedAssumptions
  <1>1. op'[p].name = "none" /\ handle'[p] = "closed" /\ disk' = disk
    BY DEF Fail, FolderGone, Crash, Return, Release, NoOp, ServedAssumptions,
           ServedInv, TypeInv, TypeOK
  <1>2. UniqueOnDisk'
    BY <1>1 DEF ServedInv, Served, UniqueOnDisk, OnDisk
  <1> QED
    BY <1>0, <1>1, <1>2 DEF Served, Ready, Creating, At

LEMMA EnvironmentServed ==
  ASSUME ServedAssumptions, ServedInv, TypeInv', Environment
  PROVE  Served'
  <1>1. \A p \in Procs : handle'[p] = "closed" /\ op'[p].name = "none"
    BY DEF Environment, ExternalWrite, ExternalRemove, Outside, DerivedLost,
           ServedInv, OpenInProgress
  <1>2. UniqueOnDisk /\ disk \in [Ids -> Manifest \cup {Absent}]
    BY DEF ServedInv, Served, TypeInv, TypeOK
  <1>3. UniqueOnDisk'
    <2>1. ASSUME NEW i \in Ids, NEW m \in Manifest, ExternalWrite(i, m)
          PROVE  UniqueOnDisk'
      <3>1. /\ disk' = [disk EXCEPT ![i] = m]
            /\ \A j \in OnDisk \ {i} : disk[j].slug # m.slug
        BY <2>1 DEF ExternalWrite, ServedAssumptions
      <3> QED
        BY <1>2, <3>1 DEF UniqueOnDisk, OnDisk
    <2>2. ASSUME NEW i \in Ids, ExternalRemove(i)
          PROVE  UniqueOnDisk'
      BY <1>2, <2>2 DEF ExternalRemove, UniqueOnDisk, OnDisk
    <2>3. CASE DerivedLost
      BY <1>2, <2>3 DEF DerivedLost, UniqueOnDisk, OnDisk
    <2> QED
      BY <2>1, <2>2, <2>3 DEF Environment
  <1> QED
    BY <1>1, <1>3 DEF Served, Ready, Creating, At

LEMMA NextServed ==
  ASSUME ServedAssumptions
  PROVE  ServedInv /\ [Next]_vars => ServedInv'
  <1> SUFFICES ASSUME ServedInv, [Next]_vars PROVE ServedInv'
    OBVIOUS
  <1>1. TypeInv' /\ OpenInProgress'
    BY NextTyped, OpenStays DEF ServedInv
  <1>2. CASE UNCHANGED vars
    <2>1. Served'
      BY <1>2 DEF vars, ServedInv, Served, UniqueOnDisk, OnDisk, Indexed, Ready, SlugsAgree,
                  Creating, At
    <2> QED
      BY <1>1, <2>1 DEF ServedInv
  <1>3. CASE Next
    <2>1. Served'
      BY <1>1, <1>3, OpenServed, CallServed, StepServed, FaultServed, EnvironmentServed DEF Next
    <2> QED
      BY <1>1, <2>1 DEF ServedInv
  <1> QED
    BY <1>2, <1>3

LEMMA InitServed == Init => ServedInv
  <1> SUFFICES ASSUME Init PROVE ServedInv
    OBVIOUS
  <1>1. OnDisk = {} /\ \A p \in Procs : op[p].name = "none" /\ handle[p] = "closed"
    BY DEF Init, OnDisk, NoOp
  <1> QED
    BY <1>1, InitTyped DEF ServedInv, Served, OpenInProgress, UniqueOnDisk, Ready, Creating, At

(* Where one process at a time works on the store, scans when it opens it and
   exits after one operation, no sequence of operations, crashes, failed writes
   and outside edits puts one slug into two folders, as long as the outside
   edits do not: however incomplete the rows and the table a dead process left
   behind, the next one looks a slug up in a table that knows every folder. *)
THEOREM SlugsUnique ==
  ASSUME \A p, q \in Procs : p = q, ScanOnOpen, OneShot, ~ExternalDuplicates
  PROVE  Spec => []UniqueSlugs
  <1>1. ServedInv => UniqueSlugs
    BY DEF ServedInv, Served, UniqueSlugs
  <1>2. ServedInv /\ [Next]_vars => ServedInv'
    BY NextServed DEF ServedAssumptions
  <1> QED
    BY <1>1, <1>2, InitServed, PTL DEF Spec

(* Under the same discipline a process that is about to perform an operation
   finds a folder behind every row and exactly the folders' slugs in its table,
   however the command before it ended. *)
THEOREM LookupsTruthful ==
  ASSUME \A p, q \in Procs : p = q, ScanOnOpen, OneShot, ~ExternalDuplicates
  PROVE  Spec => []LookupTruthful
  <1>1. ServedInv => LookupTruthful
    <2> SUFFICES ASSUME ServedInv, NEW p \in Procs, Ready(p)
                 PROVE  /\ Indexed \subseteq OnDisk
                        /\ \A s \in Slugs : slugIndex[p][s] # Absent =>
                             /\ slugIndex[p][s] \in Indexed \cap OnDisk
                             /\ disk[slugIndex[p][s]].slug = s
                        /\ \A i \in Indexed \cap OnDisk : slugIndex[p][disk[i].slug] # Absent
      BY DEF LookupTruthful
    <2>1. Indexed = OnDisk /\ SlugsAgree(p)
      BY DEF ServedInv, Served
    <2>2. ASSUME NEW s \in Slugs, slugIndex[p][s] # Absent
          PROVE  slugIndex[p][s] \in OnDisk /\ disk[slugIndex[p][s]].slug = s
      <3>1. slugIndex[p][s] \in Ids
        BY <2>2 DEF ServedInv, TypeInv, TypeOK
      <3> QED
        BY <2>1, <3>1 DEF SlugsAgree, OnDisk
    <2>3. ASSUME NEW i \in OnDisk
          PROVE  slugIndex[p][disk[i].slug] # Absent
      <3>1. i \in Ids /\ disk[i] # Absent /\ disk[i].slug \in Slugs
        BY DEF OnDisk, ServedInv, TypeInv, TypeOK, Manifest
      <3> QED
        BY <2>1, <3>1, AbsentAssumption DEF SlugsAgree
    <2> QED
      BY <2>1, <2>2, <2>3
  <1>2. ServedInv /\ [Next]_vars => ServedInv'
    BY NextServed DEF ServedAssumptions
  <1> QED
    BY <1>1, <1>2, InitServed, PTL DEF Spec

-----------------------------------------------------------------------------

(***************************************************************************)
(* The commands of one process, for every set of entities, slugs, bodies,  *)
(* documents and requests.  The process keeps the store open for as long   *)
(* as its command takes; nothing is assumed of faults or of outside edits. *)
(***************************************************************************)
CommandsAssumptions == ~OneShot /\ \A p, q \in Procs : p = q

Stored == Manifest \cup {Absent}

Command ==
  [name : {"none", "create", "delete", "import", "update"},
   phase : {"none", "running", "ok", "error", "died"},
   stage : {"get", "text", "last"}, doc : Documents \cup {<<>>}, done : Nat,
   id : Ids \cup {Absent}, request : Requests \cup {NoRequest},
   start : [Ids -> Stored] \cup {Absent}, sound : BOOLEAN, before : Nat]

\* A command that was launched has the rules there were and its argument.
Launched(c) ==
  IF c.name = "none" THEN c = NoCommand
  ELSE /\ c.phase # "none" /\ c.start \in [Ids -> Stored]
       /\ c.name = "update" => c.id \in Ids
       /\ c.name = "import" =>
            /\ c.doc \in Documents /\ c.done <= Len(c.doc)
            /\ c.phase = "running" => c.done < Len(c.doc)

CommandsTyped ==
  /\ cmd \in [Procs -> Command]
  /\ \A p \in Procs : Launched(cmd[p])

\* Whatever the commands write are rules.
OpOfRule(o) ==
  /\ o.name \in {"none", "init", "create", "update", "update_body", "delete"}
  /\ o.seen # Absent => o.seen.type = RuleEntry

RulesOnly ==
  /\ \A i \in OnDisk : disk[i].type = RuleEntry
  /\ \A p \in Procs : OpOfRule(op[p])

\* What a slug table says is so, ...
TableTrue(p) ==
  \A s \in Slugs : slugIndex[p][s] # Absent =>
    /\ slugIndex[p][s] \in Indexed \cap OnDisk
    /\ disk[slugIndex[p][s]].slug = s

\* ... and it says something of every rule that has a row.
TableFull(p) == \A i \in Indexed : disk[i] # Absent /\ slugIndex[p][disk[i].slug] # Absent

\* A command that is over has no operation in progress, and one that has not
\* begun finds the table as the store was opened.
Between(p) ==
  /\ cmd[p].name = "none" => op[p].name \in {"none", "init"}
  /\ cmd[p].name # "none" => op[p].name # "init"
  /\ cmd[p].phase \in {"ok", "error", "died"} => op[p].name = "none"
  /\ cmd[p].phase = "died" => handle[p] = "closed"
  /\ cmd[p].name = "none" /\ Ready(p) => TableTrue(p) /\ TableFull(p)

CommandsInv ==
  /\ TypeInv /\ OpenInProgress /\ CommandsTyped /\ RulesOnly
  /\ \A p \in Procs : Between(p)

-----------------------------------------------------------------------------
LEMMA NoCommandTyped == NoCommand \in Command /\ Launched(NoCommand)
  BY DEF NoCommand, Command, Launched

\* The fields of a command and what the steps of a command make of them.
LEMMA CommandFields ==
  ASSUME CommandsTyped, NEW p \in Procs
  PROVE  /\ cmd[p] \in Command /\ Launched(cmd[p])
         /\ cmd[p].name \in {"none", "create", "delete", "import", "update"}
         /\ cmd[p].phase \in {"none", "running", "ok", "error", "died"}
         /\ cmd[p].doc \in Documents \cup {<<>>} /\ cmd[p].done \in Nat
         /\ cmd[p].id \in Ids \cup {Absent} /\ cmd[p].request \in Requests \cup {NoRequest}
         /\ cmd[p].before \in Nat /\ cmd[p].sound \in BOOLEAN
  BY DEF CommandsTyped, Command

\* Everything but the phase and the stage of a command.
SameTask(c, d) ==
  /\ d.name = c.name /\ d.doc = c.doc /\ d.done = c.done /\ d.id = c.id
  /\ d.request = c.request /\ d.start = c.start /\ d.sound = c.sound
  /\ d.before = c.before

LEMMA EndsFields ==
  ASSUME CommandsTyped, NEW p \in Procs, NEW phase \in {"ok", "error", "died"},
         cmd[p].phase = "running", Ends(p, phase)
  PROVE  /\ SameTask(cmd[p], cmd'[p]) /\ cmd'[p].phase = phase /\ cmd'[p].stage = cmd[p].stage
         /\ CommandsTyped'
  <1>1. cmd[p] \in Command /\ Launched(cmd[p])
    BY CommandFields
  <1>2. PICK d : d = [cmd[p] EXCEPT !.phase = phase]
    OBVIOUS
  <1>3. cmd' = [cmd EXCEPT ![p] = d]
    BY <1>2 DEF Ends
  <1>4. d \in Command /\ SameTask(cmd[p], d) /\ d.phase = phase /\ d.stage = cmd[p].stage
    BY <1>1, <1>2 DEF Command, SameTask
  <1>5. cmd[p].name # "none"
    BY <1>1 DEF Launched, NoCommand
  <1>6. Launched(d)
    BY <1>1, <1>4, <1>5 DEF Launched, SameTask
  <1> QED
    BY <1>3, <1>4, <1>6 DEF CommandsTyped

LEMMA EntersFields ==
  ASSUME CommandsTyped, NEW p \in Procs, NEW stage \in {"get", "text", "last"},
         cmd[p].phase = "running", Enters(p, stage)
  PROVE  /\ SameTask(cmd[p], cmd'[p]) /\ cmd'[p].phase = "running" /\ cmd'[p].stage = stage
         /\ CommandsTyped'
  <1>1. cmd[p] \in Command /\ Launched(cmd[p])
    BY CommandFields
  <1>2. PICK d : d = [cmd[p] EXCEPT !.stage = stage]
    OBVIOUS
  <1>3. cmd' = [cmd EXCEPT ![p] = d]
    BY <1>2 DEF Enters
  <1>4. d \in Command /\ SameTask(cmd[p], d) /\ d.phase = "running" /\ d.stage = stage
    BY <1>1, <1>2 DEF Command, SameTask
  <1>5. cmd[p].name # "none"
    BY <1>1 DEF Launched, NoCommand
  <1>6. Launched(d)
    BY <1>1, <1>4, <1>5 DEF Launched, SameTask
  <1> QED
    BY <1>3, <1>4, <1>6 DEF CommandsTyped

LEMMA LaunchFields ==
  ASSUME TypeInv, CommandsTyped, NEW p \in Procs, NEW c \in Command, c.name # "none",
         c.done = 0, c.name = "update" => c.id \in Ids,
         c.name = "import" => c.doc \in Documents, Launch(p, c)
  PROVE  /\ cmd'[p].name = c.name /\ cmd'[p].phase = "running" /\ cmd'[p].stage = c.stage
         /\ cmd'[p].doc = c.doc /\ cmd'[p].done = 0 /\ cmd'[p].id = c.id
         /\ cmd'[p].request = c.request /\ cmd'[p].start = disk
         /\ cmd'[p].sound = Sound /\ cmd'[p].before = faults
         /\ CommandsTyped'
  <1>1. disk \in [Ids -> Stored] /\ faults \in Nat /\ Sound \in BOOLEAN
    BY InputAssumption DEF TypeInv, TypeOK, Stored, Sound
  <1>2. PICK d : d = [c EXCEPT !.phase = "running", !.start = disk,
                               !.sound = Sound, !.before = faults]
    OBVIOUS
  <1>3. cmd' = [cmd EXCEPT ![p] = d]
    BY <1>2 DEF Launch
  <1>4. /\ d \in Command /\ d.name = c.name /\ d.phase = "running" /\ d.stage = c.stage
        /\ d.doc = c.doc /\ d.done = 0 /\ d.id = c.id /\ d.request = c.request
        /\ d.start = disk /\ d.sound = Sound /\ d.before = faults
    BY <1>1, <1>2 DEF Command
  <1>5. c.name = "import" => Len(c.doc) \in Nat /\ 0 < Len(c.doc)
    <2>1. \A doc \in Documents : Len(doc) \in Nat /\ 0 < Len(doc)
      BY DocumentsAssumption, EmptySeq, LenProperties
    <2> QED
      BY <2>1
  <1>6. Launched(d)
    BY <1>1, <1>4, <1>5 DEF Launched
  <1> QED
    BY <1>3, <1>4, <1>6 DEF CommandsTyped

LEMMA ResetTyped ==
  ASSUME CommandsTyped, NEW p \in Procs, cmd' = [cmd EXCEPT ![p] = NoCommand]
  PROVE  CommandsTyped' /\ cmd'[p] = NoCommand
  BY NoCommandTyped DEF CommandsTyped

\* The block an import is at.
LEMMA BlockTyped ==
  ASSUME CommandsTyped, NEW p \in Procs, Running(p, "import")
  PROVE  /\ BlockOf(p) \in Block /\ BlockOf(p).slug \in Slugs /\ BlockOf(p).body \in Bodies
         /\ ImportPatch(BlockOf(p)) \in Patch
         /\ cmd[p].doc \in Documents /\ cmd[p].doc \in Seq(Block)
         /\ Len(cmd[p].doc) \in Nat /\ cmd[p].done \in Nat /\ cmd[p].done < Len(cmd[p].doc)
  <1>1. cmd[p].doc \in Documents /\ cmd[p].done \in Nat /\ cmd[p].done < Len(cmd[p].doc)
    BY CommandFields DEF Running, Launched
  <1>2. cmd[p].doc \in Seq(Block)
    BY <1>1, DocumentsAssumption
  <1>3. Len(cmd[p].doc) \in Nat
    BY <1>2, LenProperties
  <1>4. cmd[p].done + 1 \in 1..Len(cmd[p].doc)
    BY <1>1, <1>3
  <1>5. BlockOf(p) \in Block
    BY <1>2, <1>4, ElementOfSeq DEF BlockOf
  <1> QED
    BY <1>1, <1>2, <1>3, <1>5 DEF Block, ImportPatch, Patch

\* The request of an update, and what is left of it for the second operation.
LEMMA RequestTyped ==
  ASSUME CommandsTyped, NEW p \in Procs
  PROVE  /\ cmd[p].request.patch \in Patch /\ Fields(p) \in Patch
         /\ Fields(p).body = Keep
         /\ Fields(p).slug = cmd[p].request.patch.slug
         /\ Fields(p).state = cmd[p].request.patch.state
  <1>1. NoRequest \in Request
    BY NoOpTyped DEF NoRequest, Request
  <1>2. cmd[p].request \in Request
    BY <1>1, CommandFields, RequestsAssumption
  <1>3. cmd[p].request.patch \in Patch
    BY <1>2 DEF Request
  <1> QED
    BY <1>3 DEF Fields, Patch

LEMMA CommandsInitTyped ==
  ASSUME CommandsInit
  PROVE  CommandsInv
  <1>1. Init /\ cmd = [p \in Procs |-> NoCommand]
    BY DEF CommandsInit
  <1>2. TypeInv
    BY <1>1, InitTyped
  <1>3. CommandsTyped
    BY <1>1, NoCommandTyped DEF CommandsTyped
  <1>4. \A p \in Procs : op[p] = NoOp /\ handle[p] = "closed" /\ cmd[p] = NoCommand
    BY <1>1 DEF Init
  <1>5. OnDisk = {}
    BY <1>1 DEF Init, OnDisk
  <1>6. OpenInProgress /\ RulesOnly
    BY <1>4, <1>5 DEF OpenInProgress, RulesOnly, OpOfRule, NoOp
  <1>7. \A p \in Procs : Between(p)
    BY <1>4 DEF Between, NoOp, NoCommand, Ready
  <1> QED
    BY <1>2, <1>3, <1>6, <1>7 DEF CommandsInv

(***************************************************************************)
(* What the actions do to the operation in progress and to the command.    *)
(***************************************************************************)
\* One of the operations a command is made of begins.
Begun(p) ==
  \E name \in {"create", "update", "update_body", "delete"} : \E step, i, patch, seen, table :
    /\ Ready(p) /\ Begin(p, name, step, i, patch, seen, table)
    /\ seen # Absent => seen.type = RuleEntry

LEMMA BegunTyped ==
  ASSUME CommandsInv, NEW p \in Procs, NEW i \in Ids,
         \/ \E s \in Slugs, b \in Bodies : Create(p, i, s, b)
         \/ Delete(p, i)
         \/ \E b \in Bodies : UpdateBody(p, i, b)
         \/ \E patch \in Patch : Update(p, i, patch)
  PROVE  TypeInv' /\ Begun(p)
  <1>1. ASSUME NEW s \in Slugs, NEW b \in Bodies, Create(p, i, s, b)
        PROVE  TypeInv' /\ Begun(p)
    <2>1. Call(p)
      BY <1>1 DEF Call
    <2> QED
      BY <1>1, <2>1, CallTyped DEF Create, Begun, CommandsInv
  <1>2. ASSUME Delete(p, i)
        PROVE  TypeInv' /\ Begun(p)
    <2>1. Call(p)
      BY <1>2 DEF Call
    <2> QED
      BY <1>2, <2>1, CallTyped DEF Delete, Begun, CommandsInv
  <1>3. ASSUME NEW b \in Bodies, UpdateBody(p, i, b)
        PROVE  TypeInv' /\ Begun(p)
    <2>1. Call(p)
      BY <1>3 DEF Call
    <2>2. disk[i].type = RuleEntry
      BY <1>3 DEF UpdateBody, CommandsInv, RulesOnly, OnDisk
    <2> QED
      BY <1>3, <2>1, <2>2, CallTyped DEF UpdateBody, Begun, CommandsInv
  <1>4. ASSUME NEW patch \in Patch, Update(p, i, patch)
        PROVE  TypeInv' /\ Begun(p)
    BY <1>4, UpdateTyped DEF Update, Updatable, Begun, CommandsInv
  <1> QED
    BY <1>1, <1>2, <1>3, <1>4

LEMMA BegunKeeps ==
  ASSUME CommandsInv, NEW p \in Procs, Begun(p)
  PROVE  /\ OpenInProgress' /\ RulesOnly'
         /\ op'[p].name \in {"create", "update", "update_body", "delete"}
         /\ \A q \in Procs \ {p} : op'[q] = op[q]
         /\ handle' = handle /\ faults' = faults
         /\ UNCHANGED <<disk, index, search>>
  <1>0. PICK name \in {"create", "update", "update_body", "delete"} :
          \E step, i, patch, seen, table :
            /\ Ready(p) /\ Begin(p, name, step, i, patch, seen, table)
            /\ seen # Absent => seen.type = RuleEntry
    BY DEF Begun
  <1>1. PICK step, i, patch, seen, table :
          /\ Ready(p) /\ Begin(p, name, step, i, patch, seen, table)
          /\ seen # Absent => seen.type = RuleEntry
    BY <1>0
  <1>2. /\ op'[p].name = name /\ op'[p].seen = seen
        /\ \A q \in Procs \ {p} : op'[q] = op[q]
        /\ handle' = handle /\ faults' = faults /\ UNCHANGED <<disk, index, search>>
    BY <1>1 DEF Begin, CommandsInv, TypeInv, TypeOK
  <1>3. OpenInProgress'
    BY <1>1, <1>2 DEF OpenInProgress, Ready, CommandsInv
  <1>4. RulesOnly'
    BY <1>1, <1>2 DEF RulesOnly, OpOfRule, OnDisk, CommandsInv
  <1> QED
    BY <1>2, <1>3, <1>4

\* A table built from the rows of folders that are there is true and full.
LEMMA TableBuilt ==
  ASSUME TypeInv, NEW p \in Procs, Indexed' \subseteq OnDisk', disk' = disk,
         NEW t \in SlugTables(Indexed'), slugIndex'[p] = t
  PROVE  TableTrue(p)' /\ TableFull(p)'
  <1>1. PICK rows : rows = Indexed'
    OBVIOUS
  <1>2. ASSUME NEW s \in Slugs
        PROVE  /\ t[s] # Absent => t[s] \in rows /\ disk[t[s]] # Absent /\ disk[t[s]].slug = s
               /\ \A i \in rows : disk[i] # Absent /\ disk[i].slug = s => t[s] # Absent
    <2> DEFINE owners == {i \in rows : disk[i] # Absent /\ disk[i].slug = s}
    <2>1. IF owners = {} THEN t[s] = Absent ELSE t[s] \in owners
      BY <1>1 DEF SlugTables
    <2>2. \A i \in owners : i # Absent
      BY <1>1, AbsentAssumption DEF Indexed
    <2> QED
      BY <2>1, <2>2
  <1>3. \A i \in rows : i \in Ids /\ disk[i] # Absent /\ disk[i].slug \in Slugs
    BY <1>1 DEF Indexed, OnDisk, TypeInv, TypeOK, Manifest
  <1>4. TableTrue(p)'
    <2> SUFFICES ASSUME NEW s \in Slugs, t[s] # Absent
                 PROVE  t[s] \in Indexed' \cap OnDisk' /\ disk'[t[s]].slug = s
      BY DEF TableTrue
    <2> QED
      BY <1>1, <1>2
  <1>5. TableFull(p)'
    <2> SUFFICES ASSUME NEW i \in Indexed'
                 PROVE  disk'[i] # Absent /\ slugIndex'[p][disk'[i].slug] # Absent
      BY DEF TableFull
    <2> QED
      BY <1>1, <1>2, <1>3
  <1> QED
    BY <1>4, <1>5

\* The moments before a command: the store opens, or was never initialized.
LEMMA BootstrapKeeps ==
  ASSUME CommandsAssumptions, CommandsInv, NEW p \in Procs, Bootstrap(p)
  PROVE  CommandsInv' /\ cmd'[p] = NoCommand
  <1>0. \A q \in Procs : q = p
    BY DEF CommandsAssumptions
  <1>1. CommandsTyped' /\ cmd'[p] = NoCommand
    BY ResetTyped DEF Bootstrap, CommandsInv
  <1>2. disk' = disk /\ OnDisk' = OnDisk /\ handle[p] = "closed" /\ op[p].name = "none"
    BY DEF Bootstrap, OpenOrInit, Opened, OnDisk, CommandsInv, OpenInProgress
  <1>3. ASSUME NEW scans \in BOOLEAN, Opened(p, scans)
        PROVE  CommandsInv'
    <2>1. TypeInv'
      BY <1>3, OpenedTyped DEF CommandsInv
    <2>2. op' = op /\ handle' = [handle EXCEPT ![p] = "open"]
      BY <1>3 DEF Opened
    <2>3. OpenInProgress' /\ RulesOnly'
      BY <1>0, <1>2, <2>2 DEF OpenInProgress, RulesOnly, CommandsInv
    <2>4. Indexed' \subseteq OnDisk'
      BY <1>2, <1>3 DEF Opened, ScannedIndex, Pruned, Indexed, OnDisk
    <2>5. PICK t \in SlugTables(Indexed') : slugIndex'[p] = t
      BY <1>3 DEF Opened, Indexed, CommandsInv, TypeInv, TypeOK
    <2>6. TableTrue(p)' /\ TableFull(p)'
      BY <1>2, <2>4, <2>5, TableBuilt DEF CommandsInv
    <2>7. Between(p)'
      BY <1>1, <1>2, <2>2, <2>6 DEF Between, NoCommand
    <2> QED
      BY <1>0, <1>1, <2>1, <2>3, <2>7 DEF CommandsInv
  <1>4. ASSUME OpenOrInit(p)
        PROVE  CommandsInv'
    <2>1. TypeInv'
      BY <1>4, OpenTyped DEF CommandsInv
    <2>2. op'[p].name = "init" /\ op'[p].seen = Absent /\ handle'[p] = "open"
      BY <1>4 DEF OpenOrInit, NoOp, CommandsInv, TypeInv, TypeOK
    <2>3. OpenInProgress' /\ RulesOnly'
      BY <1>0, <1>2, <2>2 DEF OpenInProgress, RulesOnly, OpOfRule, CommandsInv
    <2>4. Between(p)'
      BY <1>1, <2>2 DEF Between, NoCommand, Ready
    <2> QED
      BY <1>0, <1>1, <2>1, <2>3, <2>4 DEF CommandsInv
  <1> QED
    BY <1>1, <1>3, <1>4 DEF Bootstrap

\* A step of the operation in progress.
LEMMA StepOfRule ==
  ASSUME CommandsInv, NEW p \in Procs, Step(p)
  PROVE  /\ TypeInv' /\ OpenInProgress' /\ RulesOnly'
         /\ op[p].name # "none" /\ op'[p].name \in {op[p].name, "none"}
         /\ op'[p].name = "init" \/ op'[p].name # op[p].name => op[p].name # "none"
  <1>1. TypeInv'
    BY StepTyped DEF CommandsInv
  <1>2. OpenInProgress'
    <2>1. Next
      BY DEF Next
    <2> QED
      BY <2>1, OpenStays DEF CommandsInv
  <1>3. op[p].name # "none" /\ op'[p].name \in {op[p].name, "none"}
    BY DEF Step, InnerScan, ReindexBodies, WriteFolder, WriteManifest, WriteTargetManifest,
           WriteBody, WriteRow, WriteDoc, RemoveFolder, RemoveRow, RemoveDoc, At, Goto,
           Release, NoOp, CommandsInv, TypeInv, TypeOK, Op
  <1>4. /\ OpOfRule(op[p]) /\ \A i \in OnDisk : disk[i].type = RuleEntry
        /\ op[p] \in Op /\ disk \in [Ids -> Stored]
    BY DEF CommandsInv, RulesOnly, TypeInv, TypeOK, Stored
  <1>5. OpOfRule(op'[p]) /\ \A q \in Procs \ {p} : op'[q] = op[q]
    <2>1. CASE WriteManifest(p)
      <3>1. op[p].id \in OnDisk /\ op[p].id \in Ids
        BY <2>1, OpTyped DEF WriteManifest, OnDisk, CommandsInv, At
      <3>2. PICK m : m = Patched(disk[op[p].id], op[p].patch)
        OBVIOUS
      <3>3. m.type = RuleEntry
        BY <1>4, <3>1, <3>2, OpTyped DEF Patched, OnDisk, CommandsInv, Manifest
      <3>4. /\ op'[p].name = op[p].name /\ op'[p].seen = m
            /\ \A q \in Procs \ {p} : op'[q] = op[q]
        BY <1>4, <2>1, <3>2 DEF WriteManifest, CommandsInv, TypeInv, TypeOK, Op
      <3> QED
        BY <1>4, <3>3, <3>4 DEF OpOfRule
    <2>2. CASE \E step \in Steps : Goto(p, step)
      BY <1>4, <2>2, GotoFields DEF OpOfRule, CommandsInv
    <2>3. CASE \E table, closing : Release(p, table, closing)
      <3>1. op' = [op EXCEPT ![p] = NoOp]
        BY <2>3 DEF Release
      <3> QED
        BY <3>1 DEF OpOfRule, NoOp, CommandsInv, TypeInv, TypeOK
    <2>4. ~WriteTargetManifest(p)
      BY <1>4 DEF WriteTargetManifest, At, OpOfRule
    <2> QED
      BY <2>1, <2>2, <2>3, <2>4
         DEF Step, InnerScan, ReindexBodies, WriteFolder, WriteBody, WriteRow, WriteDoc,
             RemoveFolder, RemoveRow, RemoveDoc, Steps
  <1>6. \A i \in OnDisk' : disk'[i].type = RuleEntry
    <2>1. \A i \in Ids : \/ disk'[i] = disk[i] \/ disk'[i] = Absent
                         \/ disk'[i].type = RuleEntry
      <3>1. CASE WriteFolder(p)
        <4>1. op[p].seen # Absent
          BY <3>1, OpTyped, NotAbsent DEF WriteFolder, At, OpShape, CommandsInv
        <4> QED
          BY <1>4, <3>1, <4>1 DEF WriteFolder, OpOfRule
      <3>2. CASE WriteManifest(p)
        BY <1>4, <3>2 DEF WriteManifest, Patched, OnDisk, Stored, Manifest
      <3>3. CASE WriteBody(p)
        BY <1>4, <3>3 DEF WriteBody, OnDisk, Stored, Manifest
      <3>4. CASE WriteTargetManifest(p)
        BY <1>4, <3>4 DEF WriteTargetManifest, At, OpOfRule
      <3> QED
        BY <1>4, <3>1, <3>2, <3>3, <3>4
           DEF Step, InnerScan, ReindexBodies, WriteRow, WriteDoc, RemoveFolder, RemoveRow, RemoveDoc
    <2> QED
      BY <1>4, <2>1 DEF OnDisk
  <1>7. RulesOnly'
    BY <1>4, <1>5, <1>6 DEF RulesOnly, CommandsInv
  <1> QED
    BY <1>1, <1>2, <1>3, <1>7

\* A command begins an operation, ...
LEMMA BegunAgain ==
  ASSUME CommandsAssumptions, CommandsInv, NEW p \in Procs, Begun(p), TypeInv',
         CommandsTyped', cmd'[p].name # "none", cmd'[p].phase = "running"
  PROVE  CommandsInv'
  <1>1. OpenInProgress' /\ RulesOnly'
        /\ op'[p].name \in {"create", "update", "update_body", "delete"}
    BY BegunKeeps
  <1>2. Between(p)'
    BY <1>1 DEF Between
  <1> QED
    BY <1>1, <1>2 DEF CommandsInv, CommandsAssumptions

\* ... or finds nothing to do between two of them, ...
LEMMA IdleAgain ==
  ASSUME CommandsAssumptions, CommandsInv, NEW p \in Procs, Ready(p), UNCHANGED vars,
         CommandsTyped', cmd'[p].name # "none", cmd'[p].phase # "died"
  PROVE  CommandsInv'
  <1>1. TypeInv' /\ OpenInProgress' /\ RulesOnly'
    BY StutterTyped DEF CommandsInv, vars, OpenInProgress, RulesOnly, OnDisk
  <1>2. Between(p)'
    BY DEF Between, vars, Ready
  <1> QED
    BY <1>1, <1>2 DEF CommandsInv, CommandsAssumptions

\* ... or loses the one in progress, with the store or without it.
LEMMA LostAgain ==
  ASSUME CommandsAssumptions, CommandsInv, NEW p \in Procs, TypeInv', CommandsTyped',
         disk' = disk, op'[p] = NoOp, cmd'[p].phase = "died" => handle'[p] = "closed",
         cmd'[p].name = "none" => handle'[p] = "closed"
  PROVE  CommandsInv'
  <1>1. OpenInProgress' /\ RulesOnly'
    BY DEF CommandsAssumptions, CommandsInv, OpenInProgress, RulesOnly, OnDisk, OpOfRule, NoOp
  <1>2. Between(p)'
    BY DEF Between, Ready, NoOp
  <1> QED
    BY <1>1, <1>2 DEF CommandsInv, CommandsAssumptions

LEMMA NoCommandIs ==
  ASSUME CommandsInv, NEW p \in Procs
  PROVE  /\ cmd[p] = NoCommand <=> cmd[p].name = "none"
         /\ cmd[p].name = "none" <=> cmd[p].phase = "none"
  <1>1. NoCommand.name = "none" /\ NoCommand.phase = "none"
    BY DEF NoCommand
  <1>2. Launched(cmd[p])
    BY CommandFields DEF CommandsInv
  <1> QED
    BY <1>1, <1>2 DEF Launched

LEMMA LaunchesKeep ==
  ASSUME CommandsAssumptions, CommandsInv, NEW p \in Procs, Launches(p)
  PROVE  CommandsInv'
  <1> USE DEF NoCommand
  <1>0. NoCommand \in Command
    BY NoCommandTyped
  <1>1. ASSUME NEW i \in Ids, NEW s \in Slugs, NEW b \in Bodies, CreateCommand(p, i, s, b)
        PROVE  CommandsInv'
    <2>1. PICK c : c = [NoCommand EXCEPT !.name = "create", !.stage = "last"]
      OBVIOUS
    <2>2. c \in Command /\ c.name = "create" /\ c.done = 0
      BY <1>0, <2>1 DEF Command
    <2>3. Launch(p, c) /\ Create(p, i, s, b)
      BY <1>1, <2>1 DEF CreateCommand
    <2> QED
      BY <2>2, <2>3, LaunchFields, BegunTyped, BegunAgain DEF CommandsInv
  <1>2. ASSUME NEW i \in Ids, DeleteCommand(p, i)
        PROVE  CommandsInv'
    <2>1. PICK c : c = [NoCommand EXCEPT !.name = "delete", !.stage = "last"]
      OBVIOUS
    <2>2. c \in Command /\ c.name = "delete" /\ c.done = 0
      BY <1>0, <2>1 DEF Command
    <2>3. Launch(p, c) /\ Delete(p, i)
      BY <1>2, <2>1 DEF DeleteCommand
    <2> QED
      BY <2>2, <2>3, LaunchFields, BegunTyped, BegunAgain DEF CommandsInv
  <1>3. ASSUME NEW doc \in Documents, ImportFile(p, doc)
        PROVE  CommandsInv'
    <2>1. PICK c : c = [NoCommand EXCEPT !.name = "import", !.doc = doc]
      OBVIOUS
    <2>2. c \in Command /\ c.name = "import" /\ c.done = 0 /\ c.doc = doc
      BY <1>0, <2>1 DEF Command
    <2>3. Launch(p, c) /\ Ready(p) /\ UNCHANGED vars
      BY <1>3, <2>1 DEF ImportFile
    <2> QED
      BY <2>2, <2>3, LaunchFields, IdleAgain DEF CommandsInv
  <1>4. ASSUME NEW i \in Ids, NEW request \in Requests, UpdateCommand(p, i, request)
        PROVE  CommandsInv'
    <2>1. PICK c : c = [NoCommand EXCEPT !.name = "update", !.id = i, !.request = request]
      OBVIOUS
    <2>2. c \in Command /\ c.name = "update" /\ c.done = 0 /\ c.id = i
      BY <1>0, <2>1 DEF Command
    <2>3. Launch(p, c) /\ Ready(p) /\ UNCHANGED vars
      BY <1>4, <2>1 DEF UpdateCommand
    <2> QED
      BY <2>2, <2>3, LaunchFields, IdleAgain DEF CommandsInv
  <1> QED
    BY <1>1, <1>2, <1>3, <1>4 DEF Launches

\* The patches of the blocks and the requests are patches of rules.
LEMMA OperationsKeep ==
  ASSUME CommandsAssumptions, CommandsInv, NEW p \in Procs,
         \/ RewriteBlock(p) \/ RefileBlock(p) \/ CreateBlock(p)
         \/ WriteText(p) \/ WriteFields(p)
  PROVE  /\ CommandsInv' /\ Begun(p) /\ SameTask(cmd[p], cmd'[p])
         /\ cmd[p].phase = "running" /\ cmd'[p].phase = "running"
         /\ cmd'[p].stage = IF RewriteBlock(p) \/ WriteText(p) THEN "text" ELSE "last"
         /\ op[p].name = "none" /\ handle[p] = "open"
  <1>0. /\ cmd[p].phase = "running" /\ cmd[p].name # "none" /\ CommandsTyped
        /\ \A s \in Slugs : slugIndex[p][s] \in Ids \cup {Absent}
    BY OpTyped DEF RewriteBlock, RefileBlock, CreateBlock, WriteText, WriteFields, Running, CommandsInv
  <1> DEFINE stage == IF RewriteBlock(p) \/ WriteText(p) THEN "text" ELSE "last"
  <1>1. Enters(p, stage) /\ stage \in {"get", "text", "last"}
    BY DEF RewriteBlock, RefileBlock, CreateBlock, WriteText, WriteFields
  <1>2. SameTask(cmd[p], cmd'[p]) /\ cmd'[p].phase = "running" /\ cmd'[p].stage = stage /\ CommandsTyped'
    <2> HIDE DEF stage
    <2> QED
      BY <1>0, <1>1, EntersFields
  <1>3. TypeInv' /\ Begun(p)
    <2>1. CASE RewriteBlock(p)
      <3>1. PICK i : i = slugIndex[p][BlockOf(p).slug]
        OBVIOUS
      <3>2. i \in Ids /\ UpdateBody(p, i, BlockOf(p).body) /\ BlockOf(p).body \in Bodies
        BY <1>0, <2>1, <3>1, BlockTyped DEF RewriteBlock, Gettable, Indexed
      <3> QED
        BY <3>2, BegunTyped
    <2>2. CASE RefileBlock(p)
      <3>1. PICK i : i = slugIndex[p][BlockOf(p).slug]
        OBVIOUS
      <3>2. PICK patch : patch = ImportPatch(BlockOf(p))
        OBVIOUS
      <3>3. i \in Ids /\ Update(p, i, patch) /\ patch \in Patch
        BY <1>0, <2>2, <3>1, <3>2, BlockTyped DEF RefileBlock
      <3> QED
        BY <3>3, BegunTyped
    <2>3. CASE CreateBlock(p)
      <3>1. PICK i \in Ids : Create(p, i, BlockOf(p).slug, BlockOf(p).body)
        BY <2>3 DEF CreateBlock
      <3>2. BlockOf(p).slug \in Slugs /\ BlockOf(p).body \in Bodies
        BY <1>0, <2>3, BlockTyped DEF CreateBlock
      <3> QED
        BY <3>1, <3>2, BegunTyped
    <2>4. CASE WriteText(p)
      <3>1. PICK b : b = cmd[p].request.patch.body
        OBVIOUS
      <3>2. UpdateBody(p, cmd[p].id, b) /\ b \in Bodies
        BY <1>0, <2>4, <3>1, RequestTyped DEF WriteText, Patch
      <3>3. cmd[p].id \in Ids
        BY <1>0, <2>4, CommandFields DEF WriteText, Running, Launched
      <3> QED
        BY <3>2, <3>3, BegunTyped
    <2>5. CASE WriteFields(p)
      <3>1. PICK patch : patch = Fields(p)
        OBVIOUS
      <3>2. Update(p, cmd[p].id, patch) /\ patch \in Patch
        BY <1>0, <2>5, <3>1, RequestTyped DEF WriteFields
      <3>3. cmd[p].id \in Ids
        BY <1>0, <2>5, CommandFields DEF WriteFields, Running, Launched
      <3> QED
        BY <3>2, <3>3, BegunTyped
    <2> QED
      BY <2>1, <2>2, <2>3, <2>4, <2>5
  <1>4. Ready(p)
    BY <1>3 DEF Begun
  <1>5. CommandsInv'
    <2>1. cmd'[p].name # "none"
      BY <1>0, <1>2 DEF SameTask
    <2> QED
      BY <1>2, <1>3, <2>1, BegunAgain
  <1> QED
    BY <1>0, <1>2, <1>3, <1>4, <1>5 DEF Ready

\* On to the next block, or the end of the import.
LEMMA BlockDoneFields ==
  ASSUME CommandsTyped, NEW p \in Procs, BlockDone(p)
  PROVE  /\ CommandsTyped' /\ cmd'[p].name = "import" /\ cmd'[p].doc = cmd[p].doc
         /\ cmd'[p].done = cmd[p].done + 1 /\ cmd'[p].stage = "get"
         /\ cmd'[p].phase = (IF cmd[p].done + 1 = Len(cmd[p].doc) THEN "ok" ELSE "running")
         /\ cmd'[p].start = cmd[p].start /\ cmd'[p].sound = cmd[p].sound
         /\ cmd'[p].before = cmd[p].before
  <1>1. cmd[p] \in Command /\ Launched(cmd[p]) /\ Running(p, "import")
    BY CommandFields DEF BlockDone
  <1>2. PICK phase : phase = IF cmd[p].done + 1 = Len(cmd[p].doc) THEN "ok" ELSE cmd[p].phase
    OBVIOUS
  <1>3. PICK d : d = [cmd[p] EXCEPT !.done = @ + 1, !.stage = "get", !.phase = phase]
    OBVIOUS
  <1>4. cmd' = [cmd EXCEPT ![p] = d]
    BY <1>2, <1>3 DEF BlockDone
  <1>5. cmd[p].done \in Nat /\ Len(cmd[p].doc) \in Nat /\ cmd[p].done < Len(cmd[p].doc)
        /\ cmd[p].name = "import" /\ cmd[p].phase = "running"
    BY <1>1, BlockTyped DEF Running
  <1>6. /\ d \in Command /\ d.name = "import" /\ d.doc = cmd[p].doc
        /\ d.done = cmd[p].done + 1 /\ d.stage = "get" /\ d.phase = phase
        /\ d.start = cmd[p].start /\ d.sound = cmd[p].sound /\ d.before = cmd[p].before
    <2>1. phase \in {"running", "ok"} /\ cmd[p].done + 1 \in Nat
      BY <1>2, <1>5
    <2>2. PICK done : done = cmd[p].done + 1
      OBVIOUS
    <2>3. d = [cmd[p] EXCEPT !.done = done, !.stage = "get", !.phase = phase]
      BY <1>3, <2>2
    <2> QED
      BY <1>1, <1>5, <2>1, <2>2, <2>3 DEF Command
  <1>7. Launched(d)
    BY <1>1, <1>2, <1>5, <1>6 DEF Launched
  <1>8. CommandsTyped'
    BY <1>4, <1>6, <1>7 DEF CommandsTyped
  <1>9. cmd'[p] = d
    BY <1>4 DEF CommandsTyped
  <1> QED
    BY <1>2, <1>5, <1>6, <1>8, <1>9

\* The steps between two operations that leave the store alone.
LEMMA IdleKeeps ==
  ASSUME CommandsAssumptions, CommandsInv, NEW p \in Procs,
         BlockDone(p) \/ Refused(p) \/ Returned(p)
  PROVE  CommandsInv' /\ UNCHANGED vars /\ Ready(p) /\ cmd[p].phase = "running"
  <1>0. Ready(p) /\ UNCHANGED vars /\ cmd[p].phase = "running" /\ cmd[p].name # "none"
    BY DEF BlockDone, Refused, BlockRefused, FieldsRefused, Returned, Running
  <1>1. /\ CommandsTyped' /\ cmd'[p].name = cmd[p].name
        /\ cmd'[p].phase \in {"running", "ok", "error"}
    <2>1. CASE BlockDone(p)
      BY <2>1, BlockDoneFields DEF CommandsInv, BlockDone, Running
    <2>2. CASE Refused(p)
      BY <1>0, <2>2, EndsFields DEF Refused, CommandsInv, SameTask
    <2>3. CASE Returned(p)
      BY <1>0, <2>3, EndsFields DEF Returned, CommandsInv, SameTask
    <2> QED
      BY <2>1, <2>2, <2>3
  <1> QED
    BY <1>0, <1>1, IdleAgain

LEMMA LossesKeep ==
  ASSUME CommandsAssumptions, CommandsInv, NEW p \in Procs,
         TransitionRejected(p) \/ Errs(p) \/ Dies(p) \/ DiesBetween(p)
  PROVE  /\ CommandsInv' /\ op'[p].name = "none" /\ UNCHANGED <<disk, index, search>>
         /\ \/ cmd' = cmd /\ cmd[p].name = "none"
            \/ /\ SameTask(cmd[p], cmd'[p]) /\ cmd[p].phase = "running"
               /\ \/ cmd'[p].phase = "died"
                  \/ cmd'[p].phase = "error" /\ (TransitionRejected(p) \/ Errs(p))
  <1>0. op[p] \in Op /\ op \in [Procs -> Op] /\ CommandsTyped /\ OpShape(op[p])
    BY DEF CommandsInv, TypeInv, TypeOK
  <1>1. CASE TransitionRejected(p)
    <2>1. /\ Running(p, "update") /\ UpdateRejected(p, cmd[p].id, Fields(p))
          /\ Ends(p, "error")
      BY <1>1 DEF TransitionRejected
    <2>2. cmd[p].id \in Ids /\ Fields(p) \in Patch
      BY <2>1, CommandFields, RequestTyped DEF Running, Launched, CommandsInv
    <2>3. TypeInv'
      <3>1. PICK patch : patch = Fields(p)
        OBVIOUS
      <3> QED
        BY <2>1, <2>2, <3>1, UpdateTyped DEF CommandsInv
    <2>4. op'[p] = NoOp /\ UNCHANGED <<disk, index, search>>
      BY <1>0, <2>1 DEF UpdateRejected, Release
    <2>5. SameTask(cmd[p], cmd'[p]) /\ cmd'[p].phase = "error" /\ CommandsTyped'
      BY <1>0, <2>1, EndsFields DEF Running
    <2>6. CommandsInv'
      BY <2>1, <2>3, <2>4, <2>5, LostAgain DEF SameTask, Running
    <2> QED
      BY <1>1, <2>1, <2>4, <2>5, <2>6 DEF NoOp, Running
  <1>2. CASE Errs(p)
    <2>1. TypeInv'
      BY <1>2, FaultTyped DEF Errs, CommandsInv
    <2>2. Return(p) /\ op[p].name # "none"
      BY <1>0, <1>2 DEF Errs, Fail, FolderGone, At, OpShape
    <2>3. op'[p] = NoOp /\ UNCHANGED <<disk, index, search>>
      BY <1>0, <2>2 DEF Return, Release
    <2>4. CASE cmd[p].phase = "running"
      <3>1. Ends(p, "error")
        BY <1>2, <2>4 DEF Errs
      <3>2. SameTask(cmd[p], cmd'[p]) /\ cmd'[p].phase = "error" /\ CommandsTyped'
        BY <1>0, <2>4, <3>1, EndsFields
      <3>3. cmd[p].name # "none"
        BY <2>4, NoCommandIs
      <3>4. CommandsInv'
        BY <2>1, <2>3, <3>2, <3>3, LostAgain DEF SameTask
      <3> QED
        BY <1>2, <2>3, <2>4, <3>2, <3>4 DEF NoOp
    <2>5. CASE cmd[p].phase # "running"
      <3>1. cmd' = cmd
        BY <1>2, <2>5 DEF Errs
      <3>2. cmd[p].name = "none"
        BY <2>2, <2>5, NoCommandIs, CommandFields DEF CommandsInv, Between
      <3>3. op[p].name = "init"
        BY <2>2, <3>2 DEF CommandsInv, Between
      <3>4. handle'[p] = "closed"
        BY <2>2, <3>3 DEF Return, Release, CommandsInv, TypeInv, TypeOK
      <3>5. CommandsTyped'
        BY <1>0, <3>1 DEF CommandsTyped
      <3>6. CommandsInv'
        BY <2>1, <2>3, <3>1, <3>4, <3>5, LostAgain
      <3> QED
        BY <2>3, <3>1, <3>2, <3>6 DEF NoOp
    <2> QED
      BY <2>4, <2>5
  <1>3. CASE Dies(p)
    <2>1. TypeInv'
      BY <1>3, FaultTyped DEF Dies, CommandsInv
    <2>2. op'[p] = NoOp /\ UNCHANGED <<disk, index, search>> /\ op[p].name # "none"
          /\ handle'[p] = "closed"
      BY <1>0, <1>3 DEF Dies, Crash, CommandsInv, TypeInv, TypeOK
    <2>4. CASE cmd[p].phase = "running"
      <3>1. Ends(p, "died")
        BY <1>3, <2>4 DEF Dies
      <3>2. SameTask(cmd[p], cmd'[p]) /\ cmd'[p].phase = "died" /\ CommandsTyped'
        BY <1>0, <2>4, <3>1, EndsFields
      <3>4. CommandsInv'
        BY <2>1, <2>2, <3>2, LostAgain
      <3> QED
        BY <2>2, <2>4, <3>2, <3>4 DEF NoOp
    <2>5. CASE cmd[p].phase # "running"
      <3>1. cmd' = cmd
        BY <1>3, <2>5 DEF Dies
      <3>2. cmd[p].name = "none"
        BY <2>2, <2>5, NoCommandIs, CommandFields DEF CommandsInv, Between
      <3>5. CommandsTyped'
        BY <1>0, <3>1 DEF CommandsTyped
      <3>6. CommandsInv'
        BY <2>1, <2>2, <3>1, <3>5, LostAgain
      <3> QED
        BY <2>2, <3>1, <3>2, <3>6 DEF NoOp
    <2> QED
      BY <2>4, <2>5
  <1>4. CASE DiesBetween(p)
    <2>1. SameTask(cmd[p], cmd'[p]) /\ cmd'[p].phase = "died" /\ CommandsTyped'
      BY <1>0, <1>4, EndsFields DEF DiesBetween
    <2>2. UNCHANGED <<disk, index, search, op>> /\ handle'[p] = "closed" /\ op[p].name = "none"
      BY <1>4 DEF DiesBetween, Ready, CommandsInv, TypeInv, TypeOK
    <2>3. TypeInv'
      BY <1>4, InputAssumption DEF DiesBetween, CommandsInv, TypeInv, TypeOK, NoSlugs
    <2>4. OpenInProgress' /\ RulesOnly'
      BY <2>2 DEF CommandsAssumptions, CommandsInv, OpenInProgress, RulesOnly, OnDisk
    <2>5. Between(p)'
      BY <2>1, <2>2, NoCommandIs DEF Between, CommandsInv, SameTask, Ready
    <2>6. CommandsInv'
      BY <2>1, <2>3, <2>4, <2>5 DEF CommandsInv, CommandsAssumptions
    <2> QED
      BY <1>4, <2>1, <2>2, <2>6 DEF DiesBetween
  <1> QED
    BY <1>1, <1>2, <1>3, <1>4

\* The store is let go, or the folders are edited while nobody has it.
LEMMA OutsideKeeps ==
  ASSUME CommandsAssumptions, CommandsInv, (\E p \in Procs : Exit(p)) \/ Surroundings
  PROVE  CommandsInv' /\ \A p \in Procs : cmd'[p] = NoCommand
  <1>1. ASSUME NEW p \in Procs, Exit(p)
        PROVE  CommandsInv' /\ cmd'[p] = NoCommand
    <2>1. CommandsTyped' /\ cmd'[p] = NoCommand
      BY <1>1, ResetTyped DEF Exit, CommandsInv
    <2>2. TypeInv'
      BY <1>1, OpenTyped DEF Exit, CommandsInv
    <2>3. UNCHANGED <<disk, op>> /\ op[p].name = "none" /\ handle'[p] = "closed"
      BY <1>1 DEF Exit, Close, Ready, CommandsInv, TypeInv, TypeOK
    <2>4. OpenInProgress' /\ RulesOnly'
      BY <2>3 DEF CommandsAssumptions, CommandsInv, OpenInProgress, RulesOnly, OnDisk
    <2>5. Between(p)'
      BY <2>1, <2>3 DEF Between, Ready, NoCommand
    <2> QED
      BY <2>1, <2>2, <2>4, <2>5 DEF CommandsInv, CommandsAssumptions
  <1>2. CASE Surroundings
    <2>1. TypeInv'
      BY <1>2, EnvironmentTyped DEF Surroundings, CommandsInv
    <2>2. CommandsTyped' /\ \A p \in Procs : cmd'[p] = NoCommand
      BY <1>2, NoCommandTyped DEF Surroundings, CommandsTyped
    <2>3. \A p \in Procs : handle[p] = "closed"
      BY <1>2 DEF Surroundings, Environment, ExternalWrite, ExternalRemove, DerivedLost, Outside
    <2>4. UNCHANGED <<handle, op>>
      BY <1>2 DEF Surroundings, Environment, ExternalWrite, ExternalRemove, DerivedLost, Outside
    <2>5. \A i \in Ids : disk'[i] = disk[i] \/ disk'[i] = Absent \/ disk'[i].type = RuleEntry
      BY <1>2 DEF Surroundings, Environment, ExternalWrite, ExternalRemove, DerivedLost,
                  CommandsInv, TypeInv, TypeOK
    <2>6. OpenInProgress' /\ RulesOnly'
      BY <2>4, <2>5 DEF CommandsInv, OpenInProgress, RulesOnly, OnDisk
    <2>7. \A p \in Procs : Between(p)'
      BY <2>2, <2>3, <2>4 DEF Between, Ready, NoCommand, CommandsInv, OpenInProgress
    <2> QED
      BY <2>1, <2>2, <2>6, <2>7 DEF CommandsInv
  <1> QED
    BY <1>1, <1>2 DEF CommandsAssumptions

\* init makes the table a command begins with.
LEMMA StepKeeps ==
  ASSUME CommandsAssumptions, CommandsInv, NEW p \in Procs, Step(p), UNCHANGED cmd
  PROVE  CommandsInv'
  <1>1. /\ TypeInv' /\ OpenInProgress' /\ RulesOnly'
        /\ op[p].name # "none" /\ op'[p].name \in {op[p].name, "none"}
    BY StepOfRule
  <1>2. CommandsTyped'
    BY DEF CommandsInv, CommandsTyped
  <1>3. cmd[p].phase \notin {"ok", "error", "died"}
    BY <1>1 DEF CommandsInv, Between
  <1>4. ASSUME cmd[p].name = "none", op'[p].name = "none"
        PROVE  TableTrue(p)' /\ TableFull(p)'
    <2>1. op[p].name = "init"
      BY <1>1, <1>4 DEF CommandsInv, Between
    <2>2. ~InnerScan(p)
      <3>1. InnerScan(p) => Goto(p, "bodies")
        BY DEF InnerScan
      <3> QED
        BY <1>4, <2>1, <3>1, GotoFields DEF CommandsInv, Steps
    <2>3. ReindexBodies(p)
      BY <2>1, <2>2 DEF Step, WriteFolder, WriteManifest, WriteTargetManifest, WriteBody,
                        WriteRow, WriteDoc, RemoveFolder, RemoveRow, RemoveDoc, At
    <2>4. PICK t \in SlugTables(Indexed) : Release(p, t, FALSE)
      BY <2>1, <2>3 DEF ReindexBodies
    <2>5. slugIndex'[p] = t /\ Indexed' = Indexed /\ OnDisk' = OnDisk /\ disk' = disk
      BY <2>3, <2>4 DEF Release, ReindexBodies, Indexed, OnDisk, CommandsInv, TypeInv, TypeOK
    <2>6. Indexed' \subseteq OnDisk' /\ t \in SlugTables(Indexed')
      BY <2>3, <2>5 DEF ReindexBodies
    <2> QED
      BY <2>5, <2>6, TableBuilt DEF CommandsInv
  <1>5. Between(p)'
    BY <1>1, <1>3, <1>4 DEF Between, CommandsInv, Ready
  <1> QED
    BY <1>1, <1>2, <1>5 DEF CommandsInv, CommandsAssumptions


-----------------------------------------------------------------------------
(***************************************************************************)
(* update: where the command is says what has become of the rule so far.   *)
(***************************************************************************)
InHand(p, name, i) == op[p].name = name /\ op[p].id = i

Agree(i) == IndexAgrees(i) /\ SearchAgrees(i)

Before(p) == cmd[p].start[cmd[p].id]
NewText(p) ==
  IF cmd[p].request.patch.body = Keep THEN Before(p)
  ELSE [Before(p) EXCEPT !.body = cmd[p].request.patch.body]
NewFields(p) == Patched(NewText(p), cmd[p].request.patch)

UpdateText(p) ==
  LET i == cmd[p].id IN
  /\ cmd[p].request.patch.body # Keep
  /\ \/ op[p].name = "none" /\ disk[i] = NewText(p)
     \/ /\ InHand(p, "update_body", i)
        /\ op[p].patch.body = cmd[p].request.patch.body
        /\ \/ op[p].step = "body" /\ disk[i] = Before(p)
           \/ op[p].step = "doc" /\ disk[i] = NewText(p)

UpdateLast(p) ==
  LET i == cmd[p].id IN
  \/ op[p].name = "none" /\ disk[i] = NewFields(p) /\ Agree(i)
  \/ /\ InHand(p, "update", i) /\ op[p].patch = Fields(p)
     /\ \/ op[p].step = "manifest" /\ disk[i] = NewText(p)
        \/ op[p].step = "row" /\ disk[i] = NewFields(p) /\ op[p].seen = disk[i]
        \/ /\ op[p].step = "doc" /\ disk[i] = NewFields(p)
           /\ op[p].seen = disk[i] /\ IndexAgrees(i)

UpdateSoFar(p) ==
  LET i == cmd[p].id IN
  /\ \A j \in Ids \ {i} : disk[j] = cmd[p].start[j]
  /\ disk[i] \in {Before(p), NewText(p), NewFields(p)}
  /\ cmd[p].phase = "running" /\ cmd[p].stage = "get" =>
       op[p].name = "none" /\ disk[i] = Before(p)
  /\ cmd[p].phase = "running" /\ cmd[p].stage = "text" => UpdateText(p)
  /\ cmd[p].phase = "running" /\ cmd[p].stage = "last" => UpdateLast(p)
  /\ cmd[p].phase = "ok" => disk[i] = NewFields(p) /\ Agree(i)

UpdateProgress(p) == cmd[p].name = "update" => UpdateSoFar(p)

\* What the command is to make of the rule does not change on the way.
LEMMA SameTexts ==
  ASSUME NEW p \in Procs, SameTask(cmd[p], cmd'[p])
  PROVE  /\ Before(p)' = Before(p) /\ NewText(p)' = NewText(p)
         /\ NewFields(p)' = NewFields(p) /\ Fields(p)' = Fields(p)
         /\ cmd'[p].id = cmd[p].id /\ cmd'[p].start = cmd[p].start
         /\ cmd'[p].request = cmd[p].request /\ cmd'[p].name = cmd[p].name
  BY DEF SameTask, Before, NewText, NewFields, Fields

LEMMA UpdateLaunched ==
  ASSUME CommandsInv, NEW p \in Procs, Launches(p)
  PROVE  UpdateProgress(p)'
  <1> USE DEF NoCommand
  <1>0. NoCommand \in Command
    BY NoCommandTyped
  <1>1. ASSUME NEW c \in Command, Launch(p, c), c.name # "update"
        PROVE  UpdateProgress(p)'
    BY <1>1 DEF Launch, UpdateProgress, CommandsInv, CommandsTyped, Command
  <1>2. ASSUME NEW i \in Ids, NEW request \in Requests, UpdateCommand(p, i, request)
        PROVE  UpdateProgress(p)'
    <2>1. PICK c : c = [NoCommand EXCEPT !.name = "update", !.id = i, !.request = request]
      OBVIOUS
    <2>2. c \in Command /\ c.name = "update" /\ c.done = 0 /\ c.id = i /\ c.stage = "get"
      BY <1>0, <2>1 DEF Command
    <2>3. Launch(p, c) /\ Ready(p) /\ UNCHANGED vars
      BY <1>2, <2>1 DEF UpdateCommand
    <2>4. /\ cmd'[p].id = i /\ cmd'[p].start = disk
          /\ cmd'[p].phase = "running" /\ cmd'[p].stage = "get"
      BY <2>2, <2>3, LaunchFields DEF CommandsInv
    <2> QED
      BY <2>3, <2>4 DEF UpdateProgress, UpdateSoFar, Before, Ready, vars
  <1>3. ASSUME NEW i \in Ids, NEW s \in Slugs, NEW b \in Bodies, CreateCommand(p, i, s, b)
        PROVE  UpdateProgress(p)'
    <2>1. PICK c : c = [NoCommand EXCEPT !.name = "create", !.stage = "last"]
      OBVIOUS
    <2>2. c \in Command /\ c.name = "create"
      BY <1>0, <2>1 DEF Command
    <2> QED
      BY <1>1, <1>3, <2>1, <2>2 DEF CreateCommand
  <1>4. ASSUME NEW i \in Ids, DeleteCommand(p, i)
        PROVE  UpdateProgress(p)'
    <2>1. PICK c : c = [NoCommand EXCEPT !.name = "delete", !.stage = "last"]
      OBVIOUS
    <2>2. c \in Command /\ c.name = "delete"
      BY <1>0, <2>1 DEF Command
    <2> QED
      BY <1>1, <1>4, <2>1, <2>2 DEF DeleteCommand
  <1>5. ASSUME NEW doc \in Documents, ImportFile(p, doc)
        PROVE  UpdateProgress(p)'
    <2>1. PICK c : c = [NoCommand EXCEPT !.name = "import", !.doc = doc]
      OBVIOUS
    <2>2. c \in Command /\ c.name = "import"
      BY <1>0, <2>1 DEF Command
    <2> QED
      BY <1>1, <1>5, <2>1, <2>2 DEF ImportFile
  <1> QED
    BY <1>2, <1>3, <1>4, <1>5 DEF Launches

LEMMA UpdateOperations ==
  ASSUME CommandsAssumptions, CommandsInv, NEW p \in Procs, UpdateProgress(p),
         \/ RewriteBlock(p) \/ RefileBlock(p) \/ CreateBlock(p)
         \/ WriteText(p) \/ WriteFields(p)
  PROVE  UpdateProgress(p)'
  <1>1. /\ Begun(p) /\ SameTask(cmd[p], cmd'[p])
        /\ cmd[p].phase = "running" /\ cmd'[p].phase = "running"
        /\ cmd'[p].stage = (IF RewriteBlock(p) \/ WriteText(p) THEN "text" ELSE "last")
        /\ op[p].name = "none"
    BY OperationsKeep
  <1>2. SUFFICES ASSUME cmd'[p].name = "update"
                 PROVE  UpdateSoFar(p)'
    BY DEF UpdateProgress
  <1>3. /\ Before(p)' = Before(p) /\ NewText(p)' = NewText(p)
        /\ NewFields(p)' = NewFields(p) /\ Fields(p)' = Fields(p)
        /\ cmd'[p].id = cmd[p].id /\ cmd'[p].start = cmd[p].start
        /\ cmd'[p].request = cmd[p].request /\ cmd'[p].name = cmd[p].name
    BY <1>1, SameTexts
  <1>4. UNCHANGED <<disk, index, search>>
    BY <1>1, BegunKeeps
  <1>5. UpdateSoFar(p)
    BY <1>2, <1>3 DEF UpdateProgress
  <1>6. /\ \A j \in Ids \ {cmd'[p].id} : disk'[j] = cmd'[p].start[j]
        /\ disk'[cmd'[p].id] \in {Before(p)', NewText(p)', NewFields(p)'}
    BY <1>3, <1>4, <1>5 DEF UpdateSoFar
  <1>7. CASE WriteText(p)
    <2>1. /\ cmd[p].stage = "get" /\ cmd[p].request.patch.body # Keep
          /\ UpdateBody(p, cmd[p].id, cmd[p].request.patch.body)
      BY <1>7 DEF WriteText
    <2>2. disk[cmd[p].id] = Before(p)
      BY <1>1, <1>5, <2>1 DEF UpdateSoFar
    <2>3. /\ op'[p].name = "update_body" /\ op'[p].step = "body" /\ op'[p].id = cmd[p].id
          /\ op'[p].patch.body = cmd[p].request.patch.body
      BY <2>1 DEF UpdateBody, Begin, NoPatch, CommandsInv, TypeInv, TypeOK
    <2>4. UpdateText(p)'
      BY <1>3, <1>4, <2>1, <2>2, <2>3 DEF UpdateText, InHand
    <2>5. cmd'[p].stage = "text" /\ cmd'[p].phase = "running"
      BY <1>1, <1>7
    <2> QED
      BY <1>6, <2>4, <2>5 DEF UpdateSoFar
  <1>8. CASE WriteFields(p)
    <2>1. Update(p, cmd[p].id, Fields(p)) /\ TextWritten(p)
      BY <1>8 DEF WriteFields
    <2>2. disk[cmd[p].id] = NewText(p)
      BY <1>1, <1>5, <2>1 DEF UpdateSoFar, UpdateText, TextWritten, NewText, InHand
    <2>3. /\ op'[p].name = "update" /\ op'[p].step = "manifest" /\ op'[p].id = cmd[p].id
          /\ op'[p].patch = Fields(p)
      BY <2>1 DEF Update, Begin, CommandsInv, TypeInv, TypeOK
    <2>4. UpdateLast(p)'
      BY <1>3, <1>4, <2>2, <2>3 DEF UpdateLast, InHand
    <2>5. cmd'[p].stage = "last" /\ cmd'[p].phase = "running"
      <3>1. ~WriteText(p) /\ ~RewriteBlock(p)
        BY <1>2, <1>3, <2>2, <1>8, <1>4, <2>3
           DEF WriteText, RewriteBlock, Running, UpdateBody, Begin, CommandsInv, TypeInv, TypeOK
      <3> QED
        BY <1>1, <3>1
    <2> QED
      BY <1>6, <2>4, <2>5 DEF UpdateSoFar
  <1> QED
    BY <1>2, <1>3, <1>7, <1>8 DEF RewriteBlock, RefileBlock, CreateBlock, Running

LEMMA UpdateIdle ==
  ASSUME CommandsAssumptions, CommandsInv, NEW p \in Procs, UpdateProgress(p),
         BlockDone(p) \/ Refused(p) \/ Returned(p)
  PROVE  UpdateProgress(p)'
  <1>1. UNCHANGED vars /\ Ready(p) /\ cmd[p].phase = "running"
    BY IdleKeeps
  <1>2. SUFFICES ASSUME cmd'[p].name = "update"
                 PROVE  UpdateSoFar(p)'
    BY DEF UpdateProgress
  <1>3. CASE BlockDone(p)
    BY <1>2, <1>3, BlockDoneFields DEF CommandsInv
  <1>4. CASE Refused(p)
    <2>1. SameTask(cmd[p], cmd'[p]) /\ cmd'[p].phase = "error"
      BY <1>1, <1>4, EndsFields DEF Refused, CommandsInv
    <2> QED
      BY <1>1, <1>2, <2>1, SameTexts DEF UpdateProgress, UpdateSoFar, vars
  <1>5. CASE Returned(p)
    <2>1. /\ SameTask(cmd[p], cmd'[p]) /\ cmd'[p].phase = "ok" /\ cmd[p].stage = "last"
          /\ op[p].name = "none"
      BY <1>1, <1>5, EndsFields DEF Returned, CommandsInv, Ready
    <2>2. UpdateSoFar(p) /\ UpdateLast(p)
      BY <1>1, <1>2, <2>1, SameTexts DEF UpdateProgress, UpdateSoFar
    <2>3. disk[cmd[p].id] = NewFields(p) /\ Agree(cmd[p].id)
      BY <2>1, <2>2 DEF UpdateLast, InHand
    <2>4. Agree(cmd[p].id)' <=> Agree(cmd[p].id)
      BY <1>1, <2>1 DEF Agree, IndexAgrees, SearchAgrees, vars, SameTask
    <2>5. disk' = disk
      BY <1>1 DEF vars
    <2> QED
      BY <2>1, <2>2, <2>3, <2>4, <2>5, SameTexts DEF UpdateSoFar
  <1> QED
    BY <1>3, <1>4, <1>5

LEMMA UpdateLosses ==
  ASSUME CommandsAssumptions, CommandsInv, NEW p \in Procs, UpdateProgress(p),
         TransitionRejected(p) \/ Errs(p) \/ Dies(p) \/ DiesBetween(p)
  PROVE  UpdateProgress(p)'
  <1>1. UNCHANGED <<disk, index, search>>
    BY LossesKeep
  <1>2. CASE cmd' = cmd /\ cmd[p].name = "none"
    BY <1>2 DEF UpdateProgress
  <1>3. CASE SameTask(cmd[p], cmd'[p]) /\ cmd'[p].phase \in {"died", "error"}
    BY <1>1, <1>3, SameTexts DEF UpdateProgress, UpdateSoFar
  <1> QED
    BY <1>2, <1>3, LossesKeep

LEMMA UpdateStep ==
  ASSUME CommandsAssumptions, CommandsInv, NEW p \in Procs, UpdateProgress(p),
         Step(p), UNCHANGED cmd
  PROVE  UpdateProgress(p)'
  <1> SUFFICES ASSUME cmd[p].name = "update"
               PROVE  UpdateSoFar(p)'
    BY DEF UpdateProgress
  <1>1. PICK i : i = cmd[p].id
    OBVIOUS
  <1>2. SameTask(cmd[p], cmd'[p])
    BY DEF SameTask
  <1>3. /\ Before(p)' = Before(p) /\ NewText(p)' = NewText(p)
        /\ NewFields(p)' = NewFields(p) /\ Fields(p)' = Fields(p)
    BY <1>2, SameTexts
  <1>4. i \in Ids /\ UpdateSoFar(p) /\ op[p].name # "none"
    BY <1>1, CommandFields, StepOfRule DEF UpdateProgress, CommandsInv, Launched
  <1>5. cmd[p].phase = "running" /\ cmd[p].stage \in {"text", "last"}
    <2>1. cmd[p].phase \in {"running", "ok", "error", "died"}
      BY CommandFields, NoCommandIs DEF CommandsInv
    <2>2. cmd[p].stage \in {"get", "text", "last"}
      BY CommandFields DEF CommandsInv, Command
    <2> QED
      BY <1>4, <2>1, <2>2 DEF CommandsInv, Between, UpdateSoFar
  <1>6. disk \in [Ids -> Stored] /\ index \in [Ids -> Row \cup {Absent}]
        /\ search \in [Ids -> Doc \cup {Absent}]
    BY DEF CommandsInv, TypeInv, TypeOK, Stored
  <1>7. disk[i] # Absent => disk[i] \in Manifest /\ disk[i].type = RuleEntry
    BY <1>4, <1>6 DEF CommandsInv, RulesOnly, OnDisk, Stored
  <1>8. CASE cmd[p].stage = "text"
    <2>1. UpdateText(p) /\ cmd[p].request.patch.body # Keep
      BY <1>4, <1>5, <1>8 DEF UpdateSoFar, UpdateText
    <2>2. /\ op[p].name = "update_body" /\ op[p].id = i
          /\ op[p].patch.body = cmd[p].request.patch.body
          /\ \/ op[p].step = "body" /\ disk[i] = Before(p)
             \/ op[p].step = "doc" /\ disk[i] = NewText(p)
      BY <1>1, <1>4, <2>1 DEF UpdateText, InHand
    <2>3. CASE op[p].step = "body" /\ disk[i] = Before(p)
      <3>1. WriteBody(p)
        BY <2>2, <2>3 DEF Step, InnerScan, ReindexBodies, WriteFolder, WriteManifest,
             WriteTargetManifest, WriteRow, WriteDoc, RemoveFolder, RemoveRow, RemoveDoc, At
      <3>2. Goto(p, "doc")
        BY <2>2, <3>1 DEF WriteBody
      <3>3. /\ op'[p].name = "update_body" /\ op'[p].id = i /\ op'[p].step = "doc"
            /\ op'[p].patch.body = cmd[p].request.patch.body
        BY <2>2, <3>2, GotoFields DEF CommandsInv, Steps
      <3>4. disk'[i] = [disk[i] EXCEPT !.body = cmd[p].request.patch.body]
        BY <1>4, <1>6, <2>2, <3>1 DEF WriteBody
      <3>5. \A j \in Ids \ {i} : disk'[j] = disk[j]
        BY <1>6, <2>2, <3>1 DEF WriteBody
      <3>6. disk'[i] = NewText(p)
        BY <2>1, <2>3, <3>4 DEF NewText
      <3>7. UpdateText(p)'
        BY <1>1, <1>3, <2>1, <3>3, <3>6 DEF UpdateText, InHand
      <3> QED
        BY <1>1, <1>3, <1>4, <1>5, <1>8, <3>5, <3>6, <3>7 DEF UpdateSoFar
    <2>4. CASE op[p].step = "doc" /\ disk[i] = NewText(p)
      <3>1. WriteDoc(p)
        BY <2>2, <2>4 DEF Step, InnerScan, ReindexBodies, WriteFolder, WriteManifest,
             WriteTargetManifest, WriteRow, WriteBody, RemoveFolder, RemoveRow, RemoveDoc, At
      <3>2. disk' = disk /\ op'[p].name = "none"
        BY <3>1 DEF WriteDoc, Release, NoOp, CommandsInv, TypeInv, TypeOK
      <3>3. UpdateText(p)'
        BY <1>1, <1>3, <2>1, <2>4, <3>2 DEF UpdateText, InHand
      <3> QED
        BY <1>1, <1>3, <1>4, <1>5, <1>8, <3>2, <3>3 DEF UpdateSoFar
    <2> QED
      BY <2>2, <2>3, <2>4
  <1>9. CASE cmd[p].stage = "last"
    <2>1. UpdateLast(p)
      BY <1>4, <1>5, <1>9 DEF UpdateSoFar
    <2>2. /\ op[p].name = "update" /\ op[p].id = i /\ op[p].patch = Fields(p)
          /\ \/ op[p].step = "manifest" /\ disk[i] = NewText(p)
             \/ op[p].step = "row" /\ disk[i] = NewFields(p) /\ op[p].seen = disk[i]
             \/ /\ op[p].step = "doc" /\ disk[i] = NewFields(p)
                /\ op[p].seen = disk[i] /\ IndexAgrees(i)
      BY <1>1, <1>4, <2>1 DEF UpdateLast, InHand
    <2>3. CASE op[p].step = "manifest" /\ disk[i] = NewText(p)
      <3>1. WriteManifest(p)
        BY <2>2, <2>3 DEF Step, InnerScan, ReindexBodies, WriteFolder, WriteBody,
             WriteTargetManifest, WriteRow, WriteDoc, RemoveFolder, RemoveRow, RemoveDoc, At
      <3>2. PICK m : m = Patched(disk[i], op[p].patch)
        OBVIOUS
      <3>3. m = NewFields(p)
        <4>1. PICK r : r = cmd[p].request.patch
          OBVIOUS
        <4>2. PICK a : a = Fields(p)
          OBVIOUS
        <4>3. a.slug = r.slug /\ a.state = r.state
          BY <4>1, <4>2, RequestTyped DEF CommandsInv
        <4>4. m = Patched(NewText(p), a) /\ NewFields(p) = Patched(NewText(p), r)
          BY <2>2, <2>3, <3>2, <4>1, <4>2 DEF NewFields
        <4> QED
          BY <4>3, <4>4 DEF Patched
      <3>4. op[p].patch.body = Keep
        BY <2>2, RequestTyped DEF CommandsInv
      <3>5. op' = [op EXCEPT ![p].seen = m, ![p].step = "row"] /\ disk' = [disk EXCEPT ![i] = m]
        BY <2>2, <3>1, <3>2, <3>4 DEF WriteManifest
      <3>6. /\ op'[p].name = "update" /\ op'[p].id = i /\ op'[p].step = "row"
            /\ op'[p].patch = Fields(p) /\ op'[p].seen = m
        BY <2>2, <3>5 DEF CommandsInv, TypeInv, TypeOK, Op
      <3>7. disk'[i] = m /\ \A j \in Ids \ {i} : disk'[j] = disk[j]
        BY <1>4, <1>6, <3>5
      <3>8. UpdateLast(p)'
        BY <1>1, <1>3, <3>3, <3>6, <3>7 DEF UpdateLast, InHand
      <3> QED
        BY <1>1, <1>3, <1>4, <1>5, <1>9, <3>3, <3>7, <3>8 DEF UpdateSoFar
    <2>4. CASE op[p].step = "row" /\ disk[i] = NewFields(p) /\ op[p].seen = disk[i]
      <3>1. WriteRow(p)
        BY <2>2, <2>4 DEF Step, InnerScan, ReindexBodies, WriteFolder, WriteManifest,
             WriteTargetManifest, WriteBody, WriteDoc, RemoveFolder, RemoveRow, RemoveDoc, At
      <3>2. disk' = disk /\ Goto(p, "doc")
        BY <3>1 DEF WriteRow
      <3>3. /\ op'[p].name = "update" /\ op'[p].id = i /\ op'[p].step = "doc"
            /\ op'[p].patch = Fields(p) /\ op'[p].seen = disk[i]
        BY <2>2, <2>4, <3>2, GotoFields DEF CommandsInv, Steps
      <3>4. disk[i] # Absent
        BY <2>2, <2>4, OpTyped, NotAbsent DEF OpShape, CommandsInv
      <3>5. index'[i] = RowOf(disk[i])
        BY <1>4, <1>6, <1>7, <2>2, <2>4, <3>1, <3>4 DEF WriteRow, WrittenType, RowOf
      <3>6. UpdateLast(p)'
        BY <1>1, <1>3, <2>4, <3>2, <3>3, <3>4, <3>5 DEF UpdateLast, InHand, IndexAgrees
      <3> QED
        BY <1>1, <1>3, <1>4, <1>5, <1>9, <3>2, <3>6 DEF UpdateSoFar
    <2>5. CASE op[p].step = "doc" /\ disk[i] = NewFields(p) /\ op[p].seen = disk[i] /\ IndexAgrees(i)
      <3>1. WriteDoc(p)
        BY <2>2, <2>5 DEF Step, InnerScan, ReindexBodies, WriteFolder, WriteManifest,
             WriteTargetManifest, WriteRow, WriteBody, RemoveFolder, RemoveRow, RemoveDoc, At
      <3>2. disk' = disk /\ index' = index /\ op'[p].name = "none"
        BY <3>1 DEF WriteDoc, Release, NoOp, CommandsInv, TypeInv, TypeOK
      <3>4. disk[i] # Absent
        BY <2>2, <2>5, OpTyped, NotAbsent DEF OpShape, CommandsInv
      <3>5. search'[i] = DocOf(disk[i])
        BY <1>4, <1>6, <1>7, <2>2, <2>5, <3>1, <3>4 DEF WriteDoc, WrittenType, DocBody, DocOf
      <3>6. Agree(i)'
        BY <2>5, <3>2, <3>5 DEF Agree, IndexAgrees, SearchAgrees
      <3>7. UpdateLast(p)'
        BY <1>1, <1>3, <2>5, <3>2, <3>6 DEF UpdateLast
      <3> QED
        BY <1>1, <1>3, <1>4, <1>5, <1>9, <3>2, <3>7 DEF UpdateSoFar
    <2> QED
      BY <2>2, <2>3, <2>4, <2>5
  <1> QED
    BY <1>5, <1>8, <1>9


-----------------------------------------------------------------------------
(***************************************************************************)
(* import-file: where the command is says which blocks are in the library, *)
(* what the table knows, and what has become of the block at hand.         *)
(***************************************************************************)
Slug(p) == BlockOf(p).slug
Owner(p) == slugIndex[p][Slug(p)]
Draft(block) == [type |-> RuleEntry, slug |-> block.slug, state |-> "draft", body |-> block.body]

\* No rule there was when the import began has the slug.
Unheard(p, slug) ==
  cmd[p].sound => \A j \in Ids : cmd[p].start[j] # Absent => cmd[p].start[j].slug # slug

\* m is what a block makes of entity i.
MadeFrom(p, i, m, block) ==
  IF cmd[p].start[i] = Absent
  THEN m = Draft(block) /\ Unheard(p, block.slug)
  ELSE /\ block.slug = cmd[p].start[i].slug
       /\ m = [cmd[p].start[i] EXCEPT !.body = block.body]

Confined(p) == \A i \in Ids : disk[i] \in {cmd[p].start[i]} \cup ImportMayMake(p, i)

\* A rule carries the block's slug and its text, and every place says so.
Written(block) ==
  \E i \in OnDisk : disk[i].slug = block.slug /\ disk[i].body = block.body /\ Agree(i)

ImportSafe(p) ==
  /\ cmd[p].before <= faults
  /\ cmd[p].phase = "error" => cmd[p].before < faults
  /\ cmd[p].phase = "ok" => cmd[p].done = Len(cmd[p].doc)
  /\ Confined(p)
  /\ cmd[p].sound => UniqueOnDisk
  /\ cmd[p].sound => \A k \in 1..cmd[p].done : Written(cmd[p].doc[k])

\* The table misses no rule but the one that is being created.
TableComplete(p) ==
  \A j \in OnDisk : slugIndex[p][disk[j].slug] # Absent \/ InHand(p, "create", j)

ImportText(p) ==
  /\ Owner(p) # Absent
  /\ \/ op[p].name = "none"
     \/ /\ InHand(p, "update_body", Owner(p)) /\ op[p].step \in {"body", "doc"}
        /\ op[p].patch.body = BlockOf(p).body

ImportUpdate(p) ==
  LET i == Owner(p) IN
  /\ i # Absent
  /\ InHand(p, "update", i) /\ op[p].patch = ImportPatch(BlockOf(p))
  /\ \/ op[p].step = "manifest"
     \/ op[p].step = "body" /\ op[p].seen.state = disk[i].state
     \/ /\ op[p].step = "row" /\ op[p].seen.state = disk[i].state
        /\ disk[i].body = BlockOf(p).body
     \/ /\ op[p].step = "doc" /\ op[p].seen.state = disk[i].state
        /\ disk[i].body = BlockOf(p).body /\ IndexAgrees(i)

ImportCreate(p) ==
  LET i == op[p].id IN
  /\ op[p].name = "create" /\ op[p].seen = Draft(BlockOf(p))
  /\ Owner(p) = Absent
  /\ cmd[p].start[i] = Absent /\ Unheard(p, Slug(p))
  /\ cmd[p].sound => \A j \in OnDisk \ {i} : disk[j].slug # Slug(p)
  /\ \/ op[p].step = "folder" /\ disk[i] = Absent
     \/ op[p].step = "row" /\ disk[i] = op[p].seen
     \/ op[p].step = "doc" /\ disk[i] = op[p].seen /\ IndexAgrees(i)

ImportDone(p) ==
  /\ op[p].name = "none" /\ Owner(p) # Absent
  /\ disk[Owner(p)].body = BlockOf(p).body /\ Agree(Owner(p))

ImportStage(p) ==
  /\ cmd[p].stage = "get" => op[p].name = "none"
  /\ cmd[p].stage = "text" => ImportText(p)
  /\ cmd[p].stage = "last" => ImportUpdate(p) \/ ImportCreate(p) \/ ImportDone(p)

ImportRunning(p) ==
  TableTrue(p) /\ (cmd[p].sound => TableComplete(p)) /\ ImportStage(p)

ImportProgress(p) ==
  cmd[p].name = "import" => ImportSafe(p) /\ (cmd[p].phase = "running" => ImportRunning(p))

LEMMA SameBlock ==
  ASSUME NEW p \in Procs, SameTask(cmd[p], cmd'[p])
  PROVE  /\ BlockOf(p)' = BlockOf(p) /\ Slug(p)' = Slug(p)
         /\ \A i : ImportMayMake(p, i)' = ImportMayMake(p, i)
         /\ Unheard(p, Slug(p))' <=> Unheard(p, Slug(p))
  BY DEF SameTask, BlockOf, Slug, ImportMayMake, Unheard

LEMMA MayMakeMembers ==
  ASSUME CommandsTyped, NEW p \in Procs, cmd[p].name = "import", NEW i \in Ids, NEW m
  PROVE  m \in ImportMayMake(p, i) <=>
           \E k \in 1..Len(cmd[p].doc) :
             k <= cmd[p].done + 1 /\ MadeFrom(p, i, m, cmd[p].doc[k])
  <1>1. PICK doc, done, start, sound :
          /\ doc = cmd[p].doc /\ done = cmd[p].done /\ start = cmd[p].start /\ sound = cmd[p].sound
    OBVIOUS
  <1>2. PICK reached : reached = {doc[k] : k \in {k \in 1..Len(doc) : k <= done + 1}}
    OBVIOUS
  <1>3. \A b : b \in reached <=> \E k \in 1..Len(doc) : k <= done + 1 /\ b = doc[k]
    BY <1>2
  <1>4. CASE start[i] = Absent
    <2>1. ImportMayMake(p, i) = {Draft(b) : b \in {b \in reached : Unheard(p, b.slug)}}
      BY <1>1, <1>2, <1>4 DEF ImportMayMake, Draft, Unheard
    <2>2. m \in ImportMayMake(p, i) <=> \E b \in reached : Unheard(p, b.slug) /\ m = Draft(b)
      BY <2>1
    <2> QED
      BY <1>1, <1>3, <1>4, <2>2 DEF MadeFrom
  <1>5. CASE start[i] # Absent
    <2>1. ImportMayMake(p, i)
            = {[start[i] EXCEPT !.body = b.body] : b \in {b \in reached : b.slug = start[i].slug}}
      BY <1>1, <1>2, <1>5 DEF ImportMayMake
    <2>2. m \in ImportMayMake(p, i) <=>
            \E b \in reached : b.slug = start[i].slug /\ m = [start[i] EXCEPT !.body = b.body]
      BY <2>1
    <2> QED
      BY <1>1, <1>3, <1>5, <2>2 DEF MadeFrom
  <1> QED
    BY <1>4, <1>5

\* The next block can be made as well.
LEMMA MoreMayMake ==
  ASSUME NEW p \in Procs, cmd[p].done \in Nat, Len(cmd[p].doc) \in Nat,
         cmd'[p].done = cmd[p].done + 1, cmd'[p].doc = cmd[p].doc,
         cmd'[p].start = cmd[p].start, cmd'[p].sound = cmd[p].sound, NEW i \in Ids
  PROVE  ImportMayMake(p, i) \subseteq ImportMayMake(p, i)'
  <1>1. PICK doc, done, start, sound :
          /\ doc = cmd[p].doc /\ done = cmd[p].done /\ start = cmd[p].start /\ sound = cmd[p].sound
    OBVIOUS
  <1>2. PICK reached : reached = {doc[k] : k \in {k \in 1..Len(doc) : k <= done + 1}}
    OBVIOUS
  <1>3. PICK further : further = {doc[k] : k \in {k \in 1..Len(doc) : k <= done + 1 + 1}}
    OBVIOUS
  <1>4. reached \subseteq further
    BY <1>1, <1>2, <1>3
  <1>5. CASE start[i] = Absent
    <2>1. ImportMayMake(p, i) = {Draft(b) : b \in {b \in reached : Unheard(p, b.slug)}}
      BY <1>1, <1>2, <1>5 DEF ImportMayMake, Draft, Unheard
    <2>2. ImportMayMake(p, i)' = {Draft(b) : b \in {b \in further : Unheard(p, b.slug)}}
      BY <1>1, <1>3, <1>5 DEF ImportMayMake, Draft, Unheard
    <2> QED
      BY <1>4, <2>1, <2>2
  <1>6. CASE start[i] # Absent
    <2>1. ImportMayMake(p, i)
            = {[start[i] EXCEPT !.body = b.body] : b \in {b \in reached : b.slug = start[i].slug}}
      BY <1>1, <1>2, <1>6 DEF ImportMayMake
    <2>2. ImportMayMake(p, i)'
            = {[start[i] EXCEPT !.body = b.body] : b \in {b \in further : b.slug = start[i].slug}}
      BY <1>1, <1>3, <1>6 DEF ImportMayMake
    <2> QED
      BY <1>4, <2>1, <2>2
  <1> QED
    BY <1>5, <1>6

\* The blocks of the document and their slugs.
LEMMA BlocksOfImport ==
  ASSUME CommandsTyped, NEW p \in Procs, cmd[p].name = "import"
  PROVE  /\ cmd[p].start \in [Ids -> Stored] /\ cmd[p].done \in Nat /\ Len(cmd[p].doc) \in Nat
         /\ cmd[p].done <= Len(cmd[p].doc)
         /\ \A k \in 1..Len(cmd[p].doc) : cmd[p].doc[k] \in Block
         /\ \A k, l \in 1..Len(cmd[p].doc) : cmd[p].doc[k].slug = cmd[p].doc[l].slug => k = l
         /\ cmd[p].phase = "running" => cmd[p].done < Len(cmd[p].doc)
  <1>1. /\ cmd[p].doc \in Documents /\ cmd[p].done \in Nat /\ cmd[p].start \in [Ids -> Stored]
        /\ cmd[p].done <= Len(cmd[p].doc)
        /\ cmd[p].phase = "running" => cmd[p].done < Len(cmd[p].doc)
    BY CommandFields DEF Launched
  <1>2. /\ cmd[p].doc \in Seq(Block)
        /\ \A k, l \in 1..Len(cmd[p].doc) : cmd[p].doc[k].slug = cmd[p].doc[l].slug => k = l
    BY <1>1, DocumentsAssumption
  <1> QED
    BY <1>1, <1>2, LenProperties, ElementOfSeq

\* Whatever an import makes is a rule, under the slug and in the state it had.
LEMMA MadeFacts ==
  ASSUME CommandsTyped, NEW p \in Procs, cmd[p].name = "import", NEW i \in Ids,
         NEW m \in {cmd[p].start[i]} \cup ImportMayMake(p, i)
  PROVE  /\ m = Absent => cmd[p].start[i] = Absent
         /\ cmd[p].start[i] # Absent =>
              m # Absent /\ m.slug = cmd[p].start[i].slug /\ m.state = cmd[p].start[i].state
         /\ m # Absent => m \in Manifest
  <1>1. CASE m = cmd[p].start[i]
    BY <1>1, BlocksOfImport DEF Stored
  <1>2. CASE m \in ImportMayMake(p, i)
    <2>1. PICK k \in 1..Len(cmd[p].doc) : MadeFrom(p, i, m, cmd[p].doc[k])
      BY <1>2, MayMakeMembers
    <2>2. PICK b : b = cmd[p].doc[k]
      OBVIOUS
    <2>3. b \in Block /\ MadeFrom(p, i, m, b) /\ cmd[p].start[i] \in Stored
      BY <2>1, <2>2, BlocksOfImport
    <2>4. m \in Manifest
      BY <2>3 DEF MadeFrom, Draft, Block, Stored, Manifest, Types, States
    <2>5. cmd[p].start[i] # Absent => m.slug = cmd[p].start[i].slug /\ m.state = cmd[p].start[i].state
      BY <2>3 DEF MadeFrom, Stored, Manifest
    <2> QED
      BY <2>4, <2>5, NotAbsent
  <1> QED
    BY <1>1, <1>2

\* The block at hand gives its text to the rule that has its slug.
LEMMA MadeNow ==
  ASSUME CommandsTyped, NEW p \in Procs, Running(p, "import"), Confined(p), NEW i \in Ids,
         disk[i] # Absent, disk[i].slug = Slug(p)
  PROVE  [disk[i] EXCEPT !.body = BlockOf(p).body] \in ImportMayMake(p, i)
  <1>1. PICK c, n, b, before, m :
          /\ c = cmd[p].doc /\ n = cmd[p].done + 1 /\ b = BlockOf(p)
          /\ before = cmd[p].start[i] /\ m = [disk[i] EXCEPT !.body = b.body]
    OBVIOUS
  <1>2. /\ n \in 1..Len(c) /\ n <= cmd[p].done + 1 /\ b = c[n] /\ before \in Stored
        /\ \A k, l \in 1..Len(c) : c[k].slug = c[l].slug => k = l
        /\ b \in Block
    BY <1>1, BlockTyped, BlocksOfImport DEF Running, BlockOf
  <1>3. disk[i] \in Manifest
    BY MadeFacts DEF Confined, Running
  <1>4. CASE disk[i] = before
    <2>1. before # Absent /\ b.slug = before.slug
      BY <1>1, <1>4 DEF Slug
    <2>2. MadeFrom(p, i, m, b)
      BY <1>1, <1>4, <2>1 DEF MadeFrom
    <2> QED
      BY <1>1, <1>2, <2>2, MayMakeMembers DEF Running
  <1>5. CASE disk[i] \in ImportMayMake(p, i)
    <2>1. PICK k \in 1..Len(c) : MadeFrom(p, i, disk[i], c[k])
      BY <1>1, <1>5, MayMakeMembers DEF Running
    <2>2. PICK d : d = c[k]
      OBVIOUS
    <2>3. d \in Block /\ MadeFrom(p, i, disk[i], d)
      BY <1>1, <2>1, <2>2, BlocksOfImport DEF Running
    <2>4. d.slug = disk[i].slug
      BY <1>1, <1>2, <2>3 DEF MadeFrom, Draft, Block, Stored, Manifest
    <2>5. d = b
      BY <1>1, <1>2, <2>2, <2>4 DEF Slug
    <2>6. MadeFrom(p, i, m, b)
      BY <1>1, <1>2, <2>3, <2>5 DEF MadeFrom, Draft, Block, Stored, Manifest
    <2> QED
      BY <1>1, <1>2, <2>6, MayMakeMembers DEF Running
  <1> QED
    BY <1>1, <1>4, <1>5 DEF Confined


\* What the folders, the rows and the documents say is kept with them.
LEMMA SafeSame ==
  ASSUME CommandsInv, NEW p \in Procs, cmd[p].name = "import", ImportSafe(p),
         UNCHANGED <<disk, index, search>>, SameTask(cmd[p], cmd'[p]),
         faults' \in Nat, faults <= faults',
         \/ cmd'[p].phase \in {"running", "died"}
         \/ cmd'[p].phase = "error" /\ faults < faults'
  PROVE  ImportSafe(p)'
  <1>1. cmd[p].before \in Nat /\ faults \in Nat
    BY CommandFields, InputAssumption DEF CommandsInv, TypeInv, TypeOK
  <1>2. Confined(p)'
    BY SameBlock DEF Confined, ImportSafe, SameTask
  <1>3. UniqueOnDisk' <=> UniqueOnDisk
    BY DEF UniqueOnDisk, OnDisk
  <1>4. \A k : Written(cmd[p].doc[k])' <=> Written(cmd[p].doc[k])
    BY DEF Written, OnDisk, Agree, IndexAgrees, SearchAgrees, SameTask
  <1> QED
    BY <1>1, <1>2, <1>3, <1>4 DEF ImportSafe, SameTask

\* A write of the import to the rule of its block.
LEMMA SafeStep ==
  ASSUME CommandsInv, NEW p \in Procs, Running(p, "import"), ImportSafe(p), cmd' = cmd,
         faults' = faults, NEW i \in Ids,
         \A j \in Ids \ {i} : disk'[j] = disk[j] /\ index'[j] = index[j] /\ search'[j] = search[j],
         disk[i] = Absent \/ disk[i].slug = Slug(p),
         disk'[i] # Absent, disk'[i].slug = Slug(p),
         disk'[i] \in {cmd[p].start[i]} \cup ImportMayMake(p, i),
         cmd[p].sound => \A j \in OnDisk \ {i} : disk[j].slug # Slug(p)
  PROVE  ImportSafe(p)'
  <1>1. SameTask(cmd[p], cmd'[p]) /\ cmd'[p] = cmd[p]
    BY DEF SameTask
  <1>2. Confined(p)'
    BY <1>1, SameBlock DEF Confined, ImportSafe
  <1>3. cmd[p].sound => UniqueOnDisk'
    BY DEF UniqueOnDisk, OnDisk, ImportSafe
  <1>4. ASSUME NEW k \in 1..cmd[p].done, Written(cmd[p].doc[k])
        PROVE  Written(cmd[p].doc[k])'
    <2>1. PICK b : b = cmd[p].doc[k]
      OBVIOUS
    <2>2. PICK j \in OnDisk : disk[j].slug = b.slug /\ disk[j].body = b.body /\ Agree(j)
      BY <1>4, <2>1 DEF Written
    <2>3. b.slug # Slug(p)
      <3>1. PICK c, n : c = cmd[p].doc /\ n = cmd[p].done + 1
        OBVIOUS
      <3>2. /\ \A l, m \in 1..Len(c) : c[l].slug = c[m].slug => l = m
            /\ cmd[p].done \in Nat /\ Len(c) \in Nat /\ cmd[p].done < Len(c)
        BY <3>1, BlocksOfImport DEF Running, CommandsInv
      <3>3. k \in 1..Len(c) /\ n \in 1..Len(c) /\ k # n
        BY <3>1, <3>2
      <3> QED
        BY <2>1, <3>1, <3>2, <3>3 DEF Slug, BlockOf
    <2>4. j \in Ids /\ j # i
      BY <2>2, <2>3 DEF OnDisk
    <2>5. disk'[j] = disk[j] /\ j \in OnDisk' /\ Agree(j)'
      BY <2>2, <2>4 DEF OnDisk, Agree, IndexAgrees, SearchAgrees
    <2>6. cmd'[p].doc[k] = b
      BY <1>1, <2>1
    <2> QED
      BY <2>1, <2>2, <2>5, <2>6 DEF Written
  <1> QED
    BY <1>1, <1>2, <1>3, <1>4 DEF ImportSafe, Running

\* The table when neither it nor the rules it speaks of change.
LEMMA TableSame ==
  ASSUME NEW p \in Procs, TableTrue(p), slugIndex'[p] = slugIndex[p],
         UNCHANGED <<disk, index>>
  PROVE  TableTrue(p)'
  BY DEF TableTrue, Indexed, OnDisk

LEMMA ImportLaunched ==
  ASSUME CommandsInv, NEW p \in Procs, Launches(p)
  PROVE  ImportProgress(p)'
  <1> USE DEF NoCommand
  <1>0. NoCommand \in Command
    BY NoCommandTyped
  <1>1. ASSUME NEW c \in Command, Launch(p, c), c.name # "import"
        PROVE  ImportProgress(p)'
    BY <1>1 DEF Launch, ImportProgress, CommandsInv, CommandsTyped, Command
  <1>2. ASSUME NEW doc \in Documents, ImportFile(p, doc)
        PROVE  ImportProgress(p)'
    <2>1. PICK c : c = [NoCommand EXCEPT !.name = "import", !.doc = doc]
      OBVIOUS
    <2>2. c \in Command /\ c.name = "import" /\ c.done = 0 /\ c.doc = doc /\ c.stage = "get"
      BY <1>0, <2>1 DEF Command
    <2>3. Launch(p, c) /\ Ready(p) /\ UNCHANGED vars /\ cmd[p].name = "none"
      BY <1>2, <2>1 DEF ImportFile
    <2>4. /\ cmd'[p].start = disk /\ cmd'[p].phase = "running" /\ cmd'[p].stage = "get"
          /\ cmd'[p].before = faults /\ cmd'[p].done = 0 /\ cmd'[p].sound = Sound
      BY <2>2, <2>3, LaunchFields DEF CommandsInv
    <2>5. TableTrue(p) /\ TableFull(p)
      BY <2>3 DEF CommandsInv, Between
    <2>6. faults \in Nat
      BY InputAssumption DEF CommandsInv, TypeInv, TypeOK
    <2>7. ImportSafe(p)'
      <3>1. Confined(p)'
        BY <2>3, <2>4 DEF Confined, vars
      <3>2. cmd'[p].sound => UniqueOnDisk'
        BY <2>3, <2>4 DEF Sound, vars, UniqueOnDisk, OnDisk
      <3>3. cmd'[p].before <= faults' /\ 1..cmd'[p].done = {}
        BY <2>3, <2>4, <2>6 DEF vars
      <3> QED
        BY <2>4, <3>1, <3>2, <3>3 DEF ImportSafe
    <2>8. TableTrue(p)'
      BY <2>3, <2>5, TableSame DEF vars
    <2>9. cmd'[p].sound => TableComplete(p)'
      BY <2>3, <2>4, <2>5 DEF Sound, TableComplete, TableFull, vars, OnDisk
    <2>10. ImportStage(p)'
      BY <2>3, <2>4 DEF ImportStage, vars, Ready
    <2> QED
      BY <2>7, <2>8, <2>9, <2>10 DEF ImportProgress, ImportRunning
  <1>3. ASSUME NEW i \in Ids, NEW s \in Slugs, NEW b \in Bodies, CreateCommand(p, i, s, b)
        PROVE  ImportProgress(p)'
    <2>1. PICK c : c = [NoCommand EXCEPT !.name = "create", !.stage = "last"]
      OBVIOUS
    <2>2. c \in Command /\ c.name = "create"
      BY <1>0, <2>1 DEF Command
    <2> QED
      BY <1>1, <1>3, <2>1, <2>2 DEF CreateCommand
  <1>4. ASSUME NEW i \in Ids, DeleteCommand(p, i)
        PROVE  ImportProgress(p)'
    <2>1. PICK c : c = [NoCommand EXCEPT !.name = "delete", !.stage = "last"]
      OBVIOUS
    <2>2. c \in Command /\ c.name = "delete"
      BY <1>0, <2>1 DEF Command
    <2> QED
      BY <1>1, <1>4, <2>1, <2>2 DEF DeleteCommand
  <1>5. ASSUME NEW i \in Ids, NEW request \in Requests, UpdateCommand(p, i, request)
        PROVE  ImportProgress(p)'
    <2>1. PICK c : c = [NoCommand EXCEPT !.name = "update", !.id = i, !.request = request]
      OBVIOUS
    <2>2. c \in Command /\ c.name = "update"
      BY <1>0, <2>1 DEF Command
    <2> QED
      BY <1>1, <1>5, <2>1, <2>2 DEF UpdateCommand
  <1> QED
    BY <1>2, <1>3, <1>4, <1>5 DEF Launches

\* A block's slug in the table is that of a rule the store can get.
LEMMA OwnerKnown ==
  ASSUME CommandsInv, NEW p \in Procs, Running(p, "import"), TableTrue(p), Owner(p) # Absent
  PROVE  /\ Owner(p) \in Ids /\ Owner(p) \in Indexed /\ Gettable(p, Slug(p))
         /\ disk[Owner(p)] # Absent /\ disk[Owner(p)].slug = Slug(p)
         /\ disk[Owner(p)] \in Manifest /\ disk[Owner(p)].type = RuleEntry
         /\ PatchedSlugs(p, Owner(p), ImportPatch(BlockOf(p))) = slugIndex[p]
  <1>1. PICK s, i, patch : s = Slug(p) /\ i = Owner(p) /\ patch = ImportPatch(BlockOf(p))
    OBVIOUS
  <1>2. s \in Slugs
    BY <1>1, BlockTyped DEF Slug, CommandsInv
  <1>3. i = slugIndex[p][s]
    BY <1>1 DEF Owner
  <1>4. i \in Indexed /\ i \in OnDisk /\ disk[i].slug = s
    BY <1>1, <1>2, <1>3 DEF TableTrue
  <1>5. i \in Ids /\ disk[i] # Absent /\ disk[i] \in Manifest /\ disk[i].type = RuleEntry
    BY <1>4 DEF OnDisk, CommandsInv, RulesOnly, TypeInv, TypeOK
  <1>6. patch.slug = s
    BY <1>1 DEF ImportPatch, Slug
  <1>7. slugIndex[p] \in [Slugs -> Ids \cup {Absent}]
    BY DEF CommandsInv, TypeInv, TypeOK
  <1>8. PatchedSlugs(p, i, patch) = slugIndex[p]
    <2>1. s # Keep
      BY <1>2, KeepAssumption
    <2>2. PatchedSlugs(p, i, patch)
            = [t \in Slugs |-> IF t = s THEN i ELSE IF t = s THEN Absent ELSE slugIndex[p][t]]
      BY <1>4, <1>6, <2>1 DEF PatchedSlugs
    <2>3. \A t \in Slugs : (IF t = s THEN i ELSE IF t = s THEN Absent ELSE slugIndex[p][t])
                           = slugIndex[p][t]
      BY <1>3
    <2> QED
      BY <1>7, <2>2, <2>3
  <1> QED
    BY <1>1, <1>3, <1>4, <1>5, <1>8 DEF Gettable

LEMMA ImportOperations ==
  ASSUME CommandsAssumptions, CommandsInv, NEW p \in Procs, ImportProgress(p),
         \/ RewriteBlock(p) \/ RefileBlock(p) \/ CreateBlock(p)
         \/ WriteText(p) \/ WriteFields(p)
  PROVE  ImportProgress(p)'
  <1>1. /\ Begun(p) /\ SameTask(cmd[p], cmd'[p])
        /\ cmd[p].phase = "running" /\ cmd'[p].phase = "running"
        /\ cmd'[p].stage = (IF RewriteBlock(p) \/ WriteText(p) THEN "text" ELSE "last")
        /\ op[p].name = "none"
    BY OperationsKeep
  <1>2. SUFFICES ASSUME cmd[p].name = "import"
                 PROVE  ImportSafe(p)' /\ ImportRunning(p)'
    BY <1>1 DEF ImportProgress, SameTask
  <1>3. UNCHANGED <<disk, index, search>> /\ faults' = faults /\ faults \in Nat
    BY <1>1, BegunKeeps, InputAssumption DEF CommandsInv, TypeInv, TypeOK
  <1>4. ImportSafe(p) /\ ImportRunning(p) /\ Running(p, "import")
    BY <1>1, <1>2 DEF ImportProgress, Running
  <1>5. ImportSafe(p)'
    BY <1>1, <1>2, <1>3, <1>4, SafeSame
  <1>6. /\ BlockOf(p)' = BlockOf(p) /\ Slug(p)' = Slug(p)
        /\ Unheard(p, Slug(p))' <=> Unheard(p, Slug(p))
        /\ cmd'[p].sound = cmd[p].sound /\ cmd'[p].start = cmd[p].start
    BY <1>1, SameBlock DEF SameTask
  <1>7. TableTrue(p) /\ (cmd[p].sound => TableComplete(p)) /\ ImportStage(p)
    BY <1>4 DEF ImportRunning
  <1>8. ASSUME slugIndex'[p] = slugIndex[p]
        PROVE  /\ TableTrue(p)' /\ Owner(p)' = Owner(p)
               /\ cmd'[p].sound => TableComplete(p)'
    <2>1. Owner(p)' = Owner(p)
      BY <1>6, <1>8 DEF Owner
    <2>2. cmd'[p].sound => TableComplete(p)'
      BY <1>1, <1>3, <1>6, <1>7, <1>8 DEF TableComplete, OnDisk, InHand
    <2> QED
      BY <1>3, <1>7, <1>8, <2>1, <2>2, TableSame
  <1>9. CASE RewriteBlock(p)
    <2>1. UpdateBody(p, Owner(p), BlockOf(p).body) /\ Gettable(p, Slug(p))
      BY <1>9 DEF RewriteBlock, Owner, Slug
    <2>2. /\ op'[p].name = "update_body" /\ op'[p].step = "body" /\ op'[p].id = Owner(p)
          /\ op'[p].patch.body = BlockOf(p).body /\ slugIndex'[p] = slugIndex[p]
      BY <2>1 DEF UpdateBody, Begin, NoPatch, CommandsInv, TypeInv, TypeOK
    <2>3. Owner(p) # Absent
      BY <2>1, AbsentAssumption DEF Gettable, Owner, Indexed
    <2>4. cmd'[p].stage = "text"
      BY <1>1, <1>9
    <2>5. ImportStage(p)'
      BY <1>6, <1>8, <2>2, <2>3, <2>4 DEF ImportStage, ImportText, InHand
    <2> QED
      BY <1>5, <1>8, <2>2, <2>5 DEF ImportRunning
  <1>10. CASE RefileBlock(p)
    <2>1. PICK patch : patch = ImportPatch(BlockOf(p))
      OBVIOUS
    <2>2. Update(p, Owner(p), patch) /\ Owner(p) # Absent /\ cmd[p].stage = "text"
      BY <1>10, <2>1, AbsentAssumption DEF RefileBlock, Owner, Slug
    <2>3. /\ op'[p].name = "update" /\ op'[p].step = "manifest" /\ op'[p].id = Owner(p)
          /\ op'[p].patch = patch /\ slugIndex'[p] = PatchedSlugs(p, Owner(p), patch)
      BY <2>2 DEF Update, Begin, CommandsInv, TypeInv, TypeOK
    <2>4. slugIndex'[p] = slugIndex[p]
      BY <1>4, <1>7, <2>1, <2>2, <2>3, OwnerKnown
    <2>5. cmd'[p].stage = "last"
      BY <1>1, <1>2, <1>10, <2>2 DEF RewriteBlock, WriteText, Running
    <2>6. ImportUpdate(p)'
      BY <1>6, <1>8, <2>1, <2>2, <2>3, <2>4 DEF ImportUpdate, InHand
    <2> QED
      BY <1>5, <1>8, <2>4, <2>5, <2>6 DEF ImportRunning, ImportStage
  <1>11. CASE CreateBlock(p)
    <2>1. PICK i \in Ids : Create(p, i, Slug(p), BlockOf(p).body)
      BY <1>11 DEF CreateBlock, Slug
    <2>2. ~Gettable(p, Slug(p)) /\ Owner(p) = Absent
      BY <1>11, <2>1 DEF CreateBlock, Slug, Create, Owner
    <2>3. /\ op'[p].name = "create" /\ op'[p].step = "folder" /\ op'[p].id = i
          /\ op'[p].seen = Draft(BlockOf(p)) /\ slugIndex'[p] = slugIndex[p]
      BY <2>1 DEF Create, Begin, Draft, Slug, CommandsInv, TypeInv, TypeOK
    <2>4. disk[i] = Absent
      BY <2>1 DEF Create, Fresh
    <2>5. cmd[p].start[i] = Absent
      BY <1>2, <1>4, <2>4, MadeFacts DEF ImportSafe, Confined, CommandsInv
    <2>6. cmd[p].sound => \A j \in OnDisk : disk[j].slug # Slug(p)
      BY <1>1, <1>7, <2>2 DEF TableComplete, InHand, Owner
    <2>7. Unheard(p, Slug(p))
      <3> SUFFICES ASSUME cmd[p].sound, NEW j \in Ids, cmd[p].start[j] # Absent
                   PROVE  cmd[p].start[j].slug # Slug(p)
        BY DEF Unheard
      <3>1. disk[j] # Absent /\ disk[j].slug = cmd[p].start[j].slug
        BY <1>2, <1>4, MadeFacts DEF ImportSafe, Confined, CommandsInv
      <3> QED
        BY <2>6, <3>1 DEF OnDisk
    <2>8. cmd'[p].stage = "last"
      BY <1>1, <1>2, <1>11, <2>2 DEF RewriteBlock, WriteText, Running, Slug
    <2>9. OnDisk' = OnDisk
      BY <1>3 DEF OnDisk
    <2>10. ImportCreate(p)'
      BY <1>3, <1>6, <1>8, <2>2, <2>3, <2>4, <2>5, <2>6, <2>7, <2>9 DEF ImportCreate
    <2> QED
      BY <1>5, <1>8, <2>3, <2>8, <2>10 DEF ImportRunning, ImportStage
  <1> QED
    BY <1>2, <1>9, <1>10, <1>11 DEF WriteText, WriteFields, Running


\* The text and the fields of a block are never refused.
LEMMA NeverRefused ==
  ASSUME CommandsInv, NEW p \in Procs, ImportProgress(p), BlockRefused(p)
  PROVE  FALSE
  <1>1. Running(p, "import") /\ cmd[p].name = "import" /\ cmd[p].phase = "running"
    BY DEF BlockRefused, Running
  <1>2. TableTrue(p) /\ ImportStage(p)
    BY <1>1 DEF ImportProgress, ImportRunning
  <1>3. PICK s, i, patch : s = Slug(p) /\ i = Owner(p) /\ patch = ImportPatch(BlockOf(p))
    OBVIOUS
  <1>4. i # Absent =>
          Gettable(p, s) /\ SlugAccepted(p, i, patch) /\ TransitionAllowed(i, patch)
    <2> SUFFICES ASSUME i # Absent
                 PROVE  Gettable(p, s) /\ SlugAccepted(p, i, patch) /\ TransitionAllowed(i, patch)
      OBVIOUS
    <2>1. Gettable(p, s) /\ disk[i] # Absent
      BY <1>1, <1>2, <1>3, OwnerKnown
    <2>2. patch.slug = s /\ patch.state = Keep /\ slugIndex[p][s] = i
      BY <1>3 DEF ImportPatch, Slug, Owner
    <2> QED
      BY <2>1, <2>2 DEF SlugAccepted, TransitionAllowed
  <1>5. \/ cmd[p].stage = "get" /\ ~Gettable(p, s) /\ i # Absent
        \/ /\ cmd[p].stage = "text"
           /\ ~(Gettable(p, s) /\ SlugAccepted(p, i, patch) /\ TransitionAllowed(i, patch))
    BY <1>3 DEF BlockRefused, Slug, Owner
  <1> QED
    BY <1>2, <1>3, <1>4, <1>5 DEF ImportStage, ImportText

LEMMA ImportIdle ==
  ASSUME CommandsAssumptions, CommandsInv, NEW p \in Procs, ImportProgress(p),
         BlockDone(p) \/ Refused(p) \/ Returned(p)
  PROVE  ImportProgress(p)'
  <1>1. UNCHANGED vars /\ Ready(p) /\ cmd[p].phase = "running"
    BY IdleKeeps
  <1>2. CASE Returned(p)
    <2>1. SameTask(cmd[p], cmd'[p]) /\ cmd[p].name # "import"
      BY <1>1, <1>2, EndsFields DEF Returned, CommandsInv
    <2> QED
      BY <2>1 DEF ImportProgress, SameTask
  <1>3. CASE Refused(p)
    <2>1. FieldsRefused(p) /\ Ends(p, "error")
      BY <1>3, NeverRefused DEF Refused
    <2>2. SameTask(cmd[p], cmd'[p]) /\ cmd[p].name = "update"
      BY <1>1, <2>1, EndsFields DEF FieldsRefused, Running, CommandsInv
    <2> QED
      BY <2>2 DEF ImportProgress, SameTask
  <1>4. CASE BlockDone(p)
    <2> DEFINE n == cmd[p].done + 1
    <2>1. /\ cmd[p].name = "import" /\ cmd[p].stage = "last" /\ op[p].name = "none"
          /\ ImportSafe(p) /\ ImportRunning(p) /\ Running(p, "import") /\ CommandsTyped
      BY <1>1, <1>4 DEF BlockDone, Running, ImportProgress, Ready, CommandsInv
    <2>2. /\ cmd'[p].name = "import" /\ cmd'[p].doc = cmd[p].doc
          /\ cmd'[p].done = n /\ cmd'[p].stage = "get" /\ CommandsTyped'
          /\ cmd'[p].phase = (IF n = Len(cmd[p].doc) THEN "ok" ELSE "running")
          /\ cmd'[p].start = cmd[p].start /\ cmd'[p].sound = cmd[p].sound
          /\ cmd'[p].before = cmd[p].before
      BY <1>4, <2>1, BlockDoneFields
    <2>3. cmd[p].done \in Nat /\ Len(cmd[p].doc) \in Nat
      BY <2>1, BlocksOfImport
    <2>4. TableTrue(p) /\ (cmd[p].sound => TableComplete(p)) /\ ImportDone(p)
      BY <2>1 DEF ImportRunning, ImportStage, ImportUpdate, ImportCreate, InHand
    <2>5. Written(cmd[p].doc[n])
      <3>1. Owner(p) \in OnDisk /\ disk[Owner(p)].slug = Slug(p)
        BY <2>1, <2>4, OwnerKnown DEF ImportDone, OnDisk
      <3> QED
        BY <2>4, <3>1 DEF Written, ImportDone, Slug, BlockOf
    <2>6. \A k : Written(cmd[p].doc[k])' <=> Written(cmd[p].doc[k])
      BY <1>1, <2>2 DEF Written, OnDisk, Agree, IndexAgrees, SearchAgrees, vars
    <2>7. Confined(p)'
      <3> SUFFICES ASSUME NEW i \in Ids
                   PROVE  disk[i] = cmd[p].start[i] \/ disk[i] \in ImportMayMake(p, i)'
        BY <1>1, <2>2 DEF Confined, vars
      <3>1. disk[i] = cmd[p].start[i] \/ disk[i] \in ImportMayMake(p, i)
        BY <2>1 DEF ImportSafe, Confined
      <3>2. CASE disk[i] \in ImportMayMake(p, i)
        BY <2>2, <2>3, <3>2, MoreMayMake
      <3> QED
        BY <3>1, <3>2
    <2>8. ImportSafe(p)'
      <3>1. cmd'[p].sound => UniqueOnDisk'
        BY <1>1, <2>1, <2>2 DEF ImportSafe, UniqueOnDisk, OnDisk, vars
      <3>2. cmd'[p].sound => \A k \in 1..cmd'[p].done : Written(cmd[p].doc[k])'
        BY <2>1, <2>2, <2>3, <2>5, <2>6 DEF ImportSafe
      <3>3. faults' = faults
        BY <1>1 DEF vars
      <3> QED
        BY <2>1, <2>2, <2>7, <3>1, <3>2, <3>3 DEF ImportSafe
    <2>9. ImportRunning(p)'
      <3>1. TableTrue(p)'
        BY <1>1, <2>4, TableSame DEF vars
      <3>2. cmd'[p].sound => TableComplete(p)'
        BY <1>1, <2>2, <2>4 DEF TableComplete, OnDisk, InHand, vars
      <3> QED
        BY <1>1, <2>1, <2>2, <3>1, <3>2 DEF ImportRunning, ImportStage, vars
    <2> QED
      BY <2>8, <2>9 DEF ImportProgress
  <1> QED
    BY <1>2, <1>3, <1>4

\* Nothing an import goes on to read can be gone, so only a fault stops it.
LEMMA ImportLosses ==
  ASSUME CommandsAssumptions, CommandsInv, NEW p \in Procs, ImportProgress(p),
         TransitionRejected(p) \/ Errs(p) \/ Dies(p) \/ DiesBetween(p)
  PROVE  ImportProgress(p)'
  <1>1. UNCHANGED <<disk, index, search>>
        /\ \/ cmd' = cmd /\ cmd[p].name = "none"
           \/ /\ SameTask(cmd[p], cmd'[p]) /\ cmd[p].phase = "running"
              /\ \/ cmd'[p].phase = "died"
                 \/ cmd'[p].phase = "error" /\ (TransitionRejected(p) \/ Errs(p))
    BY LossesKeep
  <1>2. CASE cmd' = cmd /\ cmd[p].name = "none"
    BY <1>2 DEF ImportProgress
  <1>3. CASE SameTask(cmd[p], cmd'[p]) /\ cmd[p].phase = "running" /\ cmd'[p].phase # "running"
    <2> SUFFICES ASSUME cmd[p].name = "import"
                 PROVE  ImportSafe(p)'
      BY <1>3 DEF ImportProgress, SameTask
    <2>1. ImportSafe(p) /\ ImportRunning(p) /\ Running(p, "import")
      BY <1>3 DEF ImportProgress, Running
    <2>2. ~TransitionRejected(p)
      BY DEF TransitionRejected, Running
    <2>3. faults \in Nat
      BY InputAssumption DEF CommandsInv, TypeInv, TypeOK
    <2>4. ~FolderGone(p)
      <3>1. op[p].name = "none" \/ ImportText(p) \/ ImportUpdate(p) \/ ImportCreate(p)
        <4>1. cmd[p].stage \in {"get", "text", "last"}
          BY CommandFields DEF CommandsInv, Command
        <4> QED
          BY <2>1, <4>1 DEF ImportRunning, ImportStage, ImportDone
      <3>2. OpShape(op[p])
        BY OpTyped DEF CommandsInv
      <3>3. CASE op[p].name = "none"
        BY <3>2, <3>3 DEF OpShape, FolderGone, At
      <3>4. CASE op[p].name # "none" /\ (ImportText(p) \/ ImportUpdate(p))
        <4>1. op[p].id = Owner(p) /\ op[p].name \in {"update", "update_body"}
              /\ op[p].step # "bodies" /\ Owner(p) # Absent
          BY <3>4 DEF ImportText, ImportUpdate, InHand
        <4>2. disk[op[p].id] # Absent
          BY <2>1, <4>1, OwnerKnown DEF ImportRunning
        <4> QED
          BY <4>1, <4>2 DEF FolderGone, At
      <3>5. CASE ImportCreate(p)
        BY <3>5 DEF ImportCreate, FolderGone, At
      <3> QED
        BY <3>1, <3>3, <3>4, <3>5
    <2>5. faults' = faults + 1
      BY <2>2, <2>4 DEF Errs, Dies, DiesBetween, Fail, Crash
    <2> QED
      BY <1>1, <1>3, <2>1, <2>3, <2>5, SafeSame
  <1> QED
    BY <1>1, <1>2, <1>3

\* The writes to the rule that has the block's slug.
LEMMA ImportTextStep ==
  ASSUME CommandsInv, CommandsAssumptions, NEW p \in Procs, Running(p, "import"),
         ImportSafe(p), ImportRunning(p), cmd[p].stage = "text", Step(p), UNCHANGED cmd
  PROVE  ImportSafe(p)' /\ ImportRunning(p)'
  <1>1. TableTrue(p) /\ (cmd[p].sound => TableComplete(p)) /\ ImportText(p)
    BY DEF ImportRunning, ImportStage
  <1>2. PICK i, b : i = Owner(p) /\ b = BlockOf(p)
    OBVIOUS
  <1>3. /\ op[p].name = "update_body" /\ op[p].id = i /\ op[p].step \in {"body", "doc"}
        /\ op[p].patch.body = b.body /\ i # Absent
    BY <1>1, <1>2, StepOfRule DEF ImportText, InHand
  <1>4. /\ i \in Ids /\ disk[i] # Absent /\ disk[i].slug = Slug(p) /\ disk[i] \in Manifest
        /\ slugIndex[p][Slug(p)] = i
    BY <1>1, <1>2, <1>3, OwnerKnown DEF Owner
  <1>5. SameTask(cmd[p], cmd'[p]) /\ cmd'[p] = cmd[p]
    BY DEF SameTask
  <1>6. /\ BlockOf(p)' = BlockOf(p) /\ Slug(p)' = Slug(p)
    BY <1>5, SameBlock
  <1>7. cmd[p].sound => \A j \in OnDisk \ {i} : disk[j].slug # Slug(p)
    BY <1>4 DEF ImportSafe, UniqueOnDisk, OnDisk
  <1>8. /\ disk \in [Ids -> Stored] /\ index \in [Ids -> Row \cup {Absent}]
        /\ search \in [Ids -> Doc \cup {Absent}] /\ ~OneShot
    BY DEF CommandsInv, TypeInv, TypeOK, Stored, CommandsAssumptions
  <1>9. CASE op[p].step = "body"
    <2>1. WriteBody(p)
      BY <1>3, <1>9 DEF Step, InnerScan, ReindexBodies, WriteFolder, WriteManifest,
             WriteTargetManifest, WriteRow, WriteDoc, RemoveFolder, RemoveRow, RemoveDoc, At
    <2>2. Goto(p, "doc") /\ UNCHANGED <<index, search, slugIndex, faults>>
      BY <1>3, <2>1 DEF WriteBody
    <2>3. /\ op'[p].name = "update_body" /\ op'[p].id = i /\ op'[p].step = "doc"
          /\ op'[p].patch.body = b.body
      BY <1>3, <2>2, GotoFields DEF CommandsInv, Steps
    <2>4. PICK m : m = [disk[i] EXCEPT !.body = b.body]
      OBVIOUS
    <2>5. disk' = [disk EXCEPT ![i] = m]
      BY <1>3, <2>1, <2>4 DEF WriteBody
    <2>6. m \in ImportMayMake(p, i) /\ m.slug = Slug(p) /\ m \in Manifest
      <3>1. m \in ImportMayMake(p, i)
        BY <1>2, <1>4, <2>4, MadeNow DEF ImportSafe, CommandsInv
      <3>2. m.slug = Slug(p)
        BY <1>4, <2>4 DEF Manifest
      <3> QED
        BY <3>1, <3>2, <1>4, <2>4, BlockTyped, <1>2 DEF Manifest, CommandsInv
    <2>7. disk'[i] = m /\ m # Absent /\ \A j \in Ids \ {i} : disk'[j] = disk[j]
      BY <1>4, <1>8, <2>5, <2>6, NotAbsent
    <2>8. ImportSafe(p)'
      BY <1>4, <1>7, <2>2, <2>6, <2>7, SafeStep
    <2>9. TableTrue(p)'
      BY <1>1, <1>4, <2>2, <2>6, <2>7 DEF TableTrue, OnDisk, Indexed
    <2>10. cmd'[p].sound => TableComplete(p)'
      BY <1>1, <1>3, <1>4, <1>5, <2>2, <2>3, <2>6, <2>7 DEF TableComplete, OnDisk, InHand
    <2>11. ImportText(p)'
      BY <1>2, <1>3, <1>4, <1>6, <2>2, <2>3 DEF ImportText, Owner, InHand
    <2> QED
      BY <1>5, <2>8, <2>9, <2>10, <2>11 DEF ImportRunning, ImportStage
  <1>10. CASE op[p].step = "doc"
    <2>1. WriteDoc(p)
      BY <1>3, <1>10 DEF Step, InnerScan, ReindexBodies, WriteFolder, WriteManifest,
             WriteTargetManifest, WriteRow, WriteBody, RemoveFolder, RemoveRow, RemoveDoc, At
    <2>2. UNCHANGED <<disk, index, faults>> /\ \A j \in Ids \ {i} : search'[j] = search[j]
      BY <1>3, <1>8, <2>1 DEF WriteDoc
    <2>3. op'[p].name = "none" /\ slugIndex'[p] = slugIndex[p]
      BY <1>3, <1>8, <2>1 DEF WriteDoc, Release, NoOp, FinalSlugs, CommandsInv, TypeInv, TypeOK
    <2>4. ImportSafe(p)'
      BY <1>4, <1>7, <2>2, SafeStep DEF ImportSafe, Confined
    <2>5. TableTrue(p)'
      BY <1>1, <2>2, <2>3, TableSame
    <2>6. cmd'[p].sound => TableComplete(p)'
      BY <1>1, <1>3, <1>5, <2>2, <2>3 DEF TableComplete, OnDisk, InHand
    <2>7. ImportText(p)'
      BY <1>2, <1>3, <1>4, <1>6, <2>3 DEF ImportText, Owner, InHand
    <2> QED
      BY <1>5, <2>4, <2>5, <2>6, <2>7 DEF ImportRunning, ImportStage
  <1> QED
    BY <1>3, <1>9, <1>10


LEMMA ImportUpdateStep ==
  ASSUME CommandsInv, CommandsAssumptions, NEW p \in Procs, Running(p, "import"),
         ImportSafe(p), ImportRunning(p), cmd[p].stage = "last", ImportUpdate(p),
         Step(p), UNCHANGED cmd
  PROVE  ImportSafe(p)' /\ ImportRunning(p)'
  <1>1. TableTrue(p) /\ (cmd[p].sound => TableComplete(p))
    BY DEF ImportRunning
  <1>2. PICK i, b : i = Owner(p) /\ b = BlockOf(p)
    OBVIOUS
  <1>3. /\ op[p].name = "update" /\ op[p].id = i /\ i # Absent
        /\ op[p].patch = ImportPatch(b)
        /\ \/ op[p].step = "manifest"
           \/ op[p].step = "body" /\ op[p].seen.state = disk[i].state
           \/ /\ op[p].step = "row" /\ op[p].seen.state = disk[i].state
              /\ disk[i].body = b.body
           \/ /\ op[p].step = "doc" /\ op[p].seen.state = disk[i].state
              /\ disk[i].body = b.body /\ IndexAgrees(i)
    BY <1>2 DEF ImportUpdate, InHand
  <1>4. /\ i \in Ids /\ disk[i] # Absent /\ disk[i].slug = Slug(p) /\ disk[i] \in Manifest
        /\ disk[i].type = RuleEntry /\ slugIndex[p][Slug(p)] = i /\ i \in Indexed
    BY <1>1, <1>2, <1>3, OwnerKnown DEF Owner
  <1>5. SameTask(cmd[p], cmd'[p]) /\ cmd'[p] = cmd[p]
    BY DEF SameTask
  <1>6. BlockOf(p)' = BlockOf(p) /\ Slug(p)' = Slug(p)
    BY <1>5, SameBlock
  <1>7. cmd[p].sound => \A j \in OnDisk \ {i} : disk[j].slug # Slug(p)
    BY <1>4 DEF ImportSafe, UniqueOnDisk, OnDisk
  <1>8. /\ disk \in [Ids -> Stored] /\ index \in [Ids -> Row \cup {Absent}]
        /\ search \in [Ids -> Doc \cup {Absent}] /\ ~OneShot
    BY DEF CommandsInv, TypeInv, TypeOK, Stored, CommandsAssumptions
  <1>9. b.body \in Bodies /\ b.body # Keep /\ b.slug = Slug(p) /\ b.slug # Keep
    BY <1>2, BlockTyped, KeepAssumption DEF CommandsInv, Slug
  <1>10. CASE op[p].step = "manifest"
    <2>1. WriteManifest(p)
      BY <1>3, <1>10 DEF Step, InnerScan, ReindexBodies, WriteFolder, WriteBody,
             WriteTargetManifest, WriteRow, WriteDoc, RemoveFolder, RemoveRow, RemoveDoc, At
    <2>2. PICK m : m = Patched(disk[i], ImportPatch(b))
      OBVIOUS
    <2>3. m = disk[i]
      BY <1>4, <1>9, <2>2 DEF Patched, ImportPatch, Manifest
    <2>4. /\ disk' = [disk EXCEPT ![i] = m]
          /\ op' = [op EXCEPT ![p].seen = m, ![p].step = "body"]
          /\ UNCHANGED <<index, search, slugIndex, faults>>
      <3>1. PICK patch : patch = ImportPatch(b)
        OBVIOUS
      <3>2. patch.body # Keep
        BY <1>9, <3>1 DEF ImportPatch
      <3>3. op[p].patch = patch /\ m = Patched(disk[i], patch)
        BY <1>3, <2>2, <3>1
      <3> QED
        BY <1>3, <2>1, <3>2, <3>3 DEF WriteManifest
    <2>5. disk' = disk
      BY <1>8, <2>3, <2>4
    <2>6. /\ op'[p].name = "update" /\ op'[p].id = i /\ op'[p].step = "body"
          /\ op'[p].patch = ImportPatch(b) /\ op'[p].seen = m
      BY <1>3, <2>4 DEF CommandsInv, TypeInv, TypeOK, Op
    <2>7. ImportSafe(p)'
      BY <1>4, <1>7, <2>4, <2>5, SafeStep DEF ImportSafe, Confined
    <2>8. TableTrue(p)'
      BY <1>1, <2>4, <2>5, TableSame
    <2>9. cmd'[p].sound => TableComplete(p)'
      BY <1>1, <1>3, <1>5, <2>4, <2>5, <2>6 DEF TableComplete, OnDisk, InHand
    <2>10. ImportUpdate(p)'
      BY <1>2, <1>3, <1>4, <1>6, <2>3, <2>4, <2>5, <2>6 DEF ImportUpdate, Owner, InHand
    <2> QED
      BY <1>5, <2>7, <2>8, <2>9, <2>10 DEF ImportRunning, ImportStage
  <1>11. CASE op[p].step = "body"
    <2>1. WriteBody(p)
      BY <1>3, <1>11 DEF Step, InnerScan, ReindexBodies, WriteFolder, WriteManifest,
             WriteTargetManifest, WriteRow, WriteDoc, RemoveFolder, RemoveRow, RemoveDoc, At
    <2>2. Goto(p, "row") /\ UNCHANGED <<index, search, slugIndex, faults>>
      BY <1>3, <2>1 DEF WriteBody
    <2>3. /\ op'[p].name = "update" /\ op'[p].id = i /\ op'[p].step = "row"
          /\ op'[p].patch = ImportPatch(b) /\ op'[p].seen = op[p].seen
      BY <1>3, <2>2, GotoFields DEF CommandsInv, Steps
    <2>4. PICK m : m = [disk[i] EXCEPT !.body = b.body]
      OBVIOUS
    <2>5. disk' = [disk EXCEPT ![i] = m]
      BY <1>3, <2>1, <2>4 DEF WriteBody, ImportPatch
    <2>6. /\ m \in ImportMayMake(p, i) /\ m.slug = Slug(p) /\ m \in Manifest
          /\ m.state = disk[i].state /\ m.body = b.body
      <3>1. m \in ImportMayMake(p, i)
        BY <1>2, <1>4, <2>4, MadeNow DEF ImportSafe, CommandsInv
      <3>2. m.slug = Slug(p) /\ m.state = disk[i].state /\ m.body = b.body /\ m \in Manifest
        BY <1>4, <1>9, <2>4 DEF Manifest
      <3> QED
        BY <3>1, <3>2
    <2>7. disk'[i] = m /\ m # Absent /\ \A j \in Ids \ {i} : disk'[j] = disk[j]
      BY <1>4, <1>8, <2>5, <2>6, NotAbsent
    <2>8. ImportSafe(p)'
      BY <1>4, <1>7, <2>2, <2>6, <2>7, SafeStep
    <2>9. TableTrue(p)'
      BY <1>1, <1>4, <2>2, <2>6, <2>7 DEF TableTrue, OnDisk, Indexed
    <2>10. cmd'[p].sound => TableComplete(p)'
      BY <1>1, <1>3, <1>4, <1>5, <2>2, <2>3, <2>6, <2>7 DEF TableComplete, OnDisk, InHand
    <2>11. ImportUpdate(p)'
      BY <1>2, <1>3, <1>4, <1>6, <1>11, <2>2, <2>3, <2>6, <2>7 DEF ImportUpdate, Owner, InHand
    <2> QED
      BY <1>5, <2>8, <2>9, <2>10, <2>11 DEF ImportRunning, ImportStage
  <1>12. CASE op[p].step = "row"
    <2>1. WriteRow(p)
      BY <1>3, <1>12 DEF Step, InnerScan, ReindexBodies, WriteFolder, WriteManifest,
             WriteTargetManifest, WriteBody, WriteDoc, RemoveFolder, RemoveRow, RemoveDoc, At
    <2>2. Goto(p, "doc") /\ UNCHANGED <<disk, search, slugIndex, faults>>
      BY <2>1 DEF WriteRow
    <2>3. /\ op'[p].name = "update" /\ op'[p].id = i /\ op'[p].step = "doc"
          /\ op'[p].patch = ImportPatch(b) /\ op'[p].seen = op[p].seen
      BY <1>3, <2>2, GotoFields DEF CommandsInv, Steps
    <2>4. /\ index'[i] = RowOf(disk[i]) /\ RowOf(disk[i]) # Absent
          /\ \A j \in Ids \ {i} : index'[j] = index[j]
      <3>1. index' = [index EXCEPT ![i] = RowOf(disk[i])]
        BY <1>3, <1>4, <1>12, <2>1 DEF WriteRow, WrittenType, RowOf
      <3> QED
        BY <1>4, <1>8, <3>1, NotAbsent
    <2>5. ImportSafe(p)'
      BY <1>4, <1>7, <2>2, <2>4, SafeStep DEF ImportSafe, Confined
    <2>6. TableTrue(p)'
      BY <1>1, <1>4, <2>2, <2>4 DEF TableTrue, OnDisk, Indexed
    <2>7. cmd'[p].sound => TableComplete(p)'
      BY <1>1, <1>3, <1>5, <2>2, <2>3 DEF TableComplete, OnDisk, InHand
    <2>8. ImportUpdate(p)'
      BY <1>2, <1>3, <1>4, <1>6, <1>12, <2>2, <2>3, <2>4
         DEF ImportUpdate, Owner, InHand, IndexAgrees
    <2> QED
      BY <1>5, <2>5, <2>6, <2>7, <2>8 DEF ImportRunning, ImportStage
  <1>13. CASE op[p].step = "doc"
    <2>1. WriteDoc(p)
      BY <1>3, <1>13 DEF Step, InnerScan, ReindexBodies, WriteFolder, WriteManifest,
             WriteTargetManifest, WriteRow, WriteBody, RemoveFolder, RemoveRow, RemoveDoc, At
    <2>2. /\ UNCHANGED <<disk, index, faults>> /\ search'[i] = DocOf(disk[i])
          /\ \A j \in Ids \ {i} : search'[j] = search[j]
      <3>1. search' = [search EXCEPT ![i] = DocOf(disk[i])]
        BY <1>3, <1>4, <1>13, <2>1 DEF WriteDoc, WrittenType, DocBody, DocOf
      <3> QED
        BY <1>4, <1>8, <2>1, <3>1 DEF WriteDoc
    <2>3. op'[p].name = "none" /\ slugIndex'[p] = slugIndex[p]
      BY <1>3, <1>8, <2>1 DEF WriteDoc, Release, NoOp, FinalSlugs, CommandsInv, TypeInv, TypeOK
    <2>4. ImportSafe(p)'
      BY <1>4, <1>7, <2>2, SafeStep DEF ImportSafe, Confined
    <2>5. TableTrue(p)'
      BY <1>1, <2>2, <2>3, TableSame
    <2>6. cmd'[p].sound => TableComplete(p)'
      BY <1>1, <1>3, <1>5, <2>2, <2>3 DEF TableComplete, OnDisk, InHand
    <2>7. Agree(i)' /\ Owner(p)' = i
      BY <1>3, <1>4, <1>6, <1>13, <2>2, <2>3 DEF Agree, IndexAgrees, SearchAgrees, Owner
    <2>8. ImportDone(p)'
      BY <1>2, <1>3, <1>6, <1>13, <2>2, <2>3, <2>7 DEF ImportDone
    <2> QED
      BY <1>5, <2>4, <2>5, <2>6, <2>8 DEF ImportRunning, ImportStage
  <1> QED
    BY <1>3, <1>10, <1>11, <1>12, <1>13

\* The folder, the row and the document of a block that is new.
LEMMA ImportCreateStep ==
  ASSUME CommandsInv, CommandsAssumptions, NEW p \in Procs, Running(p, "import"),
         ImportSafe(p), ImportRunning(p), cmd[p].stage = "last", ImportCreate(p),
         Step(p), UNCHANGED cmd
  PROVE  ImportSafe(p)' /\ ImportRunning(p)'
  <1>1. TableTrue(p) /\ (cmd[p].sound => TableComplete(p))
    BY DEF ImportRunning
  <1>2. PICK i, b, m : i = op[p].id /\ b = BlockOf(p) /\ m = Draft(b)
    OBVIOUS
  <1>3. /\ op[p].name = "create" /\ op[p].id = i /\ op[p].seen = m
        /\ slugIndex[p][Slug(p)] = Absent
        /\ cmd[p].start[i] = Absent /\ Unheard(p, Slug(p))
        /\ cmd[p].sound => \A j \in OnDisk \ {i} : disk[j].slug # Slug(p)
        /\ \/ op[p].step = "folder" /\ disk[i] = Absent
           \/ op[p].step = "row" /\ disk[i] = m
           \/ op[p].step = "doc" /\ disk[i] = m /\ IndexAgrees(i)
    BY <1>2 DEF ImportCreate, Owner
  <1>4. /\ i \in Ids /\ b \in Block /\ b.slug = Slug(p) /\ Slug(p) \in Slugs
        /\ slugIndex[p] \in [Slugs -> Ids \cup {Absent}]
    BY <1>2, <1>3, OpTyped, BlockTyped DEF Slug, CommandsInv, TypeInv, TypeOK
  <1>5. SameTask(cmd[p], cmd'[p]) /\ cmd'[p] = cmd[p]
    BY DEF SameTask
  <1>6. /\ BlockOf(p)' = BlockOf(p) /\ Slug(p)' = Slug(p)
        /\ Unheard(p, Slug(p))' <=> Unheard(p, Slug(p))
    BY <1>5, SameBlock
  <1>7. /\ m \in Manifest /\ m # Absent /\ m.slug = Slug(p) /\ m.body = b.body
        /\ m.type = RuleEntry
    BY <1>2, <1>4, NotAbsent DEF Draft, Block, Manifest, Types, States
  <1>8. /\ disk \in [Ids -> Stored] /\ index \in [Ids -> Row \cup {Absent}]
        /\ search \in [Ids -> Doc \cup {Absent}] /\ ~OneShot
    BY DEF CommandsInv, TypeInv, TypeOK, Stored, CommandsAssumptions
  <1>9. m \in ImportMayMake(p, i)
    <2>1. PICK c, n : c = cmd[p].doc /\ n = cmd[p].done + 1
      OBVIOUS
    <2>2. n \in 1..Len(c) /\ b = c[n] /\ cmd[p].done \in Nat
      BY <1>2, <2>1, BlockTyped DEF BlockOf, CommandsInv
    <2>3. MadeFrom(p, i, m, b)
      BY <1>2, <1>3, <1>4 DEF MadeFrom
    <2> QED
      BY <1>4, <2>1, <2>2, <2>3, MayMakeMembers DEF Running, CommandsInv
  <1>10. \A s \in Slugs : slugIndex[p][s] # Absent => s # Slug(p)
    BY <1>3
  <1>11. CASE op[p].step = "folder" /\ disk[i] = Absent
    <2>1. WriteFolder(p)
      BY <1>3, <1>11 DEF Step, InnerScan, ReindexBodies, WriteBody, WriteManifest,
             WriteTargetManifest, WriteRow, WriteDoc, RemoveFolder, RemoveRow, RemoveDoc, At
    <2>2. Goto(p, "row") /\ UNCHANGED <<index, search, slugIndex, faults>>
          /\ disk' = [disk EXCEPT ![i] = m]
      BY <1>3, <2>1 DEF WriteFolder
    <2>3. /\ op'[p].name = "create" /\ op'[p].id = i /\ op'[p].step = "row" /\ op'[p].seen = m
      BY <1>3, <2>2, GotoFields DEF CommandsInv, Steps
    <2>4. disk'[i] = m /\ \A j \in Ids \ {i} : disk'[j] = disk[j]
      BY <1>4, <1>8, <2>2
    <2>5. ImportSafe(p)'
      BY <1>3, <1>4, <1>7, <1>9, <1>11, <2>2, <2>4, SafeStep
    <2>6. TableTrue(p)'
      BY <1>1, <1>4, <1>11, <2>2, <2>4 DEF TableTrue, OnDisk, Indexed
    <2>7. cmd'[p].sound => TableComplete(p)'
      BY <1>1, <1>3, <1>4, <1>5, <2>2, <2>3, <2>4 DEF TableComplete, OnDisk, InHand
    <2>8. ImportCreate(p)'
      <3>1. cmd[p].sound => \A j \in OnDisk' \ {i} : disk'[j].slug # Slug(p)
        BY <1>3, <2>4 DEF OnDisk
      <3> QED
        BY <1>2, <1>3, <1>5, <1>6, <2>2, <2>3, <2>4, <3>1 DEF ImportCreate, Owner
    <2> QED
      BY <1>5, <2>5, <2>6, <2>7, <2>8 DEF ImportRunning, ImportStage
  <1>12. CASE op[p].step = "row" /\ disk[i] = m
    <2>1. WriteRow(p)
      BY <1>3, <1>12 DEF Step, InnerScan, ReindexBodies, WriteFolder, WriteManifest,
             WriteTargetManifest, WriteBody, WriteDoc, RemoveFolder, RemoveRow, RemoveDoc, At
    <2>2. Goto(p, "doc") /\ UNCHANGED <<disk, search, slugIndex, faults>>
      BY <2>1 DEF WriteRow
    <2>3. /\ op'[p].name = "create" /\ op'[p].id = i /\ op'[p].step = "doc" /\ op'[p].seen = m
      BY <1>3, <2>2, GotoFields DEF CommandsInv, Steps
    <2>4. /\ index'[i] = RowOf(disk[i]) /\ RowOf(disk[i]) # Absent
          /\ \A j \in Ids \ {i} : index'[j] = index[j]
      <3>1. index' = [index EXCEPT ![i] = RowOf(disk[i])]
        BY <1>3, <1>7, <1>12, <2>1 DEF WriteRow, WrittenType, RowOf
      <3> QED
        BY <1>4, <1>7, <1>8, <1>12, <3>1, NotAbsent
    <2>5. ImportSafe(p)'
      BY <1>3, <1>4, <1>7, <1>9, <1>12, <2>2, <2>4, SafeStep
    <2>6. TableTrue(p)'
      BY <1>1, <1>4, <2>2, <2>4 DEF TableTrue, OnDisk, Indexed
    <2>7. cmd'[p].sound => TableComplete(p)'
      BY <1>1, <1>3, <1>5, <2>2, <2>3 DEF TableComplete, OnDisk, InHand
    <2>8. ImportCreate(p)'
      <3>1. cmd[p].sound => \A j \in OnDisk' \ {i} : disk'[j].slug # Slug(p)
        BY <1>3, <2>2 DEF OnDisk
      <3> QED
        BY <1>2, <1>3, <1>5, <1>6, <1>7, <1>12, <2>2, <2>3, <2>4, <3>1
           DEF ImportCreate, Owner, IndexAgrees
    <2> QED
      BY <1>5, <2>5, <2>6, <2>7, <2>8 DEF ImportRunning, ImportStage
  <1>13. CASE op[p].step = "doc" /\ disk[i] = m /\ IndexAgrees(i)
    <2>1. WriteDoc(p)
      BY <1>3, <1>13 DEF Step, InnerScan, ReindexBodies, WriteFolder, WriteManifest,
             WriteTargetManifest, WriteRow, WriteBody, RemoveFolder, RemoveRow, RemoveDoc, At
    <2>2. /\ UNCHANGED <<disk, index, faults>> /\ search'[i] = DocOf(m)
          /\ \A j \in Ids \ {i} : search'[j] = search[j]
      <3>1. search' = [search EXCEPT ![i] = DocOf(m)]
        BY <1>3, <1>7, <1>13, <2>1 DEF WriteDoc, WrittenType, DocBody, DocOf
      <3> QED
        BY <1>4, <1>8, <2>1, <3>1 DEF WriteDoc
    <2>3. op'[p].name = "none" /\ slugIndex'[p] = [slugIndex[p] EXCEPT ![Slug(p)] = i]
      BY <1>3, <1>7, <1>8, <2>1 DEF WriteDoc, Release, NoOp, FinalSlugs, CommandsInv, TypeInv, TypeOK
    <2>4. ImportSafe(p)'
      BY <1>3, <1>4, <1>7, <1>9, <1>13, <2>2, SafeStep
    <2>5. i \in Indexed /\ i \in OnDisk /\ i # Absent
      BY <1>4, <1>7, <1>13, AbsentAssumption, NotAbsent DEF Indexed, OnDisk, IndexAgrees
    <2>6. /\ slugIndex'[p][Slug(p)] = i
          /\ \A s \in Slugs \ {Slug(p)} : slugIndex'[p][s] = slugIndex[p][s]
      BY <1>4, <2>3
    <2>7. TableTrue(p)'
      BY <1>1, <1>7, <1>13, <2>2, <2>5, <2>6 DEF TableTrue, OnDisk, Indexed
    <2>8. cmd'[p].sound => TableComplete(p)'
      <3> SUFFICES ASSUME cmd[p].sound, NEW j \in OnDisk
                   PROVE  slugIndex'[p][disk[j].slug] # Absent
        BY <1>5, <2>2 DEF TableComplete, OnDisk
      <3>1. disk[j].slug \in Slugs
        BY <1>8 DEF OnDisk, Stored, Manifest
      <3>2. CASE j = i
        BY <1>7, <1>13, <2>5, <2>6, <3>2
      <3>3. CASE j # i
        BY <1>1, <1>3, <2>6, <3>1, <3>3 DEF TableComplete, InHand
      <3> QED
        BY <3>2, <3>3
    <2>9. Agree(i)' /\ Owner(p)' = i
      BY <1>6, <1>7, <1>13, <2>2, <2>6 DEF Agree, IndexAgrees, SearchAgrees, Owner
    <2>10. ImportDone(p)'
      BY <1>2, <1>6, <1>7, <1>13, <2>2, <2>3, <2>5, <2>9 DEF ImportDone
    <2> QED
      BY <1>5, <2>4, <2>7, <2>8, <2>10 DEF ImportRunning, ImportStage
  <1> QED
    BY <1>3, <1>11, <1>12, <1>13

LEMMA ImportStep ==
  ASSUME CommandsInv, CommandsAssumptions, NEW p \in Procs, ImportProgress(p),
         Step(p), UNCHANGED cmd
  PROVE  ImportProgress(p)'
  <1> SUFFICES ASSUME cmd[p].name = "import"
               PROVE  ImportSafe(p)' /\ ImportRunning(p)'
    BY DEF ImportProgress
  <1>1. op[p].name # "none"
    BY StepOfRule
  <1>2. cmd[p].phase = "running"
    BY <1>1, CommandFields, NoCommandIs DEF CommandsInv, Between
  <1>3. Running(p, "import") /\ ImportSafe(p) /\ ImportRunning(p)
    BY <1>2 DEF ImportProgress, Running
  <1>4. cmd[p].stage \in {"get", "text", "last"}
    BY CommandFields DEF CommandsInv, Command
  <1>5. \/ cmd[p].stage = "text"
        \/ cmd[p].stage = "last" /\ (ImportUpdate(p) \/ ImportCreate(p))
    BY <1>1, <1>3, <1>4 DEF ImportRunning, ImportStage, ImportDone
  <1> QED
    BY <1>3, <1>5, ImportTextStep, ImportUpdateStep, ImportCreateStep


-----------------------------------------------------------------------------
CommandsIInv ==
  CommandsInv /\ \A p \in Procs : UpdateProgress(p) /\ ImportProgress(p)

LEMMA CommandsInitInv == CommandsInit => CommandsIInv
  BY CommandsInitTyped
     DEF CommandsInit, CommandsIInv, UpdateProgress, ImportProgress, NoCommand

LEMMA CommandsNextInv ==
  ASSUME CommandsAssumptions, CommandsIInv, [CommandsNext]_cvars
  PROVE  CommandsIInv'
  <1> USE DEF CommandsIInv
  <1>1. ASSUME NEW p \in Procs, CommandsInv', UpdateProgress(p)', ImportProgress(p)'
        PROVE  CommandsIInv'
    BY <1>1 DEF CommandsAssumptions
  <1>2. ASSUME NEW p \in Procs, CommandsInv', cmd'[p] = NoCommand
        PROVE  CommandsIInv'
    BY <1>1, <1>2 DEF UpdateProgress, ImportProgress, NoCommand
  <1>3. ASSUME NEW p \in Procs, Bootstrap(p)
        PROVE  CommandsIInv'
    BY <1>2, <1>3, BootstrapKeeps
  <1>4. ASSUME NEW p \in Procs, Launches(p)
        PROVE  CommandsIInv'
    BY <1>1, <1>4, LaunchesKeep, UpdateLaunched, ImportLaunched
  <1>5. ASSUME NEW p \in Procs,
               \/ RewriteBlock(p) \/ RefileBlock(p) \/ CreateBlock(p)
               \/ WriteText(p) \/ WriteFields(p)
        PROVE  CommandsIInv'
    BY <1>1, <1>5, OperationsKeep, UpdateOperations, ImportOperations
  <1>6. ASSUME NEW p \in Procs, BlockDone(p) \/ Refused(p) \/ Returned(p)
        PROVE  CommandsIInv'
    BY <1>1, <1>6, IdleKeeps, UpdateIdle, ImportIdle
  <1>7. ASSUME NEW p \in Procs, TransitionRejected(p) \/ Errs(p) \/ Dies(p) \/ DiesBetween(p)
        PROVE  CommandsIInv'
    BY <1>1, <1>7, LossesKeep, UpdateLosses, ImportLosses
  <1>8. ASSUME NEW p \in Procs, Step(p), UNCHANGED cmd
        PROVE  CommandsIInv'
    BY <1>1, <1>8, StepKeeps, UpdateStep, ImportStep
  <1>9. ASSUME (\E p \in Procs : Exit(p)) \/ Surroundings
        PROVE  CommandsIInv'
    BY <1>9, OutsideKeeps DEF UpdateProgress, ImportProgress, NoCommand
  <1>10. CASE UNCHANGED cvars
    <2>1. UNCHANGED vars /\ cmd' = cmd
      BY <1>10 DEF cvars
    <2>2. CommandsInv'
      BY <2>1, StutterTyped
         DEF CommandsInv, vars, OpenInProgress, CommandsTyped, RulesOnly, OnDisk, Between,
             Ready, TableTrue, TableFull, Indexed
    <2>3. ASSUME NEW p \in Procs
          PROVE  UpdateProgress(p)' /\ ImportProgress(p)'
      <3>1. SameTask(cmd[p], cmd'[p])
        BY <2>1 DEF SameTask
      <3>2. UpdateProgress(p)'
        <4>1. /\ Before(p)' = Before(p) /\ NewText(p)' = NewText(p)
              /\ NewFields(p)' = NewFields(p) /\ Fields(p)' = Fields(p)
          BY <3>1, SameTexts
        <4> QED
          BY <2>1, <4>1 DEF UpdateProgress, UpdateSoFar, UpdateText, UpdateLast, Agree,
                            IndexAgrees, SearchAgrees, InHand, vars
      <3>3. ImportProgress(p)'
        <4>1. /\ BlockOf(p)' = BlockOf(p) /\ Slug(p)' = Slug(p) /\ Owner(p)' = Owner(p)
              /\ \A i : ImportMayMake(p, i)' = ImportMayMake(p, i)
              /\ Unheard(p, Slug(p))' <=> Unheard(p, Slug(p))
              /\ OnDisk' = OnDisk
          BY <2>1, <3>1, SameBlock DEF Owner, vars, OnDisk
        <4>2. cmd[p].name = "import" /\ ImportSafe(p) => ImportSafe(p)'
          <5>1. Confined(p) => Confined(p)'
            BY <2>1, <4>1 DEF Confined, vars
          <5>2. \A k : Written(cmd[p].doc[k])' <=> Written(cmd[p].doc[k])
            BY <2>1, <4>1 DEF Written, Agree, IndexAgrees, SearchAgrees, vars
          <5>3. UniqueOnDisk' <=> UniqueOnDisk
            BY <2>1, <4>1 DEF UniqueOnDisk, vars
          <5>4. faults' = faults
            BY <2>1 DEF vars
          <5> QED
            BY <2>1, <5>1, <5>2, <5>3, <5>4 DEF ImportSafe
        <4>3. ImportRunning(p) => ImportRunning(p)'
          <5>1. TableTrue(p) => TableTrue(p)'
            BY <2>1, TableSame DEF vars
          <5>2. TableComplete(p) => TableComplete(p)'
            BY <2>1, <4>1 DEF TableComplete, InHand, vars
          <5>3. ImportText(p) => ImportText(p)'
            BY <2>1, <4>1 DEF ImportText, InHand, vars
          <5>4. ImportUpdate(p) => ImportUpdate(p)'
            BY <2>1, <4>1 DEF ImportUpdate, InHand, IndexAgrees, vars
          <5>5. ImportCreate(p) => ImportCreate(p)'
            BY <2>1, <4>1 DEF ImportCreate, IndexAgrees, vars
          <5>6. ImportDone(p) => ImportDone(p)'
            BY <2>1, <4>1 DEF ImportDone, Agree, IndexAgrees, SearchAgrees, vars
          <5>7. op' = op
            BY <2>1 DEF vars
          <5> QED
            BY <2>1, <5>1, <5>2, <5>3, <5>4, <5>5, <5>6, <5>7 DEF ImportRunning, ImportStage
        <4> QED
          BY <2>1, <4>2, <4>3 DEF ImportProgress
      <3> QED
        BY <3>2, <3>3
    <2> QED
      BY <2>2, <2>3
  <1>11. CASE CommandsNext
    BY <1>3, <1>4, <1>5, <1>6, <1>7, <1>8, <1>9, <1>11 DEF CommandsNext
  <1> QED
    BY <1>10, <1>11

\* What the properties need of the invariant.
LEMMA CommandsPromises ==
  ASSUME CommandsIInv
  PROVE  TextBeforeFields /\ ImportConfined /\ RetryNotRefused /\ ImportedPrefix
  <1>1. TextBeforeFields
    <2> SUFFICES ASSUME NEW p \in Procs, cmd[p].name = "update"
                 PROVE  /\ \A i \in Ids \ {cmd[p].id} : disk[i] = cmd[p].start[i]
                        /\ disk[cmd[p].id] \in {Before(p), NewText(p), NewFields(p)}
                        /\ cmd[p].phase = "ok" => /\ disk[cmd[p].id] = NewFields(p)
                                                  /\ IndexAgrees(cmd[p].id)
                                                  /\ SearchAgrees(cmd[p].id)
      BY DEF TextBeforeFields, Before, NewText, NewFields
    <2> QED
      BY DEF CommandsIInv, UpdateProgress, UpdateSoFar, Agree
  <1>2. ASSUME NEW p \in Procs, cmd[p].name = "import"
        PROVE  ImportSafe(p)
    BY <1>2 DEF CommandsIInv, ImportProgress
  <1>3. ImportConfined
    BY <1>2 DEF ImportConfined, ImportSafe, Confined
  <1>4. RetryNotRefused
    BY <1>2, CommandFields, InputAssumption
       DEF RetryNotRefused, ImportSafe, CommandsIInv, CommandsInv, TypeInv, TypeOK
  <1>5. ImportedPrefix
    <2> SUFFICES ASSUME NEW p \in Procs, cmd[p].name = "import", cmd[p].sound,
                        NEW k \in 1..cmd[p].done
                 PROVE  Imported(cmd[p].doc[k])
      BY <1>2 DEF ImportedPrefix, ImportSafe
    <2>1. PICK block : block = cmd[p].doc[k]
      OBVIOUS
    <2>2. UniqueOnDisk /\ Written(block)
      BY <1>2, <2>1 DEF ImportSafe
    <2>3. PICK i \in OnDisk : disk[i].slug = block.slug /\ disk[i].body = block.body /\ Agree(i)
      BY <2>2 DEF Written
    <2>4. Owners(block.slug) = {i}
      BY <2>2, <2>3 DEF Owners, UniqueOnDisk
    <2>5. Cardinality(Owners(block.slug)) = 1
      BY <2>4, FS_Singleton
    <2>6. Imported(block)
      BY <2>3, <2>4, <2>5 DEF Imported, Agree
    <2> QED
      BY <2>1, <2>6
  <1> QED
    BY <1>1, <1>3, <1>4, <1>5

LEMMA CommandsAlways == CommandsAssumptions => (CommandsSpec => []CommandsIInv)
  <1> SUFFICES ASSUME CommandsAssumptions
               PROVE  CommandsSpec => []CommandsIInv
    OBVIOUS
  <1>1. CommandsInit => CommandsIInv
    BY CommandsInitInv
  <1>2. CommandsIInv /\ [CommandsNext]_cvars => CommandsIInv'
    BY CommandsNextInv
  <1> QED
    BY <1>1, <1>2, PTL DEF CommandsSpec

(* update never changes the fields or the state of a rule without the text it
   came with, and touches no other rule: for any number of rules, faults,
   outside edits and any requests, in a process of its own. *)
THEOREM TextFirst == CommandsAssumptions => (CommandsSpec => []TextBeforeFields)
  <1>1. CommandsIInv => TextBeforeFields
    BY CommandsPromises
  <1> QED
    BY <1>1, CommandsAlways, PTL

(* An import makes what its blocks say of the rules that have their slugs, and
   of new ones, and nothing else, wherever it is and however it ends. *)
THEOREM ImportsConfined == CommandsAssumptions => (CommandsSpec => []ImportConfined)
  <1>1. CommandsIInv => ImportConfined
    BY CommandsPromises
  <1> QED
    BY <1>1, CommandsAlways, PTL

(* An import ends with an error only if one of its own writes failed, whatever
   was left in the store by the commands and the edits before it. *)
THEOREM RetriesNotRefused == CommandsAssumptions => (CommandsSpec => []RetryNotRefused)
  <1>1. CommandsIInv => RetryNotRefused
    BY CommandsPromises
  <1> QED
    BY <1>1, CommandsAlways, PTL

(* The blocks behind an import are in the library in full, at every moment and
   however it ends, if no slug was taken twice and no folder unknown when it
   began. *)
THEOREM PrefixImported == CommandsAssumptions => (CommandsSpec => []ImportedPrefix)
  <1>1. CommandsIInv => ImportedPrefix
    BY CommandsPromises
  <1> QED
    BY <1>1, CommandsAlways, PTL

=============================================================================
