------------------------------ MODULE RuleStore ------------------------------
(***************************************************************************)
(* The rule store of crates/rule-api: rule folders on disk are the truth;  *)
(* an SQLite index (entities.db), a full-text search index and, in each    *)
(* process that has the store open, a slug table in memory are derived     *)
(* from them.  Every operation writes those places one after the other and *)
(* nothing joins the writes into a transaction, so a crash, an I/O error   *)
(* or another process can come between any two of them.                    *)
(*                                                                         *)
(* A process opens the store, performs operations, and closes it.  An      *)
(* operation is one action for the call (its lookups and checks, and what  *)
(* it changes in memory) followed by one action per durable write.         *)
(* A rejected request that changes nothing is no action.                   *)
(***************************************************************************)
EXTENDS Naturals, FiniteSets

CONSTANTS
  Procs,              \* processes that may have the store open
  Ids,                \* entity UUIDs
  Slugs,              \* slugs
  GenSlugs,           \* the slugs upsert_generated_target computes
  Bodies,             \* markdown bodies (and output paths of targets)
  Patches,            \* the update requests callers make
  UpdateTypes,        \* types of the entities callers apply updates to
  Absent,             \* no folder, no row, no document, no slug entry
  Keep,               \* a field an update leaves alone
  ScanOnOpen,         \* scan(false) follows every open (MCP server, CLI reads)
  OneShot,            \* the store is closed after one operation (CLI, MCP)
  ExternalDuplicates, \* edits outside the store may repeat a slug
  MaxFaults           \* bound: crashes, I/O errors and outside edits

RuleEntry == "rule-entry"
GeneratedTarget == "generated-target"
Types == {RuleEntry, GeneratedTarget}

States == {"draft", "reviewed", "adopted", "deprecated", "active"}

\* The transitions of the rule-entry schema.
Transitions ==
  { <<"draft", "reviewed">>,    <<"reviewed", "draft">>,
    <<"reviewed", "adopted">>,  <<"adopted", "reviewed">>,
    <<"adopted", "deprecated">>, <<"deprecated", "reviewed">> }

Patch == [slug : Slugs \cup {Keep}, state : States \cup {Keep},
          body : Bodies \cup {Keep}]

ASSUME AbsentAssumption ==
  /\ Absent \notin Ids /\ Absent \notin Bodies
  /\ Absent \notin [type : Types, slug : Slugs, state : States, body : Bodies]
  /\ Absent \notin [type : Types, state : States]
  /\ Absent \notin [type : Types, state : States, body : Bodies \cup {Absent}]
ASSUME KeepAssumption ==
  Keep \notin Slugs \cup States \cup Bodies
ASSUME InputAssumption ==
  /\ GenSlugs \subseteq Slugs /\ Patches \subseteq Patch
  /\ UpdateTypes \subseteq Types
  /\ ScanOnOpen \in BOOLEAN /\ OneShot \in BOOLEAN
  /\ ExternalDuplicates \in BOOLEAN /\ MaxFaults \in Nat

VARIABLES
  disk,         \* [Ids -> manifest with its body, or Absent]
  index,        \* [Ids -> row, or Absent]: entities.db
  search,       \* [Ids -> document, or Absent]: the full-text index
  initialized,  \* entities.db exists
  handle,       \* [Procs -> "open" | "closed"]
  slugIndex,    \* [Procs -> [Slugs -> Ids \cup {Absent}]]: in memory
  op,           \* [Procs -> the operation in progress]
  derived,      \* history: "clean" until a fault or an unaccompanied write,
                \* "repairing" during a forced scan, "dirty" otherwise
  faults        \* history: faults so far

vars == <<disk, index, search, initialized, handle, slugIndex, op, derived, faults>>

-----------------------------------------------------------------------------
Manifest == [type : Types, slug : Slugs, state : States, body : Bodies]
Row      == [type : Types, state : States]
Doc      == [type : Types, state : States, body : Bodies \cup {Absent}]

OpNames == {"none", "create", "update", "update_body", "delete",
            "upsert_new", "upsert_existing", "reindex", "init"}
Steps   == {"idle", "folder", "manifest", "body", "row", "doc", "inner", "bodies"}

NoPatch == [slug |-> Keep, state |-> Keep, body |-> Keep]
NoOp == [name |-> "none", step |-> "idle", id |-> Absent,
         patch |-> NoPatch, seen |-> Absent]
Op   == [name : OpNames, step : Steps, id : Ids \cup {Absent},
         patch : Patch, seen : Manifest \cup {Absent}]

NoSlugs == [s \in Slugs |-> Absent]

\* Mutant: the row is written without the state.
RowWithoutState(m) == [type |-> m.type, state |-> Absent]

RowOf(m) == [type |-> m.type, state |-> m.state]
DocOf(m) == [type |-> m.type, state |-> m.state, body |-> m.body]

OnDisk  == {i \in Ids : disk[i] # Absent}
Indexed == {i \in Ids : index[i] # Absent}

\* Mutant: only the rows of draft rules enter the table.
SlugTablesOfDrafts(rows) ==
  { t \in [Slugs -> Ids \cup {Absent}] :
      \A s \in Slugs :
        LET owners == {i \in rows : /\ disk[i] # Absent /\ disk[i].slug = s
                                    /\ disk[i].state = "draft"}
        IN  IF owners = {} THEN t[s] = Absent ELSE t[s] \in owners }

\* A slug table built from a listing of the rows of "rows": the row listed
\* last wins when two folders carry one slug, and the order is SQLite's.
SlugTables(rows) ==
  { t \in [Slugs -> Ids \cup {Absent}] :
      \A s \in Slugs :
        LET owners == {i \in rows : disk[i] # Absent /\ disk[i].slug = s}
        IN  IF owners = {} THEN t[s] = Absent ELSE t[s] \in owners }

UniqueOnDisk == \A i, j \in OnDisk : disk[i].slug = disk[j].slug => i = j

Alone(p) == \A q \in Procs \ {p} : handle[q] = "closed"

Ready(p) == handle[p] = "open" /\ op[p].name = "none"

\* After an operation the process keeps the store open, or exits (OneShot).
Release(p, table, closing) ==
  /\ op' = [op EXCEPT ![p] = NoOp]
  /\ handle' = IF closing THEN [handle EXCEPT ![p] = "closed"] ELSE handle
  /\ slugIndex' = [slugIndex EXCEPT ![p] = IF closing THEN NoSlugs ELSE table]

\* A call that passed its checks; working next to another open process means
\* working from a slug table that process may have made stale.
Begin(p, name, step, i, patch, seen, table) ==
  /\ op' = [op EXCEPT ![p] = [name |-> name, step |-> step, id |-> i,
                              patch |-> patch, seen |-> seen]]
  /\ slugIndex' = [slugIndex EXCEPT ![p] = table]
  /\ derived' = IF Alone(p) THEN derived ELSE "dirty"
  /\ UNCHANGED <<disk, index, search, initialized, handle, faults>>

At(p, names, step) == op[p].name \in names /\ op[p].step = step

Goto(p, step) == op' = [op EXCEPT ![p].step = step]

-----------------------------------------------------------------------------
Init ==
  /\ disk = [i \in Ids |-> Absent]
  /\ index = [i \in Ids |-> Absent]
  /\ search = [i \in Ids |-> Absent]
  /\ initialized = FALSE
  /\ handle = [p \in Procs |-> "closed"]
  /\ slugIndex = [p \in Procs |-> NoSlugs]
  /\ op = [p \in Procs |-> NoOp]
  /\ derived = "clean"
  /\ faults = 0

(***************************************************************************)
(* Opening.  open prunes the rows whose folder is gone and rebuilds the    *)
(* slug table; scan(false) then adds the folders that have no row.         *)
(* Whether the documents of the external scan carry the body is left open. *)
(***************************************************************************)
Pruned == [i \in Ids |-> IF disk[i] = Absent THEN Absent ELSE index[i]]

\* Mutant: the scan prunes only.
ScannedNothing == Pruned

ScannedIndex ==
  [i \in Ids |-> IF disk[i] = Absent THEN Absent
                 ELSE IF index[i] = Absent THEN RowOf(disk[i]) ELSE index[i]]

\* The documents of the entities in "scanned", with or without their body.
ScannedSearch(scanned, withBody) ==
  [i \in Ids |->
     IF i \in scanned
     THEN [DocOf(disk[i]) EXCEPT !.body = IF withBody THEN @ ELSE Absent]
     ELSE search[i]]

Busy == {q \in Procs : op[q].name # "none"}

Opened(p, scans) ==
  /\ handle[p] = "closed"
  /\ initialized
  /\ handle' = [handle EXCEPT ![p] = "open"]
  /\ IF scans
     THEN /\ index' = ScannedIndex
          /\ \E withBody \in BOOLEAN :
               search' = ScannedSearch(OnDisk \ Indexed, withBody)
     ELSE /\ index' = Pruned
          /\ search' = search
  /\ \E t \in SlugTables({i \in Ids : index'[i] # Absent}) :
       slugIndex' = [slugIndex EXCEPT ![p] = t]
  /\ derived' = IF Busy = {} THEN derived ELSE "dirty"
  /\ UNCHANGED <<disk, initialized, op, faults>>

Open(p) == Opened(p, ScanOnOpen)

\* open_or_init without an entities.db: init, then a forced scan.  The
\* database file exists from the first moment on.
OpenOrInit(p) ==
  /\ handle[p] = "closed"
  /\ ~initialized
  /\ initialized' = TRUE
  /\ handle' = [handle EXCEPT ![p] = "open"]
  /\ op' = [op EXCEPT ![p] = [NoOp EXCEPT !.name = "init", !.step = "inner"]]
  /\ derived' = "dirty"
  /\ UNCHANGED <<disk, index, search, slugIndex, faults>>

Close(p) ==
  /\ Ready(p)
  /\ handle' = [handle EXCEPT ![p] = "closed"]
  /\ slugIndex' = [slugIndex EXCEPT ![p] = NoSlugs]
  /\ UNCHANGED <<disk, index, search, initialized, op, derived, faults>>

(***************************************************************************)
(* scan(true): the external scan rebuilds the rows; the rule bodies and    *)
(* the slug table follow.  Documents of vanished entities may survive.     *)
(***************************************************************************)
Reindex(p) ==
  /\ Ready(p)
  /\ Begin(p, "reindex", "inner", Absent, NoPatch, Absent, slugIndex[p])

\* Mutant: the forced scan keeps the rows there are.
InnerScanKeepingRows(p) ==
  /\ At(p, {"reindex", "init"}, "inner")
  /\ index' = ScannedIndex
  /\ search' = ScannedSearch(OnDisk, FALSE)
  /\ Goto(p, "bodies")
  /\ derived' = IF Alone(p) THEN "repairing" ELSE "dirty"
  /\ UNCHANGED <<disk, initialized, handle, slugIndex, faults>>

InnerScan(p) ==
  /\ At(p, {"reindex", "init"}, "inner")
  /\ index' = [i \in Ids |-> IF disk[i] = Absent THEN Absent ELSE RowOf(disk[i])]
  /\ \E withBody, sweep \in BOOLEAN :
       search' = [i \in Ids |-> IF disk[i] = Absent /\ sweep THEN Absent
                                ELSE ScannedSearch(OnDisk, withBody)[i]]
  /\ Goto(p, "bodies")
  /\ derived' = IF Alone(p) THEN "repairing" ELSE "dirty"
  /\ UNCHANGED <<disk, initialized, handle, slugIndex, faults>>

ReindexBodies(p) ==
  /\ At(p, {"reindex", "init"}, "bodies")
  /\ Indexed \subseteq OnDisk
  /\ search' = [i \in Ids |->
       IF i \in Indexed /\ index[i].type = RuleEntry
       THEN [DocOf(disk[i]) EXCEPT !.type = RuleEntry] ELSE search[i]]
  /\ \E t \in SlugTables(Indexed) : Release(p, t, OneShot /\ op[p].name = "reindex")
  /\ derived' = IF derived = "repairing" /\ Alone(p) /\ UniqueOnDisk
                THEN "clean" ELSE "dirty"
  /\ UNCHANGED <<disk, index, initialized, faults>>

(***************************************************************************)
(* create                                                                  *)
(***************************************************************************)
\* A fresh version 4 UUID: nothing has heard of it.
Fresh(i) ==
  /\ disk[i] = Absent /\ index[i] = Absent /\ search[i] = Absent
  /\ \A q \in Procs : op[q].id # i

Create(p, i, s, b) ==
  /\ Ready(p)
  /\ Fresh(i)
  /\ slugIndex[p][s] = Absent
  /\ Begin(p, "create", "folder", i, NoPatch,
           [type |-> RuleEntry, slug |-> s, state |-> "draft", body |-> b],
           slugIndex[p])

\* fs.create, for rules and generated-target records alike.
WriteFolder(p) ==
  /\ At(p, {"create", "upsert_new"}, "folder")
  /\ disk' = [disk EXCEPT ![op[p].id] = op[p].seen]
  /\ Goto(p, "row")
  /\ UNCHANGED <<index, search, initialized, handle, slugIndex, derived, faults>>

(***************************************************************************)
(* update: the slug table is patched before the transition is checked, and *)
(* the transition is checked against the state in the index row.           *)
(***************************************************************************)
SlugAccepted(p, i, patch) ==
  patch.slug # Keep =>
    /\ slugIndex[p][patch.slug] \in {Absent, i}
    /\ disk[i] # Absent

PatchedSlugs(p, i, patch) ==
  IF patch.slug = Keep THEN slugIndex[p]
  ELSE [s \in Slugs |-> IF s = patch.slug THEN i
                        ELSE IF s = disk[i].slug THEN Absent
                        ELSE slugIndex[p][s]]

\* Mutant: transitions are not checked.
AnyTransition(i, patch) == patch \in Patches

TransitionAllowed(i, patch) ==
  patch.state # Keep => <<index[i].state, patch.state>> \in Transitions

Updatable(p, i, patch) ==
  /\ Ready(p)
  /\ i \in Indexed
  /\ index[i].type \in UpdateTypes
  /\ SlugAccepted(p, i, patch)

Update(p, i, patch) ==
  /\ Updatable(p, i, patch)
  /\ TransitionAllowed(i, patch)
  /\ Begin(p, "update", "manifest", i, patch, Absent, PatchedSlugs(p, i, patch))

UpdateRejected(p, i, patch) ==
  /\ Updatable(p, i, patch)
  /\ ~TransitionAllowed(i, patch)
  /\ Release(p, PatchedSlugs(p, i, patch), OneShot)
  /\ UNCHANGED <<disk, index, search, initialized, derived, faults>>

\* fs.update: read the manifest, apply the patch, write it back.
Patched(m, patch) ==
  [m EXCEPT !.slug  = IF patch.slug  = Keep THEN @ ELSE patch.slug,
            !.state = IF patch.state = Keep THEN @ ELSE patch.state]

\* Mutant: the body of the request is left out.
WriteManifestAlone(p) ==
  /\ At(p, {"update"}, "manifest")
  /\ disk[op[p].id] # Absent
  /\ LET i == op[p].id
         m == Patched(disk[i], op[p].patch)
     IN  /\ disk' = [disk EXCEPT ![i] = m]
         /\ op' = [op EXCEPT ![p].seen = m, ![p].step = "row"]
  /\ UNCHANGED <<index, search, initialized, handle, slugIndex, derived, faults>>

WriteManifest(p) ==
  /\ At(p, {"update"}, "manifest")
  /\ disk[op[p].id] # Absent
  /\ LET i == op[p].id
         m == Patched(disk[i], op[p].patch)
     IN  /\ disk' = [disk EXCEPT ![i] = m]
         /\ op' = [op EXCEPT ![p].seen = m,
                             ![p].step = IF op[p].patch.body = Keep
                                         THEN "row" ELSE "body"]
  /\ UNCHANGED <<index, search, initialized, handle, slugIndex, derived, faults>>

(***************************************************************************)
(* update_body: no row is written.                                         *)
(***************************************************************************)
UpdateBody(p, i, b) ==
  /\ Ready(p)
  /\ i \in Indexed
  /\ index[i].type \in UpdateTypes
  /\ disk[i] # Absent
  /\ Begin(p, "update_body", "body", i, [NoPatch EXCEPT !.body = b],
           disk[i], slugIndex[p])

\* fs.write_description
WriteBody(p) ==
  /\ At(p, {"update", "update_body"}, "body")
  /\ disk[op[p].id] # Absent
  /\ disk' = [disk EXCEPT ![op[p].id].body = op[p].patch.body]
  /\ Goto(p, IF op[p].name = "update" THEN "row" ELSE "doc")
  /\ UNCHANGED <<index, search, initialized, handle, slugIndex, derived, faults>>

(***************************************************************************)
(* upsert_generated_target: a record of a generated output, found by its   *)
(* computed slug.                                                          *)
(***************************************************************************)
UpsertNew(p, i, s, b) ==
  /\ Ready(p)
  /\ s \in GenSlugs
  /\ slugIndex[p][s] = Absent
  /\ Fresh(i)
  /\ Begin(p, "upsert_new", "folder", i, NoPatch,
           [type |-> GeneratedTarget, slug |-> s, state |-> "active", body |-> b],
           slugIndex[p])

UpsertExisting(p, s, b) ==
  /\ Ready(p)
  /\ s \in GenSlugs
  /\ slugIndex[p][s] \in Indexed
  /\ index[slugIndex[p][s]].type = GeneratedTarget
  /\ Begin(p, "upsert_existing", "manifest", slugIndex[p][s],
           [NoPatch EXCEPT !.body = b], Absent, slugIndex[p])

WriteTargetManifest(p) ==
  /\ At(p, {"upsert_existing"}, "manifest")
  /\ disk[op[p].id] # Absent
  /\ LET i == op[p].id
         m == [disk[i] EXCEPT !.state = "active", !.body = op[p].patch.body]
     IN  /\ disk' = [disk EXCEPT ![i] = m]
         /\ op' = [op EXCEPT ![p].seen = m, ![p].step = "row"]
  /\ UNCHANGED <<index, search, initialized, handle, slugIndex, derived, faults>>

(***************************************************************************)
(* The two derived writes the operations above end with.                   *)
(***************************************************************************)
\* Mutant: every row is written as a rule entry.
WrittenRuleEntry(p) == RuleEntry

WrittenType(p) ==
  IF op[p].name \in {"upsert_new", "upsert_existing"}
  THEN GeneratedTarget ELSE RuleEntry

WriteRow(p) ==
  /\ At(p, {"create", "update", "upsert_new", "upsert_existing"}, "row")
  /\ index' = [index EXCEPT ![op[p].id] =
                 [type |-> WrittenType(p), state |-> op[p].seen.state]]
  /\ Goto(p, "doc")
  /\ UNCHANGED <<disk, search, initialized, handle, slugIndex, derived, faults>>

\* Mutant: update indexes the body of the request.
RequestedBody(p) ==
  CASE op[p].name = "update_body" -> op[p].patch.body
    [] op[p].name = "update" ->
         IF op[p].patch.body = Keep THEN Absent ELSE op[p].patch.body
    [] OTHER -> op[p].seen.body

\* update reads the body back from the folder; the others have it at hand.
DocBody(p) ==
  LET i == op[p].id
  IN  CASE op[p].name = "update_body" -> op[p].patch.body
        [] op[p].name = "update" ->
             IF disk[i] = Absent THEN Absent ELSE disk[i].body
        [] OTHER -> op[p].seen.body

\* create and a new record enter the slug table last of all.
FinalSlugs(p) ==
  IF op[p].name \in {"create", "upsert_new"}
  THEN [slugIndex[p] EXCEPT ![op[p].seen.slug] = op[p].id]
  ELSE slugIndex[p]

WriteDoc(p) ==
  /\ At(p, {"create", "update", "update_body", "upsert_new", "upsert_existing"},
        "doc")
  /\ search' = [search EXCEPT ![op[p].id] =
                  [type |-> WrittenType(p), state |-> op[p].seen.state,
                   body |-> DocBody(p)]]
  /\ Release(p, FinalSlugs(p), OneShot)
  /\ UNCHANGED <<disk, index, initialized, derived, faults>>

(***************************************************************************)
(* delete and delete_generated_target: the slug entry goes first, whoever  *)
(* owns it.                                                                *)
(***************************************************************************)
Delete(p, i) ==
  /\ Ready(p)
  /\ i \in Indexed
  /\ disk[i] # Absent
  /\ Begin(p, "delete", "folder", i, NoPatch, Absent,
           [slugIndex[p] EXCEPT ![disk[i].slug] = Absent])

RemoveFolder(p) ==
  /\ At(p, {"delete"}, "folder")
  /\ disk[op[p].id] # Absent
  /\ disk' = [disk EXCEPT ![op[p].id] = Absent]
  /\ Goto(p, "row")
  /\ UNCHANGED <<index, search, initialized, handle, slugIndex, derived, faults>>

RemoveRow(p) ==
  /\ At(p, {"delete"}, "row")
  /\ index' = [index EXCEPT ![op[p].id] = Absent]
  /\ Goto(p, "doc")
  /\ UNCHANGED <<disk, search, initialized, handle, slugIndex, derived, faults>>

RemoveDoc(p) ==
  /\ At(p, {"delete"}, "doc")
  /\ search' = [search EXCEPT ![op[p].id] = Absent]
  /\ Release(p, slugIndex[p], OneShot)
  /\ UNCHANGED <<disk, index, initialized, derived, faults>>

(***************************************************************************)
(* Faults.                                                                 *)
(***************************************************************************)
\* No durable write of the operation in progress has happened yet.
Untouched(p) ==
  \/ op[p].name \in {"create", "upsert_new", "delete"} /\ op[p].step = "folder"
  \/ op[p].name \in {"update", "upsert_existing"} /\ op[p].step = "manifest"
  \/ op[p].name = "update_body" /\ op[p].step = "body"
  \/ op[p].step = "inner"

\* The call changed the slug table before its first write.
SlugsTouched(p) ==
  \/ op[p].name = "delete"
  \/ op[p].name = "update" /\ op[p].patch.slug # Keep

\* The operation returns an error; nothing is undone.
Return(p) ==
  /\ derived' = IF Untouched(p) /\ (SlugsTouched(p) => OneShot)
                THEN derived ELSE "dirty"
  /\ Release(p, slugIndex[p], OneShot \/ op[p].name = "init")
  /\ UNCHANGED <<disk, index, search, initialized>>

\* A write fails.
Fail(p) ==
  /\ op[p].name # "none"
  /\ faults < MaxFaults
  /\ faults' = faults + 1
  /\ Return(p)

\* The folder an operation goes on to read is gone: another process deleted it.
FolderGone(p) ==
  /\ \/ op[p].step \in {"manifest", "body"} /\ disk[op[p].id] = Absent
     \/ At(p, {"delete"}, "folder") /\ disk[op[p].id] = Absent
     \/ op[p].step = "bodies" /\ ~(Indexed \subseteq OnDisk)
  /\ Return(p)
  /\ UNCHANGED faults

\* The process dies; its memory is lost.
Crash(p) ==
  /\ op[p].name # "none"
  /\ faults < MaxFaults
  /\ faults' = faults + 1
  /\ derived' = IF Untouched(p) THEN derived ELSE "dirty"
  /\ op' = [op EXCEPT ![p] = NoOp]
  /\ handle' = [handle EXCEPT ![p] = "closed"]
  /\ slugIndex' = [slugIndex EXCEPT ![p] = NoSlugs]
  /\ UNCHANGED <<disk, index, search, initialized>>

\* git, an editor or rm changes a folder while no process has the store open.
Outside ==
  /\ \A p \in Procs : handle[p] = "closed"
  /\ faults < MaxFaults
  /\ faults' = faults + 1
  /\ derived' = "dirty"
  /\ UNCHANGED <<initialized, handle, slugIndex, op>>

ExternalWrite(i, m) ==
  /\ Outside
  /\ m.type = RuleEntry /\ m.state # "active"
  /\ disk[i] # Absent => disk[i].type = RuleEntry
  /\ ExternalDuplicates \/ \A j \in OnDisk \ {i} : disk[j].slug # m.slug
  /\ disk' = [disk EXCEPT ![i] = m]
  /\ UNCHANGED <<index, search>>

ExternalRemove(i) ==
  /\ Outside
  /\ disk' = [disk EXCEPT ![i] = Absent]
  /\ UNCHANGED <<index, search>>

\* A fresh clone: entities.db and search_index are not under version control.
DerivedLost ==
  /\ \A p \in Procs : handle[p] = "closed"
  /\ initialized
  /\ faults < MaxFaults
  /\ faults' = faults + 1
  /\ derived' = "dirty"
  /\ initialized' = FALSE
  /\ index' = [i \in Ids |-> Absent]
  /\ search' = [i \in Ids |-> Absent]
  /\ UNCHANGED <<disk, handle, slugIndex, op>>

-----------------------------------------------------------------------------
Step(p) ==
  \/ InnerScan(p) \/ ReindexBodies(p)
  \/ WriteFolder(p) \/ WriteManifest(p) \/ WriteTargetManifest(p)
  \/ WriteBody(p) \/ WriteRow(p) \/ WriteDoc(p)
  \/ RemoveFolder(p) \/ RemoveRow(p) \/ RemoveDoc(p)

Call(p) ==
  \/ Reindex(p)
  \/ \E i \in Ids, s \in Slugs, b \in Bodies :
       Create(p, i, s, b) \/ UpsertNew(p, i, s, b)
  \/ \E i \in Ids, patch \in Patches : Update(p, i, patch) \/ UpdateRejected(p, i, patch)
  \/ \E i \in Ids, b \in Bodies : UpdateBody(p, i, b)
  \/ \E s \in GenSlugs, b \in Bodies : UpsertExisting(p, s, b)
  \/ \E i \in Ids : Delete(p, i)

Environment ==
  \/ \E i \in Ids, m \in Manifest : ExternalWrite(i, m)
  \/ \E i \in Ids : ExternalRemove(i)
  \/ DerivedLost

Next ==
  \/ \E p \in Procs : \/ Open(p) \/ OpenOrInit(p) \/ Close(p)
                      \/ Call(p) \/ Step(p)
                      \/ Fail(p) \/ FolderGone(p) \/ Crash(p)
  \/ Environment

Spec == Init /\ [][Next]_vars

-----------------------------------------------------------------------------
(* Types of the state. *)
TypeOK ==
  /\ disk \in [Ids -> Manifest \cup {Absent}]
  /\ index \in [Ids -> Row \cup {Absent}]
  /\ search \in [Ids -> Doc \cup {Absent}]
  /\ initialized \in BOOLEAN
  /\ handle \in [Procs -> {"open", "closed"}]
  /\ slugIndex \in [Procs -> [Slugs -> Ids \cup {Absent}]]
  /\ op \in [Procs -> Op]
  /\ derived \in {"clean", "repairing", "dirty"}
  /\ faults \in 0..MaxFaults

IndexAgrees(i) == index[i] = IF disk[i] = Absent THEN Absent ELSE RowOf(disk[i])

SearchAgrees(i) ==
  disk[i] # Absent /\ disk[i].type = RuleEntry => search[i] = DocOf(disk[i])

SlugsAgree(p) ==
  \A s \in Slugs, i \in Ids :
    slugIndex[p][s] = i <=> disk[i] # Absent /\ disk[i].slug = s

(* As long as nothing failed, no process worked next to another and nothing
   outside edited the folders since the last forced scan, the index rows, the
   search documents and every open slug table say what the folders say
   whenever no operation is in progress: each operation, left to finish,
   updates all four places consistently, and a forced scan restores them. *)
DerivedAgrees ==
  derived = "clean" /\ Busy = {} =>
    /\ \A i \in Ids : IndexAgrees(i) /\ SearchAgrees(i)
    /\ \A p \in Procs : handle[p] = "open" => SlugsAgree(p)

(* No two rule folders carry the same slug, the promise behind
   RuleError::DuplicateSlug: create and update refuse a taken slug, but they
   look it up in a table that is only as good as the rows it was built from. *)
UniqueSlugs == UniqueOnDisk

(* However the last command ended, a process that just opened the store, or is
   between two operations, can read it: there is a folder behind every index
   row (list and search read the manifest of each, and one missing folder fails
   the whole call), and looking a rule up by slug finds a rule that carries this
   slug, and finds one whenever an indexed rule carries it. *)
LookupTruthful ==
  \A p \in Procs : Ready(p) =>
    /\ Indexed \subseteq OnDisk
    /\ \A s \in Slugs : slugIndex[p][s] # Absent =>
         /\ slugIndex[p][s] \in Indexed \cap OnDisk
         /\ disk[slugIndex[p][s]].slug = s
    /\ \A i \in Indexed \cap OnDisk : slugIndex[p][disk[i].slug] # Absent

(* Steps of the store take a rule's state only along the transitions of the
   rule-entry schema ... *)
LegalStep ==
  \A i \in Ids :
    /\ Busy # {} /\ disk[i] # Absent /\ disk'[i] # Absent
    /\ disk'[i].state # disk[i].state
    => <<disk[i].state, disk'[i].state>> \in Transitions

(* ... while the rows are trustworthy: update checks the transition against
   the state in the index row, not against the manifest it rewrites. *)
LegalTransitions == [][derived = "clean" => LegalStep]_vars

(* An entity that is a generated-target record on disk is one in the index:
   otherwise list_generated_targets no longer sees it, and the next upsert of
   the target is refused as a duplicate slug. *)
RecordsStayRecords ==
  \A i \in OnDisk \cap Indexed :
    disk[i].type = GeneratedTarget => index[i].type = GeneratedTarget

(* What a library user sees of the folders.  An update that is to write a body
   counts as done once it has written the manifest. *)
HalfWritten(p, i) == At(p, {"update"}, "body") /\ op[p].id = i /\ disk[i] # Absent

Shown ==
  [i \in Ids |->
     IF \E p \in Procs : HalfWritten(p, i)
     THEN [disk[i] EXCEPT !.body = op[CHOOSE p \in Procs : HalfWritten(p, i)].patch.body]
     ELSE disk[i]]

Requesting == {p \in Procs : op[p].name \notin {"none", "init", "reindex"}}
Requester == CHOOSE p \in Requesting : TRUE

RequestOf(p) ==
  [name |-> op[p].name, id |-> op[p].id, patch |-> op[p].patch,
   rule |-> IF op[p].name \in {"create", "upsert_new"} THEN op[p].seen ELSE Absent]

AnyRequest == [name : OpNames, id : Ids, patch : Patch, rule : Manifest \cup {Absent}]

Requested == IF Requesting = {} THEN Absent ELSE RequestOf(Requester)

Phase ==
  IF Requesting = {} THEN "idle" ELSE IF Untouched(Requester) THEN "asked" ELSE "done"

Library ==
  INSTANCE RuleLibrary WITH
    Rules    <- Manifest,
    None     <- Absent,
    Requests <- AnyRequest,
    rules    <- Shown,
    request  <- Requested,
    phase    <- Phase,
    trusted  <- derived = "clean",
    failures <- faults

(* In a store that was not disturbed since the last forced scan, every call is
   one step on a map from ids to rules with different slugs: it was accepted
   because that map allowed it, although it was checked against the row and the
   slug table, and is answered only after it took effect, once and in full. *)
AtomicCalls == Library!Spec

=============================================================================
