# Verification of the rule system

This directory holds TLA+ specifications of `rule`, checked with TLC, and proofs
of all the safety properties those checks state, checked with TLAPS. `rule` is a store of rule entries (`crates/rule-api`)
with a command line and an MCP server (`src/cli`, `src/mcp`) that create,
query, import and edit rules, render them into files such as `AGENTS.md`, and
carry edits of those files back into the rules. Paths below are relative to the
repository.

## 1. The system and its parts

| Part | State | Operations | Talks to |
|---|---|---|---|
| Rule store (`store.rs`, `store/`) | rule folders, `entities.db` rows, search documents, a slug table per open store | open, open_or_init, scan, create, get, list, search, update, update_body, delete | everything below |
| Generated-target records (`store/generated_targets.rs`) | entities of type `generated-target` in the store | list, upsert, delete | target sync |
| Target configuration loader (`targets_loader.rs`, `targets_model.rs`) | the stack of files being loaded, the files loaded, schemas, targets | load | files, directories |
| Target queries (`targets_query.rs`, `targets.rs`, `store/filter.rs`, `store/store_query.rs`) | none | list, search, collect, explain, select | store |
| Target sync (`src/cli/rendering.rs`) | output files, records | sync-targets with `--check` and `--dry-run`, generate-target, generate-file | loader, store, spec store |
| Reverse sync and imports (`src/cli/importing.rs`) | rule bodies | sync-rules, import-file | store |
| Markdown importer (`import.rs`) | heading path, pending heading | split a document into blocks | import-file |
| Feedback (`store_helpers.rs`) | an event log per rule, counts in the manifest | record | store |
| Command line and MCP server | the open store, the server's lock | one command or tool at a time | all of the above |
| Store index document (`store_index.rs`) | three generated files | store-index, `--check` | store |
| Rule moves (`move_domain.rs`) | a journal of the external crate | move | external crate |

The entity store under the rule store (`memory_kernel`: folders, SQLite index,
full-text index), the spec store and the feedback types are crates outside the
repository. They are modelled from how this code calls them and are marked
external in `PROJECT.json`.

### What is hard, and what correct means

**Rule store.** The folders are the truth; rows, search documents and slug
tables are derived from them. Every operation writes the places one after the
other and nothing joins the writes, so a crash, an I/O error or another process
can come between any two. The slug table lives in memory and is as good as the
rows it was built from; transitions are checked against a row, not against the
manifest that is rewritten. Correct: undisturbed operations keep the four places
in line and a forced scan restores them; slugs are unique; every row has its
folder; a slug finds the rule that carries it; states change along the schema's
transitions; a record stays a record.

**Target sync.** Configuration, rules, outputs and records change
independently. The stale outputs of moved and removed targets are found by
comparing path keys that depend on whether the file exists; runs stop half-way.
Correct: a successful run leaves outputs and records that match the
configuration, loses track of no file, deletes no hand-owned file; `--check` is
right; repeated runs settle.

**Configuration loader.** Files and directories import each other; one schema
table is shared, so what a target resolves to could depend on the order of
loading. Correct: every file once, cycles and duplicates reported when there
are some, the order irrelevant, termination.

**Markdown importer.** A state machine over chunks with a pending heading and a
heading path. Correct: no text lost or doubled, blocks apart (their slugs differ
by line), sections are the open headings.

**Reverse sync.** A batch of updates with a rollback, over two writes each, next
to other processes. Correct: all or nothing for a user who is alone; for others,
a failure disturbs only the entry that failed.

**Feedback.** Append, read everything back, write the counts, with no lock
between processes. Correct: the counts are those of a beginning of the log, and
of all of it after a recording that met no other.

**Target queries and generated files.** `list` asks the index row for the state
and the manifest for everything else, so an answer mixes two copies of a rule.
Nodes inherit filters; explaining and collecting walk the same tree in two
functions. Commands discover scan roots first and rescan when one is new; an
open fails on a manifest that cannot be read. Correct: what is listed, explained
and generated is what the folders say, a rule never drops out of a generated
file without a reason one can see, a preview is what a write would write.

**Store index document.** Three files from one listing, written one after the
other and checked in a commit hook. Correct: the check passes only files that
tell what the folders say, and raises no false alarm.

**Commands that write.** create, delete, import-file and update are sequences of
store operations that stop at the first error and undo nothing. The server scans
before each tool, the command line does not before these commands
(dispatch.rs:137-150). Correct: an import that stops leaves a prefix of its
document, disturbs nothing else, and can be run again; an update never leaves
new fields with the old text.

`PROJECT.json` lists the hazards at their lines, with the properties that would
catch them.

## 2. The modules

| Module | Models | Instance |
|---|---|---|
| `RuleStore` | store.rs, generated_targets.rs: every durable write of every operation | one or more processes |
| `RuleLibrary` | what the rule store promises: every call is one step on a map from ids to rules | abstract |
| `RuleStoreProofs` | theorems about `RuleStore` and about `Commands`, which extends it | |
| `SyncTargets` | rendering.rs `sync_targets_payload` and what it calls | one run at a time, users, crashes |
| `Commands` | dispatch.rs, importing.rs, mcp/server: create, delete, import-file, update, over `RuleStore` (EXTENDS) | one process, crashes, outside edits |
| `RuleQuery` | filter.rs, store_query.rs, targets.rs, targets_query.rs: pure selection | used by `Outputs` |
| `Outputs` | dispatch.rs, dispatch_secondary.rs, rendering.rs, generate.rs, store_index.rs: the commands that read the store and write files | commands one after the other, users, crashes |
| `TargetLoader` | targets_loader.rs, targets_model.rs, `load_render_target_config` | one load |
| `MarkdownImport` | import.rs `import_markdown_blocks` | one document |
| `RuleBatch` | what sync-rules promises: all or nothing | abstract |
| `ReverseSync` | importing.rs `sync_rules_file`, store.rs `update_body` | one command, other processes |
| `Feedback` | store.rs `record_feedback`, store_helpers.rs | processes on one rule |
| `SyncTargetsProofs`, `TargetLoaderProofs`, `ReverseSyncProofs`, `MarkdownImportProofs`, `FeedbackProofs`, `OutputsProofs` | theorems about the module of that name | |
| `SequenceLemmas` | facts about finite orders, flattened sequences and their pieces that these proofs share | |
| `MC*` | instances for TLC | |

In a module, the definitions marked "Mutant" are deliberately wrong variants of
the definition after them; no specification uses them. They document how a
property fails: `PROJECT.json` says which variant breaks which property.

### RuleStore

`disk`, `index` and `search` are the folders, the rows and the documents;
`slugIndex[p]` is the table of process `p`, `op[p]` its operation in progress,
with the record it works from in `seen`. An operation is one action for the call
(lookups, checks, changes in memory: `Create`, `Update`, `UpsertNew`, `Delete`,
...) and one per durable write (`WriteFolder`, `WriteManifest`, `WriteBody`,
`WriteRow`, `WriteDoc`, `RemoveFolder`, ...) in the order of the code. A scan is
the scan of the external store (`InnerScan`), the pruning and the slug table,
and, when forced, the bodies (`ReindexBodies`). `Fail` and `FolderGone` return
errors between two writes, `Crash` loses the memory, `ExternalWrite`,
`ExternalRemove` and `DerivedLost` are git, an editor or a fresh clone.
`ScanOnOpen` and `OneShot` make a process the MCP server (`with_store_at`
opens, scans, performs one operation and drops the store), a command, or a
library user that keeps the store open.

`RuleLibrary` is the abstract store: one map from ids to rules, and requests that
are accepted (`Accept`, if the map allows them), take effect (`Perform`), and are
answered (`Answer`) or fail without an effect (`Fail`). `AtomicCalls` says that
`RuleStore` implements it. The mapping shows the folders as they are, but an update that
has written its manifest as done with its body (`Shown`); a request is the
operation in progress, scans excepted (`Requested`), and has taken effect when its
first write is done (`Phase`). The store is trusted while `derived` is "clean".
Once a write fails halfway, a process works next to another or something outside
edits a folder, the library promises only that no rule changes without a failure
in the very step that ends the trust (`Distrust`), until a forced scan in a store
with different slugs restores the trust with the rules there are (`Restore`).

`Opened(p, scans)` opens an existing store; `Open` is the opening of the run's
kind of process, `Commands` uses both kinds.

Assumed of the external store: creating a folder is atomic; an unforced scan adds
folders without a row and no others; both kinds of entities are scanned. A
request to stay in the same state is taken to be rejected. Left out: manifests
that do not parse (they are in `Outputs`), UUID prefixes, patches of the field `state` (they
bypass the transition check), history files, ranking.

### SyncTargets

`config` and `matched` are the configuration and what each target's rules render
to; `files` and `records` what is on disk and in the store; `run` the run in
progress with the snapshots it took at its start. Actions follow the code: one
for collecting the inputs, one per rendered target, one for the old output of a
moved target, one per record, then the stale records. A path key is canonical
when the file exists and raw otherwise, unless the configured path is canonical
already (`CanonicalOuts`). Records are atomic here; their inner writes are in
`RuleStore`. `FrontContents` are the renderings that open with YAML frontmatter
and therefore do not have the marker where it is looked for. Left out: the
pruning of empty directories; generate-target and generate-file are in `Outputs`.

### Commands

`cmd[p]` is the command a process runs: the block or the stage it is in, and
what the rules were when it began. Every durable write is a step of `RuleStore`
(`Step(p)`), as are failures and crashes; `RewriteBlock`, `RefileBlock`, `CreateBlock`, `WriteText` and
`WriteFields` start the operations, `BlockDone` and `Returned` end them. A block
is a slug and a text; the slugs of one document differ (`BlocksApart` of
`MarkdownImport`). `Bootstrap` is an open with or without a scan, for the server
and the command line. A malformed request is refused before the text is written
(command line) or after (server).

`ImportedPrefix` and part of `ImportConfined` are promised to an import that began
when every folder was indexed and no slug was taken twice (`sound`). A command
line import that follows a crashed create may create the slug a second time,
because it does not look for folders without a row.
`BlockRefused` holds the refusals of import-file's own operations. With one
process none of them can happen, and `RetryNotRefused` says exactly that: an
import is never refused for what an earlier one left.

### RuleQuery and Outputs

`RuleQuery` has no variables: filters, the inheritance of node filters (nodes in
depth-first order with the index of their parent), collection, explanation. Its
operators take the folders and the rows; the order in which SQLite lists rows is
lost in the sort, as long as slugs differ: a list is the matching rules in the order
of their keys, each at the place that as many rules come before (`InOrder`). A manifest there is a record of the
fields that filters ask for, an order key, a body and the feedback counts.

In `Outputs`, `disk` has a folder per rule that may be `Broken`, `row` the state
the index has for it, `roots` the registered scan roots, `output` the generated
files as sequences of rule and body, `catalog` the three files of store-index. A
command is one action because it only reads the store and writes one file;
store-index writes three and has a step for each. `Bootstrap` is open (prune
rows without folder, fail on a broken manifest that has a row), discovery of
roots, scan; the command line rescans everything when it finds a new root, the
server never does. `Save` is a write through the store reduced to its folder and
its row, or the folder alone when it dies in between; its steps are in
`RuleStore`. `made`, `stale` and `fresh` are history: what a file was last made
from, which rows are older than their folder, whether anything changed since the
last store-index. Because generated files have nothing in common but the rules,
each behaviour follows one of them, `watched`, chosen at the start; otherwise the
files multiply the states without meeting. Left out: documents of the spec store,
the limit of list, the ranking of search (any order of candidates), keywords and
wording.

### TargetLoader

The call stack of the recursive loader is the variable `stack`; its bottom frame
is `load_render_target_config`. `visited` and the files of the stack are the
fields of `LoadCtx`. A directory pushes its sorted files, a file that is done
registers its schemas and resolves its targets. Left out: the scope shorthand,
defaults, inferred file kinds and output paths of folder trees, which change what
a target contains and not which targets there are.

### MarkdownImport

A line is what the functions tell of it: blank, generated comment, heading with
level and title, or text. A block is its section, its lines and its source range.
One action per kind of chunk, and one for the end of the document.

### ReverseSync and RuleBatch

`run.changes` are the entries that differ, read in one step and in the order of
the file (`Changes` has exactly that one sequence in it); `count` goes up with the
updates and down with the rollback. An update writes the body (`WriteBody`),
then the document (`WriteDoc`); `UpdateFails` and `RuleGone` start the rollback,
`UndoFails` and `UndoGone` are its reported errors. `OtherWrites` is an update or
a delete by another process. `RuleBatch` is the promise: between two commands the
rules are as before or all taken over. `AllOrNothing` is its specification under
the mapping that shows the rules from before while a command is in progress. It is
promised when `calm`: no crash, no other process, and the failing write is the
write of a body that then did not happen. When the search document fails after
the body was written, the failing entry is not put back; `OutcomeHonest` and
`StaleDocumentsBounded` say what remains true.

### Feedback

The log is a sequence of lines, each the objects written to it; `ended` says
whether the last line has its break. `writeln!` on a bare file appends the object
and the break with a write each (`AppendText`, `AppendNewline`). `Read` takes the
whole log or, when a line is not one object, ends the recording with an error.

## 3. What the runs check

Every run takes at most about two minutes on two cores.

| Run | Question | Properties |
|---|---|---|
| `RuleStore_library` | one process, store kept open, two faults | `TypeOK`, `DerivedAgrees`, `LegalTransitions`, `AtomicCalls` |
| `RuleStore_server` | open, scan, one operation, drop; two faults | `UniqueSlugs`, `LookupTruthful` |
| `RuleStore_shared` | two processes, every interleaving | `DerivedAgrees`, `RecordsStayRecords` |
| `Commands_imports` | commands that write, two faults, with and without a scan | `ImportedPrefix`, `ImportConfined`, `RetryNotRefused`, `TextBeforeFields` |
| `Outputs_commands` | commands that read and generate, an edit, a fault | `ListedAsFiled`, `SearchHonest`, `OutputFaithful`, `ExplainTruthful`, `CheckSound`, `CheckQuiet`, `NothingDroppedSilently`, `CatalogConverges` |
| `SyncTargets_edits` | two edits between and during runs, one crash | `OutputsCurrentUnlessReclaimed`, `RecordsCurrent`, `GeneratedFilesTracked`, `CheckSound`, `OnlyOwnOutputs`, `TypeOK` |
| `SyncTargets_converge` | liveness | `Converges` |
| `TargetLoader_imports` | import graphs of three files and a directory | `LoadedOnce`, `ResultHonest`, `OrderIrrelevant`, `Terminates` |
| `MarkdownImport_documents` | small documents | `BlocksApart`, `TextKept`, `SectionsNested` |
| `ReverseSync_batch` | two faults, one edit by another process | `OutcomeHonest`, `StaleDocumentsBounded`, `AllOrNothing` |
| `Feedback_recorders` | two processes, four events, two faults | `Resynced`, `CountsAPrefix`, `OneLineEach` |
| `Feedback_glued` | violation | `EveryLineAnEvent` |

The properties of the two modules about commands, in words:

- `ListedAsFiled`: list answers with exactly the rules whose manifests satisfy the
  filter; only rules whose row is out of date are excused. `SearchHonest`: search
  passes over a rule that satisfies the filter only for better ones or beyond its
  window of four times the limit.
- `OutputFaithful`: from the moment a command wrote or accepted a generated file
  until the rules change, it holds each rule that some node asks for once, with
  its body of now, in order. `ExplainTruthful`: explain-target shows those rules
  in that order and fails when generating would.
- `CheckSound` and `CheckQuiet`: `store-index --check` passes only a truthful
  catalog, and always passes one that was finished and not outdated by an edit,
  whatever happened to the index meanwhile. `CatalogConverges`: run again and
  again, store-index settles.
- `NothingDroppedSilently`: a rule leaves a generated file because its folder is
  gone, its manifest does not match any more, or it cannot be read and nobody
  knew it; an unreadable rule that was known stops the command instead.
- `ImportedPrefix`, `ImportConfined`, `RetryNotRefused`, `TextBeforeFields`: see
  `Commands` above.

### The violation

**Two feedback events on one line.** See `Feedback`. After it, every recording for
the rule appends its event and then fails to read the log.

### Known and not given a run of their own

- A target that is renamed and keeps its output loses it: the run renders it under
  the new name, then removes "its" stale output on behalf of the old name
  (rendering.rs:361-366), since `output_is_orphaned_generated` does not ask
  whether a configured target writes there. `OutputsCurrentUnlessReclaimed`
  excuses exactly the outputs reclaimed in this way.
- Rendering puts the frontmatter of the first rule before the marker, and the
  marker is looked for at the start of the file (rendering.rs:651, 670): when such
  a target is removed or moved, its output is taken for hand-owned. `RecordsCurrent`
  asks for removal only where the marker is found, and `Converges` runs without
  such renderings, because the refusal to remove one repeats for ever.
- A moved target's leftover is kept when the other target's configured path is
  relative and its file is missing (rendering.rs:419-433), so
  `OutputsCurrentUnlessReclaimed` asks for canonical paths. Two target names can
  share a record after sanitizing.
- The server writes the empty file of a target that matches no rules
  (generate.rs:237); the command line refuses (rendering.rs:148). The server
  finds a target by its name only, the command line also by its output.
- A rejected update leaves the in-memory slug table patched (store.rs:530), which
  only users of the library see. A create that died before its row and is retried,
  or imported over, by a command that does not scan leaves two folders with one
  slug (store.rs:398), as can two processes. `update` on the id of a target record
  turns its row into that of a rule (store.rs:552), which `RecordsStayRecords`
  excludes by `UpdateTypes`.
- A slug that reads like a UUID prefix is looked up as one first (store.rs:354).
- Slugs of imported blocks contain their line, so importing a document again after
  lines were inserted creates new rules and leaves the old ones.
- A heading that is followed by another heading before any text leaves only its
  slug in the sections (import.rs:43), so `TextKept` speaks of chunks that are not
  headings alone.
- Two overlapping recordings of feedback can leave the older counts in the
  manifest until the next recording.
- The tools that create and import take the workspace of their input, those that
  get and list the server's own (server.rs:118-132).

### Bounds and why they are enough

- Two rules and two slugs: a clash needs two owners of one slug and a rename needs
  a free slug. Two processes: each operation's interference is with one other
  operation in progress. Two faults: one that spoils a state and one during the
  repair. `RuleStore_shared` has no crashes; they are in the other two runs.
- `Commands_imports`: one process, three ids, two slugs, two texts, documents of
  one and two blocks, two faults: an import that stops, one that repairs it or
  stops as well, and one after that; outside edits and a lost index are among the
  faults. Two processes at once are in `RuleStore_shared`.
- `Outputs_commands`: five rules, three of them in the main root, one in a root that
  discovery finds and one in a root that somebody registers; a flat target, one with
  nodes below nodes that override states, and one whose two nodes can want the same rule. Two rankings,
  opposite to each other. With five rules and a limit of one, a rule can be beyond
  search's window of four candidates. One edit and one fault on top of commands in
  any number and order: every property relates one file to the rules, so a second edit
  only moves the moment it is judged from.
- Two targets and two outputs: sharing, moving, swapping and taking over an output
  need no more. The first configuration, the first files and what the rules render
  to are arbitrary, so two edits, before or during a run that may crash, reach
  every rename, swap, retake and edit of a synced state. One of the two renderings
  of `SyncTargets_edits` has frontmatter.
- Three files and one directory: cycles of length one to three, diamonds, and a
  directory that contains its importer. Two or three contents for each schema
  position: absent, agreeing, conflicting.
- Documents of four arbitrary lines have every adjacency of the kinds of lines;
  those of five one-line chunks have every sequence of five headings, comments
  and texts, three levels deep.
- Three entries: a file that updates a rule, another, and the first again, so that
  the rollback has to run in reverse. `MaxEdits` is 1 there: one write of another
  process can fall between any two steps.
- Four recordings by two processes: two overlapping, a failing one, and one after.

Symmetry is used where all values of a set are treated alike, and never in a run
with a temporal property other than `LegalTransitions`, a property of single
steps.

### Fairness

`SyncTargets_converge` assumes that a run in progress goes on (sequential code
without waiting) and that sync-targets is run again and again (strong fairness of
starting a writing run: it cannot start while another run is in progress).
Nothing obliges users to edit or runs to crash. `Converges` exempts what the code
refuses: targets without rules, shared outputs, and a hand-owned file where an old
output must be removed. `TargetLoader_imports` assumes that the loader's own steps
go on. `CatalogConverges` assumes that store-index is run again and again, which
its refusal asks for ("regenerate and re-stage"), and that one that is running goes
on; nothing is assumed of other commands. No other run needs fairness.

`CHECK_DEADLOCK` is never switched off: modules of something that ends
(`TargetLoader`, `MarkdownImport`, `Feedback`) say so by a step of their own.
Only the modules whose state is read most loosely have a type invariant among
their runs; those of the others are part of the proofs about them.

## 4. What is proved

The theorems below hold for every value of the constants: any number of
processes, rules, targets, files, documents, recordings and faults. Their
assumptions are the ones on the constants in the modules, which TLC evaluates in
its runs, and those named with a theorem. The ones on the constants say that the
values that stand for "nothing" (and for a torn or unreadable file) are not among
the values they are told from, and that bounds, limits, order keys and counts are
natural numbers; that the rules a user may have are finitely many and differ in
their slugs (`SlugAssumption`); and that the nodes of a target are listed depth
first (`TargetAssumption`): what stands between a node and its parent is below
that parent. Each safety property is proved from an inductive invariant that a leaf
of the proof names; what the invariant adds to the property, and why, is said here.

### RuleStore

- `TypeCorrect`: `Spec => []TypeOK`. What a row or a document is written from is
  the operation in progress, so `TypeInv` adds `OpShape`: an operation that goes on
  to write a folder, row or document holds a manifest, one that writes a body holds
  a body, and only an idle process has no operation.
- `RecordsStay`: `RecordsStayRecords`, assuming that updates are applied to rule
  entries only (`UpdateTypes \subseteq {RuleEntry}`; the code does not check it, the
  callers in the repository keep to it). `RecordsInv` adds that a row of type rule-entry belongs to no
  target record on disk, that an update or create in progress works on no record,
  that a new folder is written for an id nobody else has, and that only a process
  that has the store open has an operation in progress. Without them, the row that
  a create or update writes at its end could meet a record that appeared meanwhile.
- `DerivedStateAgrees`: `DerivedAgrees`, with the assumption of `RecordsStay` and one
  more: the store is closed after each operation (`OneShot`), or no request
  changes slug and state at once. The second is needed: a rejected update leaves
  its new slug in the slug table of the process (store.rs:530), and TLC finds
  `DerivedAgrees` violated when a process that keeps the store open may send such
  a request. `CleanInv` says what is out of line while an operation is between
  two writes, and that nothing else is: `TableOK` has the slug table differ from the
  folders by exactly the slug in hand (create enters it last, delete removes it
  first, update enters the new one first); `Consistent` lets a row or a document differ
  only if the operation in hand is about to write it (`RowDue`, `DocDue`); `HandOK`
  ties what the operation holds to what the folder says; `Solo` has operations
  alone as long as nothing is dirty.
- `TransitionsLegal`: `LegalTransitions`, under the assumptions of
  `DerivedStateAgrees` and from the same invariant: update checks the transition
  against the row it read and writes the manifest later, which is sound because
  `HandOK` keeps row and manifest in one state until then.
- `CallsAtomic`: `Spec => AtomicCalls`, the refinement of `RuleLibrary`, for any
  number of processes and faults, under the assumptions of `DerivedStateAgrees`.
  The invariant is that of `DerivedStateAgrees` with `RequestsShaped`: what a
  request holds besides its body, and that a delete still finds its folder.
  `TableOK` and `IndexAgrees` make the guards of a call, which read the slug table
  and the row, those of the library, which reads the map; `HandOK` makes
  the first write do to the map what the request says (an upsert sets the state
  of a record, which is active already: `RecordsActive`). Each action of the store is one
  step of the library or is not seen (`LibraryCall`, `LibraryStep`, `LibraryFail`,
  `LibraryDistrust`, `LibraryRestore`); that the folder an operation goes on to
  read is gone cannot happen in a trusted store (`FolderKept`).
- `SlugsUnique` and `LookupsTruthful`: `UniqueSlugs` and `LookupTruthful` for
  processes that come one at a time, scan when they open the store and exit after one operation
  (the server), as long as nobody copies a slug from outside. `Served` adds to the
  two: a process that is ready for its operation has every folder in the rows and
  in its table, a create holds a slug that no folder has, so does a rename until it
  has written the manifest, and a scan has all rows before it reads the bodies. Crashes and failed writes are
  allowed at every step; the next process repairs what they left.

### SyncTargets

- `TypeCorrect`, with `Inv`: the snapshots a run took at its start are the
  configuration and records of now (`SnapshotOK`, which edits during a run reset),
  its mode fits its step (`PhaseOK`), and a record is found under the slug of the target it names
  (`RecordsOK`).
- `OutputsOwned`: `OnlyOwnOutputs`, an action property, from `Inv`.
- `CheckTruthful`: `CheckSound`; `CheckInv` adds that the targets a check is through with
  hold what they render to, as long as nobody interferes.
- `OutputsCurrent`: `OutputsCurrentUnlessReclaimed`; `OutInv` says the same of the
  targets a writing run is through with. The removals of stale outputs are what
  could spoil it: the proof needs that a canonical path has one key, so that an
  output some target writes is recognised when a moved target leaves it.
- `RecordsMatchConfiguration`: `RecordsCurrent`, from two invariants. `FiledInv`
  follows each slug through the run (done, still as recorded, or among the stale
  records to delete), `CleanInv` each earlier output (without marker, claimed by a target, or
  still ahead of the run).
- `NoFileLost`: `GeneratedFilesTracked`; `TrackInv` says, in addition, that a
  generated file without a record is one that the run in progress has just written
  or is about to record, and that it deals with a recorded output before it drops the record.

A configuration has finitely many targets (a guard of the edits in
`SyncTargets`); the names it may use may be infinitely many.

### TargetLoader

- `FilesLoadedOnce`: `LoadedOnce`.
- `ResultTrue`: `ResultHonest`. `PathOK` is the invariant of a depth-first search: of what a
  frame was asked for, everything is loaded, ahead of it, or the frame above.
  `GraphOK` has what is loaded closed under imports, free of cycles and reachable
  from the root; `OriginOK` leads every resolved target back to a declaration, so
  that a duplicate name is reported only where two declarations have it.
- `OrderOfFilesIrrelevant`: `OrderIrrelevant`. `TableOK` and `TargetsOK` say that the schema table is what the
  loaded files declare and every target is what the table of *now* makes of it,
  although it was resolved when the table had less in it: later files can only
  repeat what a target used, or the load fails.

What a file leads to is the least set closed under imports (`Reach`), which needs no
recursion and no finiteness.

### ReverseSync

- `ReportTrue`: `OutcomeHonest`. `BodiesOK` and `DocsOK` say how far the command
  and its rollback are: the first `Reached` changes are in the folders, the others
  are as at the start, those of other processes' edits excepted.
- `DocumentsBounded`: `StaleDocumentsBounded`; `LagInv` charges each document that
  lags behind to a fault or an edit, an edit under an update in progress before
  the document lags.
- `Implements`: `Spec => AllOrNothing`, the refinement of `RuleBatch`: the initial
  state maps to an initial state, every step to a step of the batch or a stutter.

### MarkdownImport

- `RangesDisjoint`: `BlocksApart`, and `EveryTextKept`: `TextKept`, for every
  document. `Ranges` has blocks, pending heading and unread lines one behind the
  other; `Covered` has the text of every chunk that was read in a block. They rest
  on facts about chunks: of two, one ends before the other starts, and there is a
  first one as long as any is unread.
- `SectionsOutlined`: `SectionsNested`, for documents whose headings skip no level.
  `SectionInv` has the heading path be that of the headings read so far (`Nested`:
  as long as the path are the levels of the open headings, each title at its level)
  and the pending heading the last heading read. `update_heading_path` keeps it so:
  truncating to one less than the new level closes exactly the headings of that
  level or below, and nothing is skipped by the length of the path, because in an
  outline the open levels are `1..n`.

### Feedback

- `TypeCorrect`: `Spec => []TypeOK`, which is proved and not in a run. A line that
  parses has no object that was cut off, so what was read are events.
- `BeginningCounted`: `CountsAPrefix`; `CountInv` has also what the processes hold between reading
  and counting be events the log begins with, and that stays so while others append.
- `AloneInSync`: `Resynced`; `SyncInv` has a recording that is alone hold the whole
  log and everyone else idle.
- `ApartOneLineEach`: `OneLineEach`; `LinesInv` follows the one recording in
  progress through its two writes.

`FlattenSeq`, which makes one sequence of the lines, is recursive. The induction
theorems of the library take a predicate and cannot be used by the provers at hand;
`SequenceLemmas` argues instead from the least number for which a claim fails
(`Least`), which is a theorem about a set. It shows that the gathering function
exists, is determined, and what it does to a longer sequence.

### Commands

For a process that keeps the store open while its command runs and is alone
(`CommandsAssumptions`); nothing is assumed of faults, of outside edits, of the
documents or of the requests. `CommandsInv` is what all four have in common: every
folder and every operation is a rule's, a command has its argument and the rules
there were at its start, and what the slug table says of a rule is so for a
process about to launch a command (`TableTrue`, `TableFull`).

- `TextFirst`: `TextBeforeFields`, from `UpdateProgress`: in every stage of update
  the rule is the one from before, that with the new text, or that with text and
  fields, and which of them the operation in progress and its step say.
- `ImportsConfined`, `RetriesNotRefused`, `PrefixImported`: `ImportConfined`,
  `RetryNotRefused`, `ImportedPrefix`, from `ImportProgress`. `Confined` follows
  each rule from the start; the blocks behind the import are `Written`;
  `ImportRunning` ties the block at hand to the operation (`ImportText`,
  `ImportUpdate`, `ImportCreate`, `ImportDone`). The table stays true through an
  import, and misses at most the rule that is being created when the import began
  with the library in order (`TableComplete`): this is why no block is written
  twice and no later block takes the rule of an earlier one.

### Outputs

- `ListTruthful`: `ListedAsFiled`, from `IndexInv`: every row is of a rule in a
  registered root (`RowsRooted`) and tells the state of its manifest unless it is
  recorded as out of date (`RowsTrue`). A command's bootstrap then leaves rows for
  exactly the rules it can reach. That a list has these rules in order is a fact
  about `InOrder`: in a finite set with a strict total order, for each number below
  the size there is one element that so many others precede.
- `SearchTruthful`: `SearchHonest`. Selecting from a sequence is a list of places
  in ascending order, so an answer is full or has all candidates that match.
- `CheckTruthful` and `NoFalseAlarm`: `CheckSound` and `CheckQuiet`. The three files
  are functions of the rules listed; the first needs only that the files have
  different types from a torn file, the second `CatalogInv`: while nothing changed
  since store-index began, the files written so far are as due and those still to
  be written as well (`WritingDue`).
- `FilesFaithful`: `OutputFaithful`, from `OutputInv`: what a file was made from, if
  nothing has overtaken it, is what it is faithful to (`MadeFaithfully`). "Once" holds
  because generating fails on a rule of two nodes. The inherited filter is
  a recursive function over the nodes, while the property says where a field's value
  comes from: the nearest node above that sets it. `Nearest` and the lemmas about
  descending functions bring the two together.
- `DropsExplained`: `NothingDroppedSilently`, of steps, from `OutputInv` before the step
  and `IndexInv`.
- `ExplainsTruthfully`: `ExplainTruthful`. Explaining gathers a node's rules and those
  of its children, collecting goes through the nodes in their order. The lemmas show that
  what is below a node is the stretch of the sequence up to the first node that is
  not below it (`Past`), that the stretches of its children abut (`KidsAbut`), and
  that flattening abutting stretches is flattening the whole (`PiecesMeet`). This is
  where depth-first order is needed.

### Only model-checked

- Liveness: `Converges`, `Terminates` and `CatalogConverges` depend on fairness,
  which the prover does not handle.
- Commands of several processes at once: what the store promises them is in the run
  `RuleStore_shared`; `Commands` is one process in its run and in its theorems.

## 5. What is not modelled

See "components" in `PROJECT.json`. Left out for good: argument parsing and output
formats (declarative), the typed accessors of manifests, markdown rendering (what
it yields is data in `SyncTargets` and `Outputs`), documents of the spec store
(their writer is an external crate), rule moves (`move_domain.rs` tells an external
crate which files and references belong to a rule; the journal, its order of
writes and its recovery are that crate's), the ranking of search, missing-rule
(opens a ticket in another crate), benchmarks.

## 6. The plan

1. Done: `RuleStore` with its proofs, `SyncTargets`, `TargetLoader`,
   `MarkdownImport`, `ReverseSync` over `RuleBatch`, `Feedback`.
2. Done: `RuleQuery` and `Outputs` (target queries, generate-file,
   generate-target, store-index, roots and scans), `Commands` (import-file,
   create, delete, update over `RuleStore`).
3. Done: theorems about every module; each safety property and action property of
   a passing run is one.
4. Done: `RuleLibrary`, the rule store as one map with atomic calls, which
   `RuleStore` implements.

## 7. Running the checks

In this directory, `tlc -workers 2 -config MCRuleStore_library.cfg MCRuleStore`
and so on for each configuration; `tlapm RuleStoreProofs.tla` and so on for the
proofs, which take from under a minute to a quarter of an hour for a module.
