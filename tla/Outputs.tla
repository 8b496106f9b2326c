------------------------------- MODULE Outputs -------------------------------
(***************************************************************************)
(* The commands that read the store and write files made from it: list,    *)
(* search, explain-target, generate-file, generate-target and store-index, *)
(* from the command line (src/cli) and from the MCP server (src/mcp).      *)
(*                                                                         *)
(* Every such command opens the store, registers the scan roots found in   *)
(* the workspace and scans, so that it sees the folders of this moment;    *)
(* users edit the folders, the generated files and the index behind its    *)
(* back, and it can die half way.  A command is one action, except         *)
(* store-index, which writes its three files one after the other.          *)
(***************************************************************************)
EXTENDS RuleQuery

CONSTANTS
  Roots,       \* directories of rule folders
  MainRoot,    \* <workspace>/.rule/rules, registered by every open
  Nested,      \* the roots workspace discovery finds, once they hold folders
  RootOf,      \* [Ids -> Roots]
  GroupOf,     \* the first two segments of a rule's slug
  SummaryOf,   \* the first text block of a body, cut to a length
  Starts,      \* the rule folders there may be at first
  Rankings,    \* orders search ranks the rules in
  Manifests,   \* what users write into a rule folder
  Broken,      \* a folder whose manifest cannot be parsed
  Torn,        \* a file whose write was cut short
  Targets,     \* the targets of the configuration
  Filters,     \* the filters callers list and search with
  Limits,      \* how many results a search may return
  Requests,    \* generate-file requests: targets without nodes
  Outs,        \* output paths
  MaxEdits,    \* bound: changes to the rules
  MaxFaults    \* bound: crashes, torn writes, files and indexes lost

ASSUME RootAssumption ==
  /\ RootOf \in [Ids -> Roots] /\ MainRoot \in Roots /\ Nested \subseteq Roots
ASSUME TargetAssumption ==
  \A t \in Targets \cup Requests :
    /\ t.output \in Outs
    /\ t.nodes \in Seq(ToSet(t.nodes))
    /\ \A n \in 1..Len(t.nodes) : t.nodes[n].parent \in 0..(n - 1)
    \* depth first: what comes between a node and its parent is below the parent
    /\ \A n, m \in 1..Len(t.nodes) :
         t.nodes[m].parent < n /\ n < m => t.nodes[m].parent <= t.nodes[n].parent
    /\ t \in Requests => t.nodes = <<>>
ASSUME StartAssumption ==
  /\ Starts \subseteq [Ids -> Manifests \cup {Absent}]
  /\ Rankings \subseteq SetToSeqs(Ids) /\ Limits \subseteq Nat
ASSUME BoundAssumption == MaxEdits \in Nat /\ MaxFaults \in Nat

Files == <<"README.md", "index.toon", "rules-catalog.md">>

States == {"draft", "reviewed"}
Transitions == {<<"draft", "reviewed">>, <<"reviewed", "draft">>}

ASSUME ManifestAssumption ==
  /\ {Absent, Broken} \cap Manifests = {} /\ Absent # Broken /\ Absent \notin States
  /\ \A m \in Manifests :
       /\ m.state \in States
       /\ {m.order, m.helpful, m.mixed, m.unhelpful} \subseteq Nat

VARIABLES
  disk,     \* [Ids -> manifest, Broken or Absent]
  row,      \* [Ids -> the state in the index row, or Absent]
  roots,    \* the registered scan roots
  output,   \* [Outs -> rendered rules, Torn or Absent]
  catalog,  \* [file -> its contents, Torn or Absent]
  writing,  \* what a running store-index has still to write
  stale,    \* history: rules changed since their row was written
  made,     \* history: [Outs -> what it was last made from, if still true]
  fresh,    \* history: nothing changed since the last store-index began
  watched,  \* the files this behaviour follows
  edits, faults

vars == <<disk, row, roots, output, catalog, writing, stale, made, fresh,
          watched, edits, faults>>

bounds == <<watched, edits, faults>>

-----------------------------------------------------------------------------
OnDisk   == {i \in Ids : disk[i] # Absent}
Readable == {i \in OnDisk : disk[i] # Broken}

\* What the files were made from has changed.
Changed(really) ==
  /\ made' = IF really THEN [o \in Outs |-> Absent] ELSE made
  /\ fresh' = (fresh /\ ~really)

Init ==
  /\ disk \in Starts
  /\ row = [i \in Ids |-> Absent]
  /\ roots = {MainRoot}
  /\ output = [o \in Outs |-> Absent]
  /\ catalog = [f \in ToSet(Files) |-> Absent]
  /\ writing = <<>>
  /\ stale = {}
  /\ made = [o \in Outs |-> Absent]
  /\ fresh = FALSE
  /\ watched \in Outs \cup {"catalog"}
  /\ edits = 0 /\ faults = 0

(***************************************************************************)
(* Opening the store.  Rows without a folder are pruned; a row whose       *)
(* manifest cannot be read fails the open.                                 *)
(***************************************************************************)
\* Mutant: a manifest that cannot be read counts as missing.
PrunedUnreadable ==
  [i \in Ids |-> IF disk[i] \in {Absent, Broken} THEN Absent ELSE row[i]]

Pruned == [i \in Ids |-> IF disk[i] = Absent THEN Absent ELSE row[i]]

Opens == \A i \in Ids : disk[i] = Broken => Pruned[i] = Absent

Discovered == {RootOf[i] : i \in OnDisk} \cap Nested

\* scan(reindex) over the registered roots "known".
Scanned(reindex, known) ==
  [i \in Ids |->
     IF i \in Readable /\ RootOf[i] \in known /\ (reindex \/ Pruned[i] = Absent)
     THEN disk[i].state ELSE Pruned[i]]

Outdated(reindex) == IF reindex THEN {} ELSE {i \in stale : Pruned[i] # Absent}

\* What a command finds in the index after its bootstrap: the command line
\* rescans everything when a root is new, the server adds what is missing.
CliReindex == ~(Discovered \subseteq roots)
CliRows == Scanned(CliReindex, roots \cup Discovered)
McpRows == Scanned(FALSE, roots \cup Discovered)

\* Open, discover_child_scan_roots, scan.
Bootstrap(reindex) ==
  /\ Opens
  /\ roots' = roots \cup Discovered
  /\ row' = Scanned(reindex, roots')
  /\ stale' = Outdated(reindex)
  /\ UNCHANGED disk

BootstrapRuleStore == Bootstrap(CliReindex)
WithStore == Bootstrap(FALSE)

\* list, search, explain-target, a preview, a check, a refused command.
Read ==
  /\ BootstrapRuleStore \/ WithStore
  /\ UNCHANGED <<output, catalog, writing, made, fresh, bounds>>

\* The prune of a failing open stays.
OpenRefused ==
  /\ ~Opens
  /\ row' = Pruned
  /\ stale' = Outdated(FALSE)
  /\ UNCHANGED <<disk, roots, output, catalog, writing, made, fresh, bounds>>

\* The process dies between registering a root and scanning.
BootstrapDies ==
  /\ Opens
  /\ faults < MaxFaults
  /\ \E found \in SUBSET Discovered : roots' = roots \cup found
  /\ row' = Pruned
  /\ stale' = Outdated(FALSE)
  /\ faults' = faults + 1
  /\ UNCHANGED <<disk, output, catalog, writing, made, fresh, watched, edits>>

(***************************************************************************)
(* rule scan, rule add-root and their tools                                *)
(***************************************************************************)
\* The command line does not bootstrap before a scan, it is one.
ScanCommand(force) ==
  /\ Bootstrap(force \/ CliReindex)
  /\ UNCHANGED <<output, catalog, writing, made, fresh, bounds>>

RuleScanTool(force) ==
  /\ Bootstrap(force)
  /\ UNCHANGED <<output, catalog, writing, made, fresh, bounds>>

\* Registered, not scanned.
AddRootCommand(r) ==
  /\ Opens
  /\ roots' = roots \cup {r}
  /\ row' = Pruned
  /\ stale' = Outdated(FALSE)
  /\ Changed(r \notin roots)
  /\ UNCHANGED <<disk, output, catalog, writing, bounds>>

RuleAddRootTool(r) ==
  /\ Opens
  /\ roots' = roots \cup Discovered \cup {r}
  /\ row' = McpRows
  /\ stale' = Outdated(FALSE)
  /\ Changed(r \notin roots)
  /\ UNCHANGED <<disk, output, catalog, writing, bounds>>

(***************************************************************************)
(* Generated files.  What is written is each rule's id and body.           *)
(***************************************************************************)
Rendered(ids) == [k \in DOMAIN ids |-> <<ids[k], disk[ids[k]].body>>]

AsksState(t) ==
  \/ t.filter.state # Unset
  \/ \E n \in 1..Len(t.nodes) : t.nodes[n].filter.state # Unset

\* The server writes the file each time; the write may be cut.
McpWriteGeneratedOutput(t, ids) ==
  \/ /\ output' = [output EXCEPT ![t.output] = Rendered(ids)]
     /\ made' = [made EXCEPT ![t.output] =
                   IF stale' = {} \/ ~AsksState(t) THEN t ELSE Absent]
     /\ UNCHANGED faults
  \/ /\ faults < MaxFaults
     /\ output' = [output EXCEPT ![t.output] = Torn]
     /\ made' = [made EXCEPT ![t.output] = Absent]
     /\ faults' = faults + 1

\* The command line leaves a file alone that is the same already.
WriteGeneratedOutput(t, ids) ==
  /\ McpWriteGeneratedOutput(t, ids)
  /\ output[t.output] = Rendered(ids) => output' = output

MatchesSome(ids) == ids # <<>>

\* A target is chosen by its name, else by an output path nobody else has.
BySelector(s) ==
  IF \E t \in Targets : t.name = s THEN {t \in Targets : t.name = s}
  ELSE {t \in Targets : t.output = s}

Selectors == {t.name : t \in Targets} \cup Outs

GenerateTargetCommand(s) ==
  \E t \in BySelector(s) :
    /\ watched = t.output
    /\ Cardinality(BySelector(s)) = 1
    /\ BootstrapRuleStore
    /\ LET ids == Collected(disk, CliRows, t)
       IN  /\ ~DuplicateRule(ids)
           /\ MatchesSome(ids)
           /\ WriteGeneratedOutput(t, ids)
    /\ UNCHANGED <<catalog, writing, fresh, watched, edits>>

\* By name only, and a target that matches nothing is written as well.
RuleGenerateTargetTool(t) ==
  /\ watched = t.output
  /\ WithStore
  /\ LET ids == Collected(disk, McpRows, t)
     IN  /\ ~DuplicateRule(ids)
         /\ McpWriteGeneratedOutput(t, ids)
  /\ UNCHANGED <<catalog, writing, fresh, watched, edits>>

GenerateFileCommand(t) ==
  /\ watched = t.output
  /\ BootstrapRuleStore
  /\ WriteGeneratedOutput(t, List(disk, CliRows, ToRuleFilter(t.filter)))
  /\ UNCHANGED <<catalog, writing, fresh, watched, edits>>

RuleGenerateFileTool(t) ==
  /\ watched = t.output
  /\ WithStore
  /\ McpWriteGeneratedOutput(t, List(disk, McpRows, ToRuleFilter(t.filter)))
  /\ UNCHANGED <<catalog, writing, fresh, watched, edits>>

\* generate-target --check.
OutputMatches(t) ==
  LET ids == Collected(disk, CliRows, t)
  IN  ~DuplicateRule(ids) /\ output[t.output] = Rendered(ids)

(***************************************************************************)
(* store-index.  The three files are computed from one listing; only the   *)
(* README shows sections and feedback counts.                              *)
(***************************************************************************)
IsLowRated(m) == m.unhelpful > 0 /\ m.unhelpful >= m.helpful

MakeEntry(i) ==
  [summary |-> SummaryOf[disk[i].body], state |-> disk[i].state, group |-> GroupOf[i],
   low |-> IsLowRated(disk[i])]

DisplayExtra(i) ==
  [section |-> disk[i].section,
   counts |-> <<disk[i].helpful, disk[i].mixed, disk[i].unhelpful>>]

Sidecar(ids) == [i \in ids |-> MakeEntry(i)]

CatalogMarkdown(ids) ==
  [i \in ids |-> [entry |-> MakeEntry(i), extra |-> DisplayExtra(i)]]

AgentHook(ids) ==
  [total |-> Cardinality(ids), groups |-> {GroupOf[i] : i \in ids},
   low |-> Cardinality({i \in ids : IsLowRated(disk[i])})]

\* What the three files may hold; a torn file is none of it.
Entry == [summary : {SummaryOf[m.body] : m \in Manifests}, state : States,
          group : {GroupOf[i] : i \in Ids}, low : BOOLEAN]
Extra == [section : {m.section : m \in Manifests},
          counts : {<<m.helpful, m.mixed, m.unhelpful>> : m \in Manifests}]
Hook == [total : Nat, groups : SUBSET {GroupOf[i] : i \in Ids}, low : Nat]

ASSUME ArtifactAssumption ==
  \A none \in {Absent, Torn} :
    /\ none \notin Hook
    /\ \A ids \in SUBSET Ids :
         none \notin [ids -> Entry] /\ none \notin [ids -> [entry : Entry, extra : Extra]]

\* generate_rule_catalog over list with an empty filter.
Artifacts(rows) ==
  LET ids == {i \in Ids : rows[i] # Absent}
  IN  <<CatalogMarkdown(ids), Sidecar(ids), AgentHook(ids)>>

\* Mutant: the machine-readable file is not looked at.
ArtifactsUnread(k) == k # 2

Compared(k) == k \in DOMAIN Files

\* Mutant: the rules are listed before the store is scanned.
CheckUnscanned ==
  Opens /\ \A k \in DOMAIN Files : catalog[Files[k]] = Artifacts(Pruned)[k]

\* store-index --check.
CheckPasses ==
  /\ Opens
  /\ \A k \in {n \in DOMAIN Files : Compared(n)} :
       catalog[Files[k]] = Artifacts(CliRows)[k]

StoreIndexCommand ==
  /\ watched = "catalog"
  /\ writing = <<>>
  /\ BootstrapRuleStore
  /\ writing' = [k \in DOMAIN Files |-> <<Files[k], Artifacts(CliRows)[k]>>]
  /\ fresh' = TRUE
  /\ UNCHANGED <<output, catalog, made, bounds>>

\* Mutant: the last file is not written.
WriteFirstTwo ==
  /\ writing # <<>>
  /\ catalog' = [catalog EXCEPT ![writing[1][1]] = writing[1][2]]
  /\ writing' = IF Len(writing) = 2 THEN <<>> ELSE Tail(writing)
  /\ UNCHANGED <<disk, row, roots, stale, output, made, fresh, bounds>>

WriteCatalogFile ==
  /\ writing # <<>>
  /\ catalog' = [catalog EXCEPT ![writing[1][1]] = writing[1][2]]
  /\ writing' = Tail(writing)
  /\ UNCHANGED <<disk, row, roots, stale, output, made, fresh, bounds>>

\* A crash or a failed write ends the command.
StoreIndexStops ==
  /\ writing # <<>>
  /\ faults < MaxFaults
  /\ \E left \in {catalog[writing[1][1]], Torn} :
       catalog' = [catalog EXCEPT ![writing[1][1]] = left]
  /\ writing' = <<>>
  /\ fresh' = FALSE
  /\ faults' = faults + 1
  /\ UNCHANGED <<disk, row, roots, stale, output, made, watched, edits>>

(***************************************************************************)
(* What happens to the rules meanwhile.                                    *)
(***************************************************************************)
\* create, update or feedback through the store.  RuleStore has its steps;
\* here it writes the folder and its row, or dies with the folder written.
Save(i, m) ==
  /\ Opens
  /\ edits < MaxEdits
  /\ IF disk[i] = Absent THEN RootOf[i] = MainRoot
     ELSE /\ Pruned[i] # Absent
          /\ m.state # disk[i].state => <<row[i], m.state>> \in Transitions
  /\ disk' = [disk EXCEPT ![i] = m]
  /\ \/ /\ row' = [Pruned EXCEPT ![i] = m.state]
        /\ stale' = Outdated(FALSE) \ {i}
        /\ UNCHANGED faults
     \/ /\ faults < MaxFaults
        /\ row' = Pruned
        /\ stale' = Outdated(FALSE) \cup ({i} \cap OnDisk)
        /\ faults' = faults + 1
  /\ edits' = edits + 1
  /\ Changed(TRUE)
  /\ UNCHANGED <<roots, output, catalog, writing, watched>>

\* A checkout, a merge or an editor changes a folder, or leaves it broken.
OutsideEdit(i, m) ==
  /\ edits < MaxEdits
  /\ m # disk[i]
  /\ disk' = [disk EXCEPT ![i] = m]
  /\ stale' = IF row[i] = Absent THEN stale ELSE stale \cup {i}
  /\ edits' = edits + 1
  /\ Changed(TRUE)
  /\ UNCHANGED <<row, roots, output, catalog, writing, watched, faults>>

\* A generated file is removed or overwritten by somebody else.
OutsideFile ==
  /\ faults < MaxFaults
  /\ \/ /\ \E c \in {Absent, Torn}, o \in Outs \cap {watched} :
             /\ output' = [output EXCEPT ![o] = c]
             /\ made' = [made EXCEPT ![o] = Absent]
        /\ UNCHANGED <<catalog, fresh>>
     \/ /\ watched = "catalog"
        /\ \E f \in ToSet(Files), c \in {Absent, Torn} :
             catalog' = [catalog EXCEPT ![f] = c]
        /\ fresh' = FALSE
        /\ UNCHANGED <<output, made>>
  /\ faults' = faults + 1
  /\ UNCHANGED <<disk, row, roots, stale, writing, watched, edits>>

\* entities.db is deleted; the registered roots may have been in it.
IndexLost ==
  /\ faults < MaxFaults
  /\ row' = [i \in Ids |-> Absent]
  /\ stale' = {}
  /\ roots' \in {roots, {MainRoot}}
  /\ faults' = faults + 1
  /\ Changed(roots' # roots)
  /\ UNCHANGED <<disk, output, catalog, writing, watched, edits>>

Commands ==
  \/ Read
  \/ OpenRefused
  \/ \E force \in BOOLEAN : ScanCommand(force) \/ RuleScanTool(force)
  \/ \E r \in Roots : AddRootCommand(r) \/ RuleAddRootTool(r)
  \/ \E s \in Selectors : GenerateTargetCommand(s)
  \/ \E t \in Targets : RuleGenerateTargetTool(t)
  \/ \E t \in Requests : GenerateFileCommand(t) \/ RuleGenerateFileTool(t)
  \/ StoreIndexCommand
  \/ WriteCatalogFile

World ==
  \/ \E i \in Ids : \E m \in Manifests : Save(i, m)
  \/ \E i \in Ids : \E m \in Manifests \cup {Absent, Broken} : OutsideEdit(i, m)
  \/ BootstrapDies
  \/ StoreIndexStops
  \/ OutsideFile
  \/ IndexLost

Next == Commands \/ World

\* store-index is run again and again, as its refusal of a stale catalog asks
\* for ("regenerate and re-stage"), and one that is running goes on.
Spec == /\ Init /\ [][Next]_vars
        /\ WF_vars(StoreIndexCommand) /\ WF_vars(WriteCatalogFile)

-----------------------------------------------------------------------------
\* The readable rules in the roots a command knows once it has looked.
Reachable == {i \in Readable : RootOf[i] \in roots \cup Discovered}

\* list, from the command line or the server, answers with exactly the rules
\* whose manifests satisfy the filter, in roots old or just found; rules
\* whose row is out of date are excused, and only those.
ListedAsFiled ==
  Opens =>
    \A f \in Filters, reindex \in {CliReindex, FALSE} :
      LET rows == Scanned(reindex, roots \cup Discovered)
          asked == {i \in Reachable : /\ Matches(f, i, disk[i])
                                     /\ MatchesField(f.state, disk[i].state)}
      IN  \A i \in Ids \ Outdated(reindex) :
            i \in ToSet(List(disk, rows, f)) <=> i \in asked

\* search returns the best-ranked rules that satisfy the filter, states
\* apart, and passes over such a rule only for better ones or beyond the
\* window of candidates, four times the limit.
SearchHonest ==
  Opens =>
    \A f \in Filters, ranked \in Rankings, limit \in Limits :
      LET found == Search(disk, CliRows, ranked, f, limit)
          right == {i \in Reachable : Matches(f, i, disk[i])}
      IN  /\ ToSet(found) \subseteq right
          /\ Len(found) <= limit
          /\ \A k \in DOMAIN ranked :
               ranked[k] \in right \ ToSet(found) =>
                 \/ k > 4 * limit
                 \/ /\ Len(found) = limit
                    /\ \A j \in DOMAIN found : \E n \in 1..(k - 1) : found[j] = ranked[n]

\* What a node asks of field k: the value set nearest on its way to the root.
Wanted(t, n, k) ==
  LET nodes == OrderedNodes(t)
      above[m \in 0..Len(nodes)] == IF m = 0 THEN {0} ELSE {m} \cup above[nodes[m].parent]
      Value(m) == IF m = 0 THEN t.filter[k] ELSE nodes[m].filter[k]
      setters == {m \in above[n] : Value(m) # Unset}
  IN  IF setters = {} THEN Unset ELSE Value(CHOOSE m \in setters : \A j \in setters : j <= m)

Homes(t, i) ==
  {n \in 1..Len(OrderedNodes(t)) :
     LET f == ToRuleFilter([k \in TargetFields |-> Wanted(t, n, k)])
     IN  Matches(f, i, disk[i]) /\ MatchesField(f.state, disk[i].state)}

\* The text of target t: each rule some node asks for once, with its body of
\* now, node after node and by order key and slug within a node.
Faithful(t, text) ==
  /\ {text[k][1] : k \in DOMAIN text} = {i \in Reachable : Homes(t, i) # {}}
  /\ \A k \in DOMAIN text : text[k][2] = disk[text[k][1]].body
  /\ \A k, m \in DOMAIN text : k < m =>
       /\ text[k][1] # text[m][1]
       /\ \E a \in Homes(t, text[k][1]), b \in Homes(t, text[m][1]) :
            a < b \/ (a = b /\ Before(disk, text[k][1], text[m][1]))

\* A generated file is faithful to its target from the moment a command
\* wrote it, or a check accepted it, until the rules change.
OutputFaithful ==
  /\ \A o \in Outs : made[o] # Absent => Faithful(made[o], output[o])
  /\ \A t \in Targets :
       Opens /\ Outdated(CliReindex) = {} /\ OutputMatches(t)
         => Faithful(t, output[t.output])

\* explain-target shows the very rules generate-target would write, in
\* their order, and fails on a rule of two nodes as it does.
ExplainTruthful ==
  Opens => \A t \in Targets :
    LET rules == NodeRules(disk, CliRows, t)
        written == Collected(disk, CliRows, t)
    IN  /\ Explained(t, rules) = written
        /\ DuplicateRule(written)
             <=> \E n, m \in DOMAIN rules :
                   n < m /\ ToSet(rules[n]) \cap ToSet(rules[m]) # {}

\* What a reader of the three catalog files is told is so.
CatalogTruthful ==
  LET readme == catalog["README.md"]
      sidecar == catalog["index.toon"]
      hook == catalog["rules-catalog.md"]
  IN  /\ {readme, sidecar, hook} \cap {Absent, Torn} = {}
      /\ DOMAIN readme = Reachable /\ DOMAIN sidecar = Reachable
      /\ \A i \in Reachable :
           /\ sidecar[i].summary = SummaryOf[disk[i].body] /\ sidecar[i].state = disk[i].state
           /\ readme[i].entry = sidecar[i]
           /\ readme[i].extra.section = disk[i].section
           /\ readme[i].extra.counts = <<disk[i].helpful, disk[i].mixed, disk[i].unhelpful>>
      /\ \A i \in Reachable : sidecar[i].low => LowFeedback(disk[i])
      /\ hook.total = Cardinality(Reachable)
      /\ hook.low = Cardinality({i \in DOMAIN sidecar : sidecar[i].low})
      /\ hook.groups = {sidecar[i].group : i \in DOMAIN sidecar}

\* store-index --check passes only a catalog whose three files all tell what
\* the rule folders say, whatever runs died half way between them
\* (args.rs:339: exit non-zero on drift), and whose rules marked as low-rated
\* are among those list finds when asked for them: the two tests differ.
CheckSound == CheckPasses => CatalogTruthful

\* It raises no false alarm: after a store-index that finished it passes
\* until a rule changes, rescans and lost indexes in between or not
\* (store_index.rs:12-19: byte-stable when the rule data is unchanged).
CheckQuiet == fresh /\ writing = <<>> /\ Opens => CheckPasses

\* A rule leaves a generated file only for a reason one can see: its folder
\* is gone, its manifest no longer matches, or its manifest cannot be read
\* and no row is left of it.  An unreadable rule with a row stops the command.
NothingDroppedSilently ==
  [][ \A o \in Outs :
        made'[o] # Absent /\ output[o] \notin {Absent, Torn} =>
          \A k \in DOMAIN output[o] :
            LET i == output[o][k][1]
            IN  \/ \E j \in DOMAIN output'[o] : output'[o][j][1] = i
                \/ disk[i] = Absent
                \/ disk[i] = Broken /\ row[i] = Absent
                \/ RootOf[i] \notin roots'
                \/ i \in Readable /\ Homes(made'[o], i) = {} ]_vars

\* Whatever ran or died before, the catalog comes to be accepted and stays
\* so once the edits end, unless an unreadable rule keeps the store shut.
CatalogConverges == watched = "catalog" => <>[](CheckPasses \/ ~Opens)
=============================================================================
