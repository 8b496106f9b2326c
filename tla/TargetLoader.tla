---------------------------- MODULE TargetLoader ----------------------------
(***************************************************************************)
(* load_render_target_config: reads a configuration file, or every file of *)
(* a directory, and whatever those import, depth first.  A file that was   *)
(* loaded is skipped, a file that is being loaded is an import cycle, and  *)
(* one table of schemas is shared by all files: a file registers its       *)
(* schemas after its imports and resolves its targets against the table.   *)
(*                                                                         *)
(* The call stack of the loader is the variable "stack"; its bottom frame  *)
(* stands for load_render_target_config itself.  Files are canonical: two  *)
(* paths of one file are the same file here.                               *)
(***************************************************************************)
EXTENDS Naturals, FiniteSets, Sequences, SequencesExt

CONSTANTS
  Files,        \* canonical paths of configuration files
  Dirs,         \* directories
  Names,        \* target names
  SchemaNames,
  Blocks,       \* names of nodes, some of them required by schemas
  None,         \* no schema, no target kind, no file
  Unreadable,   \* a file that is missing or does not parse
  Contents,     \* [Files -> the contents a file may have]
  Listings,     \* [Dirs -> the sorted listings a directory may have]
  Roots         \* the paths the loader is called with

TargetKind == {"root", "child"}

Schema  == [name : SchemaNames, nodes : Seq(Blocks),
            required : [TargetKind -> SUBSET Blocks]]
Target  == [name : Names, schema : SchemaNames \cup {None},
            kind : TargetKind \cup {None}, mode : {"replace", "append"},
            nodes : Seq(Blocks)]
Content == [imports : Seq(Files \cup Dirs), schemas : Seq(Schema),
            targets : Seq(Target)]

ASSUME PathAssumption ==
  /\ IsFiniteSet(Files) /\ Files \cap Dirs = {} /\ None \notin Files
  /\ Roots \subseteq Files \cup Dirs
ASSUME ContentAssumption ==
  /\ DOMAIN Contents = Files
  /\ \A f \in Files : Contents[f] \subseteq Content \cup {Unreadable}
  /\ DOMAIN Listings = Dirs
  /\ \A d \in Dirs : Listings[d] \subseteq Seq(Files)
  /\ Unreadable \notin Content /\ None \notin Schema
  /\ None \notin SchemaNames /\ None \notin TargetKind

VARIABLES
  content,   \* [Files -> Content \cup {Unreadable}]: never changes
  listing,   \* [Dirs -> Seq(Files)]: never changes
  root,      \* the path asked for: never changes
  stack,     \* the frames of the files being loaded, the innermost last
  visited,   \* the files loaded
  schemas,   \* [SchemaNames -> Schema, or None]: the shared table
  loaded,    \* the files loaded, in the order they were
  targets,   \* the targets resolved so far, in order
  result     \* "loading", "ok" or the error

vars == <<content, listing, root, stack, visited, schemas, loaded, targets, result>>
given == <<content, listing, root>>

-----------------------------------------------------------------------------
Frame == [file : Files \cup {None}, todo : Seq(Files \cup Dirs)]

Resolved == [name : Names, nodes : Seq(Blocks)]

Results == {"loading", "ok", "unreadable", "cycle", "schema", "target", "name"}

Top == Last(stack)

\* The paths of ctx.visiting.
Visiting == {stack[i].file : i \in DOMAIN stack} \ {None}

Running == result = "loading"

Stop(how) ==
  /\ result' = how
  /\ UNCHANGED <<given, stack, visited, schemas, loaded, targets>>

\* The top frame goes on with the paths in "todo".
Todo(todo) == [stack EXCEPT ![Len(stack)].todo = todo]

Init ==
  /\ content \in {c \in [Files -> UNION {Contents[f] : f \in Files}] :
                    \A f \in Files : c[f] \in Contents[f]}
  /\ listing \in {l \in [Dirs -> UNION {Listings[d] : d \in Dirs}] :
                    \A d \in Dirs : l[d] \in Listings[d]}
  /\ root \in Roots
  /\ stack = << [file |-> None, todo |-> <<root>>] >>
  /\ visited = {}
  /\ schemas = [n \in SchemaNames |-> None]
  /\ loaded = <<>>
  /\ targets = <<>>
  /\ result = "loading"

NextPath == Head(Top.todo)

HasImport == Running /\ Top.todo # <<>>

\* load_import_targets: a directory stands for the files it lists.
ImportDirectory ==
  /\ HasImport /\ NextPath \in Dirs
  /\ stack' = Todo(listing[NextPath] \o Tail(Top.todo))
  /\ UNCHANGED <<given, visited, schemas, loaded, targets, result>>

\* Mutant: a loaded file is loaded again.
NeverSkipped(f) == FALSE

\* Mutant: a file counts as loaded as soon as it is entered.
EnteredBefore(f) == f \in visited \cup Visiting

AlreadyLoaded(f) == f \in visited

\* Mutant: the path that is skipped stays.
SkipKeepingPath ==
  /\ HasImport /\ NextPath \in Files /\ AlreadyLoaded(NextPath)
  /\ stack' = Todo(Top.todo)
  /\ UNCHANGED <<given, visited, schemas, loaded, targets, result>>

\* A file that was loaded by way of another import is skipped.
SkipLoaded ==
  /\ HasImport /\ NextPath \in Files /\ AlreadyLoaded(NextPath)
  /\ stack' = Todo(Tail(Top.todo))
  /\ UNCHANGED <<given, visited, schemas, loaded, targets, result>>

BeingLoaded(f) == f \in Visiting

ReportCycle ==
  /\ HasImport /\ NextPath \in Files
  /\ ~AlreadyLoaded(NextPath) /\ BeingLoaded(NextPath)
  /\ Stop("cycle")

\* The file is parsed before its imports are followed.
ReportUnreadable ==
  /\ HasImport /\ NextPath \in Files
  /\ ~AlreadyLoaded(NextPath) /\ ~BeingLoaded(NextPath)
  /\ content[NextPath] = Unreadable
  /\ Stop("unreadable")

EnterFile ==
  /\ HasImport /\ NextPath \in Files
  /\ ~AlreadyLoaded(NextPath) /\ ~BeingLoaded(NextPath)
  /\ content[NextPath] # Unreadable
  /\ stack' = Append(Todo(Tail(Top.todo)),
                     [file |-> NextPath, todo |-> content[NextPath].imports])
  /\ UNCHANGED <<given, visited, schemas, loaded, targets, result>>

(***************************************************************************)
(* The end of a file: its schemas enter the table, its targets are         *)
(* resolved.                                                               *)
(***************************************************************************)
FileDone == Running /\ Top.todo = <<>> /\ Top.file # None

Declared(f) == Range(content[f].schemas)

\* Mutant: a schema that is declared twice keeps its first definition.
NeverConflicts(declared) == FALSE

\* insert_schema: the same definition twice is no conflict.
Conflicts(declared) ==
  \E s \in declared : \E d \in declared \cup {schemas[s.name]} :
    d # None /\ d.name = s.name /\ d # s

Registered(declared) ==
  [n \in SchemaNames |->
     IF schemas[n] = None /\ \E s \in declared : s.name = n
     THEN CHOOSE s \in declared : s.name = n
     ELSE schemas[n]]

\* resolve_target_nodes
NodesOf(t, table) ==
  IF t.schema = None THEN t.nodes
  ELSE IF t.nodes = <<>> THEN table[t.schema].nodes
  ELSE IF t.mode = "append" THEN table[t.schema].nodes \o t.nodes
  ELSE t.nodes

\* The schema is known and the blocks it requires are there.
Resolvable(t, table) ==
  t.schema # None =>
    /\ table[t.schema] # None
    /\ t.kind # None =>
         table[t.schema].required[t.kind] \subseteq Range(NodesOf(t, table))

ResolvedTarget(t, table) == [name |-> t.name, nodes |-> NodesOf(t, table)]

ReportSchema ==
  /\ FileDone
  /\ Conflicts(Declared(Top.file))
  /\ Stop("schema")

ReportTarget ==
  /\ FileDone
  /\ ~Conflicts(Declared(Top.file))
  /\ \E t \in Range(content[Top.file].targets) :
       ~Resolvable(t, Registered(Declared(Top.file)))
  /\ Stop("target")

LeaveFile ==
  /\ FileDone
  /\ ~Conflicts(Declared(Top.file))
  /\ LET table == Registered(Declared(Top.file))
         own   == content[Top.file].targets
     IN  /\ \A t \in Range(own) : Resolvable(t, table)
         /\ schemas' = table
         /\ targets' = targets \o
              [i \in DOMAIN own |-> ResolvedTarget(own[i], table)]
  /\ visited' = visited \cup {Top.file}
  /\ loaded' = Append(loaded, Top.file)
  /\ stack' = Front(stack)
  /\ UNCHANGED <<given, result>>

(***************************************************************************)
(* The end of the load: target names must be unique.                       *)
(***************************************************************************)
AllDone == Running /\ Top.todo = <<>> /\ Top.file = None

UniqueNames ==
  \A i, j \in DOMAIN targets : targets[i].name = targets[j].name => i = j

ReportName == AllDone /\ ~UniqueNames /\ Stop("name")

Succeed == AllDone /\ UniqueNames /\ Stop("ok")

Step ==
  \/ ImportDirectory \/ SkipLoaded \/ ReportCycle \/ ReportUnreadable \/ EnterFile
  \/ ReportSchema \/ ReportTarget \/ LeaveFile
  \/ ReportName \/ Succeed

\* The loader returned.
Returned == ~Running /\ UNCHANGED vars

Next == Step \/ Returned

Spec == Init /\ [][Next]_vars

\* The loader is sequential code: it does not stop half-way.
FairSpec == Spec /\ WF_vars(Step)

-----------------------------------------------------------------------------
(* However often files and directories import a file, it is loaded once, and
   never while it is being loaded: the files of the stack and the loaded ones
   are all different. *)
LoadedOnce ==
  /\ \A i, j \in DOMAIN loaded : loaded[i] = loaded[j] => i = j
  /\ \A i, j \in DOMAIN stack : stack[i].file = stack[j].file => i = j
  /\ visited = Range(loaded)
  /\ Visiting \cap visited = {}

\* The files a path leads to.
FilesAt(path) == IF path \in Dirs THEN Range(listing[path]) ELSE {path}

Imports(f) ==
  IF content[f] = Unreadable THEN {}
  ELSE UNION {FilesAt(p) : p \in Range(content[f].imports)}

\* Whatever a file of C imports is in C.
ClosedUnderImports(C) == \A f \in C : Imports(f) \subseteq C

\* The files of S and what they import, directly or not.
Reach(S) ==
  {f \in Files : \A C \in SUBSET Files :
                   S \subseteq C /\ ClosedUnderImports(C) => f \in C}

Cyclic(f) == f \in Reach(Imports(f))

(* The result is what the import graph calls for: a successful load has every
   file that can be reached from the root and none of them imports itself,
   directly, by way of others or by importing the directory it is in, so that
   skipping what was loaded hides neither a file nor a cycle; an import cycle is
   reported only when there is one, and a duplicate name only when two
   declarations have it: a diamond of imports is no reason for either. *)
ResultHonest ==
  /\ result = "ok" =>
       /\ visited = Reach(FilesAt(root))
       /\ \A f \in visited : ~Cyclic(f)
  /\ result = "cycle" => \E f \in Reach(FilesAt(root)) : Cyclic(f)
  /\ result = "name" =>
       \E f, g \in visited :
         \E i \in DOMAIN content[f].targets, j \in DOMAIN content[g].targets :
           /\ <<f, i>> # <<g, j>>
           /\ content[f].targets[i].name = content[g].targets[j].name

AllSchemas == UNION {Declared(f) : f \in visited}

(* After a successful load every target is what the schemas of all the loaded
   files together make it, and has the blocks its schema requires: with which
   file the loader met a schema first, and whether a target was resolved before
   the last file was read, makes no difference. *)
OrderIrrelevant ==
  result = "ok" =>
    /\ \A s, t \in AllSchemas : s.name = t.name => s = t
    /\ LET table == [n \in SchemaNames |->
                       IF \E s \in AllSchemas : s.name = n
                       THEN CHOOSE s \in AllSchemas : s.name = n ELSE None]
           declared == UNION {Range(content[f].targets) : f \in visited}
       IN  /\ \A t \in declared : Resolvable(t, table)
           /\ Range(targets) = {ResolvedTarget(t, table) : t \in declared}

(* The loader returns, also when files import each other in circles. *)
Terminates == <>(result # "loading")

=============================================================================
