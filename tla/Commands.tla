------------------------------- MODULE Commands -------------------------------
(***************************************************************************)
(* The commands of the CLI and the tools of the MCP server that write the  *)
(* library: create, delete, import-file and update.  Each opens the store, *)
(* performs one or more operations of RuleStore on it, stops at the first  *)
(* error without undoing anything, and lets the store go.                  *)
(*                                                                         *)
(* import-file takes a document block by block: a slug the store can get   *)
(* is given the new text and then the new fields, any other is created.    *)
(* update writes the text first and the fields second.  Where the CLI and  *)
(* the server differ (the CLI parses the fields of an update before it     *)
(* writes the text, the server after), both are allowed.                   *)
(***************************************************************************)
EXTENDS RuleStore, Sequences

CONSTANTS
  Documents,  \* sequences of blocks: what the importer makes of a document
  Requests    \* update requests: a patch, and whether its fields parse

Block == [slug : Slugs, body : Bodies]
Request == [patch : Patch, malformed : BOOLEAN]

ASSUME DocumentsAssumption ==
  \A doc \in Documents :
    /\ doc \in Seq(Block) /\ doc # <<>>
    /\ \A k, l \in 1..Len(doc) : doc[k].slug = doc[l].slug => k = l
ASSUME RequestsAssumption == Requests \subseteq Request

VARIABLE cmd  \* [Procs -> the command a process runs, kept until it exits]

cvars == <<vars, cmd>>

NoRequest == [patch |-> NoPatch, malformed |-> FALSE]

\* phase: "none", "running", then "ok", "error" or "died"; stage: "get" before
\* the lookup, "text" while update_body runs, "last" while the last operation
\* of the block or command runs; start, sound, before: the rules, whether they
\* were in order, and the faults there had been when the command began.
NoCommand == [name |-> "none", phase |-> "none", stage |-> "get", doc |-> <<>>,
              done |-> 0, id |-> Absent, request |-> NoRequest,
              start |-> Absent, sound |-> FALSE, before |-> 0]

Running(p, name) == cmd[p].name = name /\ cmd[p].phase = "running"

Ends(p, phase) == cmd' = [cmd EXCEPT ![p].phase = phase]
Enters(p, stage) == cmd' = [cmd EXCEPT ![p].stage = stage]

\* No folder is unknown to the index, no slug is taken twice.
Sound == OnDisk \subseteq Indexed /\ UniqueOnDisk

\* The store was bootstrapped for this command; it runs on the rules there are.
Launch(p, command) ==
  cmd' = [cmd EXCEPT ![p] = [command EXCEPT !.phase = "running", !.start = disk,
                                            !.sound = Sound, !.before = faults]]

-----------------------------------------------------------------------------
CommandsInit == Init /\ cmd = [p \in Procs |-> NoCommand]

\* The server scans before each tool; the command line, before the commands
\* that write, does not.
Bootstrap(p) ==
  /\ OpenOrInit(p) \/ \E scans \in BOOLEAN : Opened(p, scans)
  /\ cmd' = [cmd EXCEPT ![p] = NoCommand]

CreateCommand(p, i, s, b) ==
  /\ cmd[p] = NoCommand
  /\ Create(p, i, s, b)
  /\ Launch(p, [NoCommand EXCEPT !.name = "create", !.stage = "last"])

DeleteCommand(p, i) ==
  /\ cmd[p] = NoCommand
  /\ Delete(p, i)
  /\ Launch(p, [NoCommand EXCEPT !.name = "delete", !.stage = "last"])

\* New UUIDs never run out: the bound on Ids leaves one for every block.
EnoughIds(doc) == Cardinality({i \in Ids : Fresh(i)}) >= Len(doc)

ImportFile(p, doc) ==
  /\ cmd[p] = NoCommand
  /\ Ready(p)
  /\ EnoughIds(doc)
  /\ Launch(p, [NoCommand EXCEPT !.name = "import", !.doc = doc])
  /\ UNCHANGED vars

UpdateCommand(p, i, request) ==
  /\ cmd[p] = NoCommand
  /\ Ready(p)
  /\ i \in Indexed /\ index[i].type \in UpdateTypes
  /\ Launch(p, [NoCommand EXCEPT !.name = "update", !.id = i, !.request = request])
  /\ UNCHANGED vars

(***************************************************************************)
(* import-file, one block at a time.                                       *)
(***************************************************************************)
BlockOf(p) == cmd[p].doc[cmd[p].done + 1]

\* Mutant: a block is known when the full-text index holds its text.
KnownBySearch(p, slug) ==
  LET i == slugIndex[p][slug]
  IN  i \in Indexed /\ disk[i] # Absent /\ search[i] # Absent /\ search[i].body # Absent

\* store.get(slug): the slug table, the row, the manifest.
Gettable(p, slug) ==
  LET i == slugIndex[p][slug] IN i \in Indexed /\ disk[i] # Absent

\* Mutant: importing a rule again makes it a draft again.
ImportPatchAsDraft(block) == [slug |-> block.slug, state |-> "draft", body |-> block.body]

ImportPatch(block) == [slug |-> block.slug, state |-> Keep, body |-> block.body]

RewriteBlock(p) ==
  /\ Running(p, "import") /\ cmd[p].stage = "get"
  /\ Gettable(p, BlockOf(p).slug)
  /\ UpdateBody(p, slugIndex[p][BlockOf(p).slug], BlockOf(p).body)
  /\ Enters(p, "text")

RefileBlock(p) ==
  /\ Running(p, "import") /\ cmd[p].stage = "text"
  /\ slugIndex[p][BlockOf(p).slug] \in Ids
  /\ Update(p, slugIndex[p][BlockOf(p).slug], ImportPatch(BlockOf(p)))
  /\ Enters(p, "last")

CreateBlock(p) ==
  /\ Running(p, "import") /\ cmd[p].stage = "get"
  /\ ~Gettable(p, BlockOf(p).slug)
  /\ \E i \in Ids : Create(p, i, BlockOf(p).slug, BlockOf(p).body)
  /\ Enters(p, "last")

\* The block's last operation returned: on to the next one, if any.
BlockDone(p) ==
  /\ Running(p, "import") /\ cmd[p].stage = "last"
  /\ Ready(p)
  /\ cmd' = [cmd EXCEPT ![p].done = @ + 1, ![p].stage = "get",
               ![p].phase = IF cmd[p].done + 1 = Len(cmd[p].doc) THEN "ok" ELSE @]
  /\ UNCHANGED vars

\* create finds the slug taken although get found no rule; or update cannot
\* resolve the slug any more or refuses the fields.
BlockRefused(p) ==
  LET slug == BlockOf(p).slug
      i == slugIndex[p][slug]
  IN  /\ Running(p, "import")
      /\ Ready(p)
      /\ \/ cmd[p].stage = "get" /\ ~Gettable(p, slug) /\ i # Absent
         \/ /\ cmd[p].stage = "text"
            /\ ~ /\ Gettable(p, slug)
                 /\ SlugAccepted(p, i, ImportPatch(BlockOf(p)))
                 /\ TransitionAllowed(i, ImportPatch(BlockOf(p)))

(***************************************************************************)
(* update: the text, then the fields and the state.                        *)
(***************************************************************************)
WriteText(p) ==
  /\ Running(p, "update") /\ cmd[p].stage = "get"
  /\ cmd[p].request.patch.body # Keep
  /\ UpdateBody(p, cmd[p].id, cmd[p].request.patch.body)
  /\ Enters(p, "text")

\* Mutant: the fields do not wait for the text.
NoTextFirst(p) == cmd[p].stage \in {"get", "text"}

TextWritten(p) ==
  \/ cmd[p].stage = "text"
  \/ cmd[p].stage = "get" /\ cmd[p].request.patch.body = Keep

Fields(p) == [cmd[p].request.patch EXCEPT !.body = Keep]

WriteFields(p) ==
  /\ Running(p, "update") /\ TextWritten(p)
  /\ ~cmd[p].request.malformed
  /\ Update(p, cmd[p].id, Fields(p))
  /\ Enters(p, "last")

\* The schema has no such transition; the new text stays.
TransitionRejected(p) ==
  /\ Running(p, "update") /\ TextWritten(p)
  /\ ~cmd[p].request.malformed
  /\ UpdateRejected(p, cmd[p].id, Fields(p))
  /\ Ends(p, "error")

\* The fields do not parse, which the command line sees before it writes the
\* text and the server after; or they name a slug another rule has.
FieldsRefused(p) ==
  /\ Running(p, "update")
  /\ Ready(p)
  /\ \/ cmd[p].request.malformed /\ cmd[p].stage \in {"get", "text"}
     \/ TextWritten(p) /\ ~SlugAccepted(p, cmd[p].id, Fields(p))

Refused(p) ==
  /\ BlockRefused(p) \/ FieldsRefused(p)
  /\ Ends(p, "error")
  /\ UNCHANGED vars

-----------------------------------------------------------------------------
\* The only or last operation returned.
Returned(p) ==
  /\ cmd[p].name \in {"create", "delete", "update"}
  /\ cmd[p].phase = "running" /\ cmd[p].stage = "last"
  /\ Ready(p)
  /\ Ends(p, "ok")
  /\ UNCHANGED vars

\* An operation returned an error: the command ends with it.
Errs(p) ==
  /\ Fail(p) \/ FolderGone(p)
  /\ IF cmd[p].phase = "running" THEN Ends(p, "error") ELSE UNCHANGED cmd

Dies(p) ==
  /\ Crash(p)
  /\ IF cmd[p].phase = "running" THEN Ends(p, "died") ELSE UNCHANGED cmd

\* The process is killed between two operations.
DiesBetween(p) ==
  /\ cmd[p].phase = "running"
  /\ Ready(p)
  /\ faults < MaxFaults
  /\ faults' = faults + 1
  /\ Ends(p, "died")
  /\ handle' = [handle EXCEPT ![p] = "closed"]
  /\ slugIndex' = [slugIndex EXCEPT ![p] = NoSlugs]
  /\ UNCHANGED <<disk, index, search, initialized, op, derived>>

Exit(p) ==
  /\ cmd[p].phase \in {"ok", "error"}
  /\ Close(p)
  /\ cmd' = [cmd EXCEPT ![p] = NoCommand]

Surroundings ==
  /\ Environment
  /\ cmd' = [p \in Procs |-> NoCommand]

Launches(p) ==
  \/ \E i \in Ids, s \in Slugs, b \in Bodies : CreateCommand(p, i, s, b)
  \/ \E i \in Ids : DeleteCommand(p, i)
  \/ \E doc \in Documents : ImportFile(p, doc)
  \/ \E i \in Ids, request \in Requests : UpdateCommand(p, i, request)

CommandsNext ==
  \/ \E p \in Procs :
       \/ Bootstrap(p) \/ Launches(p)
       \/ RewriteBlock(p) \/ RefileBlock(p) \/ CreateBlock(p) \/ BlockDone(p)
       \/ WriteText(p) \/ WriteFields(p) \/ TransitionRejected(p)
       \/ Refused(p) \/ Returned(p) \/ Errs(p) \/ Dies(p) \/ DiesBetween(p) \/ Exit(p)
       \/ Step(p) /\ UNCHANGED cmd
  \/ Surroundings

CommandsSpec == CommandsInit /\ [][CommandsNext]_cvars

-----------------------------------------------------------------------------
Owners(slug) == {i \in OnDisk : disk[i].slug = slug}

\* One rule carries the block's slug, with its text, and every place says so.
Imported(block) ==
  /\ Cardinality(Owners(block.slug)) = 1
  /\ \A i \in Owners(block.slug) :
       disk[i].body = block.body /\ IndexAgrees(i) /\ SearchAgrees(i)

(* At every moment of an import, and wherever an error, a crash or its end
   stops it, the blocks behind it are in the library in full: one rule each,
   with the text of the document in the folder, the row and the full-text
   index, however wrong earlier failures, outside edits or a lost index had
   left rows and documents.  Only a folder the index does not know, which an
   import of the command line would not see, and a slug taken twice are
   excused. *)
ImportedPrefix ==
  \A p \in Procs : cmd[p].name = "import" /\ cmd[p].sound =>
    /\ \A k \in 1..cmd[p].done : Imported(cmd[p].doc[k])
    /\ cmd[p].phase = "ok" => cmd[p].done = Len(cmd[p].doc)

\* What importing the blocks up to the one at hand may have made of rule i.
ImportMayMake(p, i) ==
  LET c == cmd[p]
      reached == {c.doc[k] : k \in {k \in 1..Len(c.doc) : k <= c.done + 1}}
      before == c.start[i]
  IN  IF before = Absent
      THEN {[type |-> RuleEntry, slug |-> b.slug, state |-> "draft", body |-> b.body] :
              b \in {b \in reached : c.sound => \A j \in Ids :
                       c.start[j] # Absent => c.start[j].slug # b.slug}}
      ELSE {[before EXCEPT !.body = b.body] : b \in {b \in reached : b.slug = before.slug}}

(* An import changes nothing else: no rule outside the document, none of a
   block not reached yet, no slug and no state of a rule there was, and it
   removes nothing; a block it stops in is as it was, or has its new text. *)
ImportConfined ==
  \A p \in Procs : cmd[p].name = "import" =>
    \A i \in Ids : disk[i] \in {cmd[p].start[i]} \cup ImportMayMake(p, i)

(* Whatever an earlier command left behind when it failed or died, an import
   is not refused because of it: it ends with an error only if a write of its
   own failed.  Running the same import again is how a failed one is mended. *)
RetryNotRefused ==
  \A p \in Procs :
    cmd[p].name = "import" /\ cmd[p].phase = "error" => faults > cmd[p].before

(* update never changes the fields or the state without the text it came
   with: a command that stops in between (a rejected transition, a slug that
   is taken, fields that do not parse, a failed write, a crash) leaves the rule
   as it was or with the new text only, one that ends well leaves both, with
   the row and the document in agreement, and no other rule changes. *)
TextBeforeFields ==
  \A p \in Procs : cmd[p].name = "update" =>
    LET c == cmd[p]
        before == c.start[c.id]
        text == IF c.request.patch.body = Keep THEN before
                ELSE [before EXCEPT !.body = c.request.patch.body]
        both == Patched(text, c.request.patch)
    IN  /\ \A i \in Ids \ {c.id} : disk[i] = c.start[i]
        /\ disk[c.id] \in {before, text, both}
        /\ c.phase = "ok" => /\ disk[c.id] = both
                             /\ IndexAgrees(c.id) /\ SearchAgrees(c.id)

=============================================================================
