----------------------------- MODULE SyncTargets -----------------------------
(***************************************************************************)
(* "rule sync-targets" (src/cli/rendering.rs): renders every target of a   *)
(* configuration into its output file, keeps one generated-target record   *)
(* per target in the rule store, and removes the outputs of targets that   *)
(* moved or left the configuration.  Files, configuration and records are  *)
(* three places nobody updates together: users edit the configuration, the *)
(* rules and the outputs between two runs, and a run can die or be refused *)
(* between any two of its writes.                                          *)
(*                                                                         *)
(* A run is one action to collect its inputs, then one action per write or *)
(* removal.  The records are atomic here; RuleStore has their inner steps. *)
(***************************************************************************)
EXTENDS Naturals, FiniteSets, Sequences, SequencesExt

CONSTANTS
  Names,            \* target names
  Outs,             \* output paths as the configuration resolves them
  Slugs,            \* slugs of the records
  SlugOf,           \* [Names -> Slugs]: generated_target_slug, sanitized
  Contents,         \* what rendering a set of rules yields
  FrontContents,    \* those whose first rule opens with YAML frontmatter
  NoRules,          \* a target that matches no rule
  Absent,           \* no file, no record, no target
  Hand,             \* a file without the generated marker
  Edited,           \* a generated file with an edited body
  HandValues,       \* what users turn outputs into
  Kinds,            \* the file kinds targets are given
  CanonicalOuts,    \* those outputs whose configured path is already canonical
  MaxEdits,         \* bound: edits by users
  MaxCrashes        \* bound: runs that die

Kind == {"markdown", "spec-doc"}

ASSUME NameAssumption == SlugOf \in [Names -> Slugs]
ASSUME InputAssumption ==
  /\ Kinds \subseteq Kind /\ CanonicalOuts \subseteq Outs
  /\ MaxEdits \in Nat /\ MaxCrashes \in Nat

VARIABLES
  config,    \* [Names -> target, or Absent]: the targets of the config file
  matched,   \* [Names -> Contents \cup {NoRules}]: what a target's rules render to
  files,     \* [Outs -> file contents, or Absent]
  records,   \* [Slugs -> record, or Absent]: generated-target entities
  run,       \* the run in progress
  outcome,   \* history: how the last run ended, until something changes
  last,      \* history: the records the last writing run started from
  disrupted, \* history: some writing run died or stopped with an error
  edits,     \* history: edits so far
  crashes    \* history: crashes so far

vars == <<config, matched, files, records, run, outcome, last, disrupted,
          edits, crashes>>

-----------------------------------------------------------------------------
Target == [out : Outs, kind : Kind]

\* Spec documents are written by the spec store, under a marker of its own.
SpecDoc(c) == <<"spec-doc", c>>
SpecDocs   == {SpecDoc(c) : c \in Contents}
FileTexts  == Contents \cup SpecDocs \cup {Hand, Edited}

ASSUME ContentAssumption ==
  /\ FrontContents \subseteq Contents /\ Contents \cap SpecDocs = {}
  /\ {NoRules, Absent, Hand, Edited} \cap (Contents \cup SpecDocs) = {}
  /\ NoRules \notin {Absent, Hand, Edited}
  /\ Absent \notin {Hand, Edited} /\ Hand # Edited
  /\ HandValues \subseteq {Absent, Hand, Edited}

\* existing.starts_with(GENERATED_FILE_COMMENT); frontmatter is put first.
HasMarker(f) == f \in (Contents \ FrontContents) \cup {Edited}

Rendered(kind, c) == IF kind = "spec-doc" THEN SpecDoc(c) ELSE c

\* stable_output_key, stable_path_key: canonical when the file exists, the
\* path as it was given otherwise.
CanonicalKey(o) == <<"canonical", o>>
RawKey(o) == IF o \in CanonicalOuts THEN CanonicalKey(o) ELSE <<"raw", o>>
Keys == {CanonicalKey(o) : o \in Outs} \cup {RawKey(o) : o \in Outs}
Key(o) == IF files[o] # Absent THEN CanonicalKey(o) ELSE RawKey(o)
PathOf(k) == k[2]

Record == [name : Names, out : Keys]

ASSUME AbsentAssumption == Absent \notin Target \cup Record

Outcomes == {"none", "running", "disturbed", "synced", "checked", "previewed",
             "drift", "error"}

Modes == {"write", "check", "dry-run"}
Steps == {"idle", "render", "previous", "record", "stale"}

Configured(c) == {n \in Names : c[n] # Absent}

\* list_generated_targets: each record with its slug.
Listing == [slug : Slugs, name : Names, out : Keys]
Listed == { [slug |-> s, name |-> records[s].name, out |-> records[s].out] :
              s \in {t \in Slugs : records[t] # Absent} }

\* What a run reads once at its start, and what it still has to do.
NoRun == [step |-> "idle", mode |-> "write", targets |-> <<>>,
          config |-> [n \in Names |-> Absent],
          matched |-> [n \in Names |-> NoRules],
          previous |-> {}, outputs |-> {},
          orphans |-> {}, removed |-> {}, decoupled |-> {}]

Busy == run.step # "idle"

\* The run returns; its snapshots are dropped.
End(how) ==
  /\ run' = NoRun
  /\ outcome' = IF outcome = "disturbed" THEN "disturbed" ELSE how
  /\ disrupted' = (disrupted \/ (how = "error"))

Continue(next) == run' = next /\ UNCHANGED <<outcome, disrupted>>

world == <<config, matched, edits, crashes, last>>

-----------------------------------------------------------------------------
\* A configuration, rules and files of the user's; no run so far.
Init ==
  /\ config \in [Names -> [out : Outs, kind : Kinds] \cup {Absent}]
  /\ IsFiniteSet(Configured(config))   \* a configuration lists finitely many
  /\ matched \in [Names -> Contents \cup {NoRules}]
  /\ files \in [Outs -> HandValues \cap {Absent, Hand}]
  /\ records = [s \in Slugs |-> Absent]
  /\ run = NoRun
  /\ outcome = "none"
  /\ last = {}
  /\ disrupted = FALSE
  /\ edits = 0
  /\ crashes = 0

(***************************************************************************)
(* sync_targets_payload up to its first write: load the configuration,     *)
(* collect the rules of every target, refuse targets without rules, list   *)
(* the records and the current outputs.                                    *)
(***************************************************************************)
\* Mutant: zero-match targets are not refused.
NeverRefused(mode) == FALSE

\* ensure_no_zero_match_targets
Refused(mode) ==
  mode = "write" /\ \E n \in Configured(config) : matched[n] = NoRules

\* The order of the targets is the order of the configuration file.
Begin(mode) ==
  /\ ~Busy
  /\ ~Refused(mode)
  /\ \E order \in SetToSeqs(Configured(config)) :
       run' = [NoRun EXCEPT
                 !.step = "render", !.mode = mode, !.targets = order,
                 !.config = config, !.matched = matched, !.previous = Listed,
                 !.outputs = {Key(config[n].out) : n \in Configured(config)}]
  /\ outcome' = "running"
  /\ last' = IF mode = "write" THEN Listed ELSE last
  /\ UNCHANGED <<config, matched, files, records, disrupted, edits, crashes>>

(***************************************************************************)
(* One target: render_and_write_sync_target, then, in a writing run,       *)
(* maybe_remove_previous_generated_target and the record.                  *)
(***************************************************************************)
Current == Head(run.targets)
CurrentTarget == run.config[Current]
CurrentText == Rendered(CurrentTarget.kind, run.matched[Current])

Rendering(mode) == run.step = "render" /\ run.mode = mode /\ run.targets # <<>>

NextTarget == [run EXCEPT !.step = "render", !.targets = Tail(@)]

RenderWrite ==
  /\ Rendering("write")
  /\ files' = [files EXCEPT ![CurrentTarget.out] = CurrentText]
  /\ Continue([run EXCEPT !.step = "previous"])
  /\ UNCHANGED <<records, world>>

RenderDryRun ==
  /\ Rendering("dry-run")
  /\ Continue(NextTarget)
  /\ UNCHANGED <<files, records, world>>

\* Mutant: --check is satisfied with a file that exists.
RenderExists ==
  /\ Rendering("check")
  /\ files[CurrentTarget.out] # Absent
  /\ Continue(NextTarget)
  /\ UNCHANGED <<files, records, world>>

RenderMatches ==
  /\ Rendering("check")
  /\ files[CurrentTarget.out] = CurrentText
  /\ Continue(NextTarget)
  /\ UNCHANGED <<files, records, world>>

RenderDiffers ==
  /\ Rendering("check")
  /\ files[CurrentTarget.out] # CurrentText
  /\ End("drift")
  /\ UNCHANGED <<files, records, world>>

PreviousOf(n) == {r \in run.previous : r.name = n}

\* Mutant: the marker is not looked at.
AnyRemovable(k) == k \in Keys

\* remove_generated_output: a missing file needs no removal, a file without
\* the marker is refused.
Removable(k) == files[PathOf(k)] = Absent \/ HasMarker(files[PathOf(k)])

Removed(k) == [files EXCEPT ![PathOf(k)] = Absent]

\* Mutant: what other targets write is not looked at.
MustRemoveAny(r) == r.out # Key(CurrentTarget.out)

\* The target moved away from its recorded output and, when it is a markdown
\* target, no target of the configuration writes there.
MustRemove(r) ==
  /\ r.out # Key(CurrentTarget.out)
  /\ CurrentTarget.kind = "spec-doc" \/ r.out \notin run.outputs

KeepPrevious ==
  /\ run.step = "previous"
  /\ \A r \in PreviousOf(Current) : ~MustRemove(r)
  /\ Continue([run EXCEPT !.step = "record"])
  /\ UNCHANGED <<files, records, world>>

RemovePrevious(r) ==
  /\ run.step = "previous"
  /\ r \in PreviousOf(Current) /\ MustRemove(r)
  /\ Removable(r.out)
  /\ files' = Removed(r.out)
  /\ Continue([run EXCEPT !.step = "record"])
  /\ UNCHANGED <<records, world>>

\* "refusing to remove non-generated file": the whole run stops here.
RefusePrevious(r) ==
  /\ run.step = "previous"
  /\ r \in PreviousOf(Current) /\ MustRemove(r)
  /\ ~Removable(r.out)
  /\ End("error")
  /\ UNCHANGED <<files, records, world>>

\* upsert_generated_target: found by slug, overwritten by name and output.
UpsertRecord ==
  /\ run.step = "record" /\ CurrentTarget.kind = "markdown"
  /\ records' = [records EXCEPT ![SlugOf[Current]] =
                   [name |-> Current, out |-> Key(CurrentTarget.out)]]
  /\ Continue(NextTarget)
  /\ UNCHANGED <<files, world>>

\* delete_generated_target: NotFound when nothing has the slug any more.
DeleteRecord(s, next) ==
  IF records[s] = Absent
  THEN End("error") /\ UNCHANGED records
  ELSE Continue(next) /\ records' = [records EXCEPT ![s] = Absent]

\* A spec document is not tracked; the record of its markdown past is dropped.
ForgetSpecDoc ==
  /\ run.step = "record" /\ CurrentTarget.kind = "spec-doc"
  /\ \/ /\ PreviousOf(Current) = {}
        /\ Continue(NextTarget)
        /\ UNCHANGED records
     \/ \E r \in PreviousOf(Current) : DeleteRecord(r.slug, NextTarget)
  /\ UNCHANGED <<files, world>>

(***************************************************************************)
(* The records of targets that left the configuration: those whose output  *)
(* is still a generated file lose file and record, the others are          *)
(* decoupled and lose the record only.                                     *)
(***************************************************************************)
\* Mutant: stale by output instead of by name.
StaleByOutput == {r \in run.previous : r.out \notin run.outputs}

Stale == {r \in run.previous : r.name \notin Configured(run.config)}

\* Mutant: every stale record counts as decoupled.
NoOrphans == {}

\* output_is_orphaned_generated
Orphans == {r \in Stale : HasMarker(files[PathOf(r.out)])}

AllRendered == run.step = "render" /\ run.targets = <<>>

\* Mutant: records of decoupled outputs are kept.
CollectOrphans ==
  /\ AllRendered /\ run.mode = "write"
  /\ Continue([run EXCEPT !.step = "stale", !.orphans = Orphans])
  /\ UNCHANGED <<files, records, world>>

Collect ==
  /\ AllRendered /\ run.mode = "write"
  /\ Continue([run EXCEPT !.step = "stale", !.orphans = Orphans,
                          !.decoupled = Stale \ Orphans])
  /\ UNCHANGED <<files, records, world>>

ReportOnly ==
  /\ AllRendered /\ run.mode # "write"
  /\ End(IF run.mode = "dry-run" THEN "previewed"
         ELSE IF Orphans = {} THEN "checked" ELSE "drift")
  /\ UNCHANGED <<files, records, world>>

RemoveOrphan(r) ==
  /\ run.step = "stale" /\ r \in run.orphans /\ run.removed = {}
  /\ Removable(r.out)
  /\ files' = Removed(r.out)
  /\ Continue([run EXCEPT !.removed = {r}])
  /\ UNCHANGED <<records, world>>

RefuseOrphan(r) ==
  /\ run.step = "stale" /\ r \in run.orphans /\ run.removed = {}
  /\ ~Removable(r.out)
  /\ End("error")
  /\ UNCHANGED <<files, records, world>>

ForgetOrphan(r) ==
  /\ run.step = "stale" /\ r \in run.removed
  /\ DeleteRecord(r.slug, [run EXCEPT !.removed = {}, !.orphans = @ \ {r}])
  /\ UNCHANGED <<files, world>>

ForgetDecoupled(r) ==
  /\ run.step = "stale" /\ run.orphans = {} /\ r \in run.decoupled
  /\ DeleteRecord(r.slug, [run EXCEPT !.decoupled = @ \ {r}])
  /\ UNCHANGED <<files, world>>

Finish ==
  /\ run.step = "stale" /\ run.orphans = {} /\ run.decoupled = {}
  /\ End("synced")
  /\ UNCHANGED <<files, records, world>>

(***************************************************************************)
(* The user and the operating system.                                      *)
(***************************************************************************)
Edit ==
  /\ edits < MaxEdits
  /\ edits' = edits + 1
  /\ outcome' = IF Busy THEN "disturbed" ELSE "none"
  /\ last' = IF Busy THEN last ELSE {}
  /\ UNCHANGED <<records, run, disrupted, crashes>>

EditConfig(n, target) ==
  /\ ~Busy
  /\ config[n] # target
  /\ config' = [config EXCEPT ![n] = target]
  /\ Edit
  /\ UNCHANGED <<matched, files>>

\* Rules change, so a target renders differently or matches nothing.
EditRules(n, c) ==
  /\ ~Busy
  /\ matched[n] # c
  /\ matched' = [matched EXCEPT ![n] = c]
  /\ Edit
  /\ UNCHANGED <<config, files>>

\* Outputs are edited, taken over or deleted at any time, also during a run.
EditOutput(o, text) ==
  /\ files[o] # text
  /\ text = Edited => HasMarker(files[o])
  /\ files' = [files EXCEPT ![o] = text]
  /\ Edit
  /\ UNCHANGED <<config, matched>>

Crash ==
  /\ Busy
  /\ crashes < MaxCrashes
  /\ crashes' = crashes + 1
  /\ run' = NoRun
  /\ outcome' = "none"
  /\ disrupted' = TRUE
  /\ UNCHANGED <<config, matched, files, records, last, edits>>

-----------------------------------------------------------------------------
RunStep ==
  \/ RenderWrite \/ RenderDryRun \/ RenderMatches \/ RenderDiffers
  \/ KeepPrevious
  \/ \E r \in run.previous : RemovePrevious(r) \/ RefusePrevious(r)
  \/ UpsertRecord \/ ForgetSpecDoc
  \/ Collect \/ ReportOnly
  \/ \E r \in run.orphans : RemoveOrphan(r) \/ RefuseOrphan(r) \/ ForgetOrphan(r)
  \/ \E r \in run.decoupled : ForgetDecoupled(r)
  \/ Finish

User ==
  \/ \E n \in Names :
       \/ \E o \in Outs, k \in Kinds : EditConfig(n, [out |-> o, kind |-> k])
       \/ EditConfig(n, Absent)
       \/ \E c \in Contents \cup {NoRules} : EditRules(n, c)
  \/ \E o \in Outs, text \in HandValues : EditOutput(o, text)

Next == (\E mode \in Modes : Begin(mode)) \/ RunStep \/ User \/ Crash

Spec == Init /\ [][Next]_vars

(***************************************************************************)
(* A run that started goes on, and sync-targets is run again and again;    *)
(* nobody has to edit and nothing has to crash.                            *)
(***************************************************************************)
Fairness == WF_vars(RunStep) /\ SF_vars(Begin("write"))

FairSpec == Spec /\ Fairness

-----------------------------------------------------------------------------
(* Types of the state. *)
RunRecord ==
  [step : Steps, mode : Modes, targets : Seq(Names),
   config : [Names -> Target \cup {Absent}],
   matched : [Names -> Contents \cup {NoRules}],
   previous : SUBSET Listing, outputs : SUBSET Keys,
   orphans : SUBSET Listing, removed : SUBSET Listing,
   decoupled : SUBSET Listing]

RunOK ==
  /\ run \in RunRecord
  /\ run.orphans \subseteq run.previous /\ run.decoupled \subseteq run.previous
  /\ run.removed \subseteq run.orphans
  /\ run.step \in {"previous", "record"} => run.targets # <<>>

TypeOK ==
  /\ config \in [Names -> Target \cup {Absent}]
  /\ matched \in [Names -> Contents \cup {NoRules}]
  /\ files \in [Outs -> FileTexts \cup {Absent}]
  /\ records \in [Slugs -> Record \cup {Absent}]
  /\ RunOK
  /\ outcome \in Outcomes
  /\ last \subseteq Listing
  /\ disrupted \in BOOLEAN
  /\ edits \in 0..MaxEdits /\ crashes \in 0..MaxCrashes

(* A run writes and deletes only as "sync-targets" without --check and
   --dry-run, and only when every target matched a rule.  The one file it
   writes is an output of its configuration, with the text of a target that
   goes there; the files it deletes carry the generated marker and are the
   recorded outputs of this configuration's targets: a hand-owned file is
   never deleted, whatever happened to it while the run was under way. *)
FilesTouched ==
  edits' = edits /\ files' # files =>
    /\ run.mode = "write"
    /\ \A n \in Configured(run.config) : run.matched[n] # NoRules
    /\ \A o \in Outs : files'[o] # files[o] =>
         \/ \E n \in Configured(run.config) :
              /\ run.config[n].out = o
              /\ files'[o] = Rendered(run.config[n].kind, run.matched[n])
         \/ /\ files'[o] = Absent /\ HasMarker(files[o])
            /\ \E r \in run.previous : PathOf(r.out) = o

OnlyOwnOutputs == [][FilesTouched]_vars

Shared(n) == \E m \in Configured(config) \ {n} : config[m].out = config[n].out

UpToDate(n) == files[config[n].out] = Rendered(config[n].kind, matched[n])

\* Some record the run started from claims o for a target that is no markdown
\* target any more: it left the configuration or became a spec document.
Reclaimed(o) ==
  \E r \in last : /\ PathOf(r.out) = o
                  /\ config[r.name] = Absent \/ config[r.name].kind = "spec-doc"

(* After a run that reported success, and until somebody edits anything, the
   output of every target that does not share it holds what its rules render
   to, if its configured path is canonical, so that the run can tell it from
   the recorded outputs before it exists, and no target that left the
   configuration, or became a spec document, was recorded with that output. *)
OutputsCurrentUnlessReclaimed ==
  outcome = "synced" =>
    \A n \in Configured(config) :
      config[n].out \in CanonicalOuts =>
        Shared(n) \/ Reclaimed(config[n].out) \/ UpToDate(n)

\* No other name has the slug of n.
Exclusive(n) == \A m \in Names \ {n} : SlugOf[m] # SlugOf[n]

(* After a successful run the records are those of the configuration: one per
   markdown target, with the output it was written to, and none for targets
   that left, so that the next run can find what this one wrote; and no output
   that earlier runs recorded is left behind with the generated marker at its
   start, unless a target writes there. *)
RecordsCurrent ==
  outcome = "synced" =>
    /\ \A n \in {m \in Names : Exclusive(m)} :
         LET r == records[SlugOf[n]]
         IN  IF config[n] # Absent /\ config[n].kind = "markdown"
             THEN r # Absent /\ PathOf(r.out) = config[n].out
             ELSE r = Absent
    /\ \A r \in last :
         \/ \E n \in Configured(config) : config[n].out = PathOf(r.out)
         \/ ~HasMarker(files[PathOf(r.out)])

(* As long as no run died or stopped with an error, every generated file is the
   recorded output of some target: moving or removing targets and editing files
   between and during runs never makes sync-targets lose track of a file. *)
GeneratedFilesTracked ==
  ~disrupted /\ ~Busy /\ (\A n \in Names : Exclusive(n)) =>
    \A o \in Outs : HasMarker(files[o]) =>
      \E s \in Slugs : records[s] # Absent /\ PathOf(records[s].out) = o

(* "sync-targets --check" that reported no drift was right, however the files,
   the records and the configuration came to be as they are: every output holds
   what its rules render to and no target that left the configuration still has
   a generated output. *)
StaleNow(r) == config[r.name] = Absent /\ HasMarker(files[PathOf(r.out)])

CheckSound ==
  outcome = "checked" =>
    /\ \A n \in Configured(config) : UpToDate(n)
    /\ \A r \in Listed : ~StaleNow(r)

(* Whatever was interrupted, edited or refused before: once editing and
   crashing stop, sync-targets run again and again brings every output up to
   date and the records in line with the configuration for good.  Exempt are
   configurations it refuses (a target without rules), targets that share an
   output, and a moved target whose old output became a hand-owned file, which
   it refuses to remove on every run. *)
Settled ==
  /\ \A n \in Configured(config) : UpToDate(n)
  /\ \A r \in Listed : config[r.name] # Absent

MovedNow(r) ==
  /\ config[r.name] # Absent
  /\ r.out # Key(config[r.name].out)
  /\ \/ config[r.name].kind = "spec-doc"
     \/ \A n \in Configured(config) : config[n].out # PathOf(r.out)

Blocked ==
  \E r \in Listed : MovedNow(r) /\ ~Removable(r.out)

Converges ==
  <>[](\/ Settled \/ Blocked
       \/ \E n \in Configured(config) : matched[n] = NoRules \/ Shared(n))

=============================================================================
