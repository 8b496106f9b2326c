------------------------------- MODULE Feedback -------------------------------
(***************************************************************************)
(* record_feedback, for one rule: appends an event to the rule's event log, *)
(* reads the whole log back, and writes what it counts into the manifest.  *)
(* The log is a file of one JSON object per line.  writeln! on the bare    *)
(* file appends the object and the line break with a write each, so that   *)
(* another process or a crash can come between them; a server serialises   *)
(* its own recordings, the command line and other servers are not held     *)
(* back.  The index row and the search document the final update also      *)
(* writes are those of RuleStore.                                          *)
(***************************************************************************)
EXTENDS Naturals, FiniteSets, Sequences, SequencesExt

CONSTANTS
  Procs,       \* processes that record feedback
  Ratings,     \* FeedbackRating
  None,        \* no event
  Torn,        \* an object cut off by a crash or a full disk
  MaxEvents,   \* bound: recordings
  MaxFaults    \* bound: failing writes and crashes

\* What the counts tell apart: the rating, and whether there is a note.
Event == [rating : Ratings, note : BOOLEAN]

ASSUME FeedbackAssumption ==
  /\ None \notin Event /\ Torn \notin Event
  /\ MaxEvents \in Nat /\ MaxFaults \in Nat

VARIABLES
  log,         \* lines, each the objects that were written to it
  ended,       \* the last line has its line break
  counts,      \* the feedback fields of the manifest
  proc,        \* [Procs -> the recording in progress]
  recordings,  \* history: recordings so far
  faults,      \* history: faults so far
  apart,       \* history: no two recordings overlapped
  synced       \* history: the last recording succeeded, and alone

vars == <<log, ended, counts, proc, recordings, faults, apart, synced>>

-----------------------------------------------------------------------------
Steps == {"idle", "text", "newline", "read", "manifest"}
Idle == [step |-> "idle", event |-> None, events |-> <<>>, alone |-> TRUE]

InProgress == {p \in Procs : proc[p].step # "idle"}

\* FeedbackSummary::from_events
SummaryOf(events) ==
  [ratings |-> [r \in Ratings |-> Cardinality({i \in DOMAIN events : events[i].rating = r})],
   notes   |-> Cardinality({i \in DOMAIN events : events[i].note})]

Init ==
  /\ log = <<>>
  /\ ended = TRUE
  /\ counts = SummaryOf(<<>>)
  /\ proc = [p \in Procs |-> Idle]
  /\ recordings = 0
  /\ faults = 0
  /\ apart = TRUE
  /\ synced = TRUE

At(p, step) == proc[p].step = step

Goto(p, step) == proc' = [proc EXCEPT ![p].step = step]

\* A write at the end of the file.
Written(object) ==
  IF ended THEN Append(log, <<object>>)
  ELSE [log EXCEPT ![Len(log)] = Append(@, object)]

Record(p, e) ==
  /\ At(p, "idle")
  /\ recordings < MaxEvents
  /\ recordings' = recordings + 1
  /\ proc' = [q \in Procs |->
                IF q = p THEN [Idle EXCEPT !.step = "text", !.event = e,
                                           !.alone = InProgress = {}]
                ELSE [proc[q] EXCEPT !.alone = q \notin InProgress]]
  /\ apart' = (apart /\ InProgress = {})
  /\ synced' = FALSE
  /\ UNCHANGED <<log, ended, counts, faults>>

\* append_feedback_event: the object ...
AppendText(p) ==
  /\ At(p, "text")
  /\ log' = Written(proc[p].event)
  /\ ended' = FALSE
  /\ Goto(p, "newline")
  /\ UNCHANGED <<counts, recordings, faults, apart, synced>>

\* Mutant: append_feedback_event writes no line break.
AppendNothing(p) ==
  /\ At(p, "newline")
  /\ Goto(p, "read")
  /\ UNCHANGED <<log, ended, counts, recordings, faults, apart, synced>>

\* ... and the line break, which ends an empty line if another came first.
AppendNewline(p) ==
  /\ At(p, "newline")
  /\ log' = IF ended THEN Append(log, <<>>) ELSE log
  /\ ended' = TRUE
  /\ Goto(p, "read")
  /\ UNCHANGED <<counts, recordings, faults, apart, synced>>

\* read_feedback_events parses a line as one object and skips empty ones.
Parses(line) == line = <<>> \/ (Len(line) = 1 /\ line[1] # Torn)

Readable == \A i \in DOMAIN log : Parses(log[i])

\* Mutant: the last line is not read.
ReadShort(p) ==
  /\ At(p, "read") /\ Readable
  /\ proc' = [proc EXCEPT ![p].step = "manifest", ![p].events = FlattenSeq(Front(log))]
  /\ UNCHANGED <<log, ended, counts, recordings, faults, apart, synced>>

Read(p) ==
  /\ At(p, "read") /\ Readable
  /\ proc' = [proc EXCEPT ![p].step = "manifest", ![p].events = FlattenSeq(log)]
  /\ UNCHANGED <<log, ended, counts, recordings, faults, apart, synced>>

\* The recording ends with an error; what it appended stays.
ReadFails(p) ==
  /\ At(p, "read") /\ ~Readable
  /\ proc' = [proc EXCEPT ![p] = Idle]
  /\ UNCHANGED <<log, ended, counts, recordings, faults, apart, synced>>

\* Mutant: the rating is added to the counts of the manifest.
Increment(p) ==
  /\ At(p, "manifest")
  /\ counts' = [counts EXCEPT !.ratings[proc[p].event.rating] = @ + 1,
                              !.notes = IF proc[p].event.note THEN @ + 1 ELSE @]
  /\ synced' = proc[p].alone
  /\ proc' = [proc EXCEPT ![p] = Idle]
  /\ UNCHANGED <<log, ended, recordings, faults, apart>>

\* update with feedback_summary_patch.
WriteCounts(p) ==
  /\ At(p, "manifest")
  /\ counts' = SummaryOf(proc[p].events)
  /\ synced' = proc[p].alone
  /\ proc' = [proc EXCEPT ![p] = Idle]
  /\ UNCHANGED <<log, ended, recordings, faults, apart>>

\* A write fails, the read fails, or the process dies: what was written stays,
\* a part of the object or the manifest included.
Stop(p) ==
  /\ p \in InProgress
  /\ faults < MaxFaults
  /\ faults' = faults + 1
  /\ proc' = [proc EXCEPT ![p] = Idle]
  /\ \/ UNCHANGED <<log, ended, counts>>
     \/ At(p, "text") /\ log' = Written(Torn) /\ ended' = FALSE /\ UNCHANGED counts
     \/ At(p, "manifest") /\ counts' = SummaryOf(proc[p].events) /\ UNCHANGED <<log, ended>>
  /\ UNCHANGED <<recordings, apart, synced>>

Step(p) ==
  \/ AppendText(p) \/ AppendNewline(p) \/ Read(p) \/ ReadFails(p) \/ WriteCounts(p)
  \/ Stop(p)

AllRecorded ==
  /\ recordings = MaxEvents /\ InProgress = {}
  /\ UNCHANGED vars

Next ==
  \/ \E p \in Procs : Step(p) \/ \E e \in Event : Record(p, e)
  \/ AllRecorded

Spec == Init /\ [][Next]_vars

-----------------------------------------------------------------------------
Object == Event \cup {Torn}

Counts == [ratings : [Ratings -> Nat], notes : Nat]

Recording == [step : Steps, event : Event \cup {None}, events : Seq(Event), alone : BOOLEAN]

(* Types of the state; a process holds an event exactly while it records. *)
TypeOK ==
  /\ log \in Seq(Seq(Object))
  /\ ended \in BOOLEAN /\ (~ended => log # <<>>)
  /\ counts \in Counts
  /\ proc \in [Procs -> Recording]
  /\ \A p \in Procs : At(p, "idle") <=> proc[p].event = None
  /\ recordings \in 0..MaxEvents /\ faults \in 0..MaxFaults
  /\ apart \in BOOLEAN /\ synced \in BOOLEAN

\* The objects of the log, in the order they were written.
Logged == FlattenSeq(log)

\* None of the objects was cut off, and the manifest counts all of them.
Counted(objects) ==
  /\ \A i \in DOMAIN objects : objects[i] # Torn
  /\ counts = SummaryOf(objects)

(* After a recording that succeeded and met no other, and before the next one
   starts, the log holds events only and the manifest counts exactly these:
   the counts also take up what recordings before it appended and then,
   interrupted or overtaken, did not count. *)
Resynced == synced => Counted(Logged)

(* However recordings interleave and wherever they stop, the manifest counts
   the events of a beginning of the log: no event is counted that is not in
   the log, none is counted twice, none is passed over for a later one, and
   nothing behind an object that was cut off is counted. *)
CountsAPrefix ==
  \E n \in 0..Len(Logged) : Counted(SubSeq(Logged, 1, n))

(* Recordings that do not overlap and do not fail leave a log every line of
   which is one event, with as many lines as there were recordings. *)
OneLineEach ==
  apart /\ faults = 0 /\ InProgress = {} =>
    Readable /\ Len(log) = recordings /\ ended

(* Every line of the log is one event, also after recordings by two processes
   at a time: what the test of record_feedback says of it. *)
EveryLineAnEvent ==
  faults = 0 /\ InProgress = {} => \A i \in DOMAIN log : log[i] \in {<<e>> : e \in Event}
===============================================================================
