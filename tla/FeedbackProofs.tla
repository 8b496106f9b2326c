----------------------------- MODULE FeedbackProofs -----------------------------
(***************************************************************************)
(* What holds of the recording of feedback for every number of processes,   *)
(* recordings and faults.                                                  *)
(***************************************************************************)
EXTENDS Feedback, SequenceLemmas

-----------------------------------------------------------------------------
(* The operators. *)

\* The events are those the log begins with.
Begins(events) ==
  /\ events \in Seq(Event)
  /\ Len(events) <= Len(Logged)
  /\ \A i \in 1..Len(events) : events[i] = Logged[i]

\* A summary counts with natural numbers.
LEMMA SummaryType ==
  ASSUME NEW events \in Seq(Event)
  PROVE  SummaryOf(events) \in Counts
  <1>1. Len(events) \in Nat /\ DOMAIN events = 1..Len(events)
    BY LenProperties
  <1>2. IsFiniteSet(DOMAIN events)
    BY <1>1, FS_Interval
  <1>3. ASSUME NEW A, A \subseteq DOMAIN events PROVE Cardinality(A) \in Nat
    BY <1>2, <1>3, FS_Subset, FS_CardinalityType
  <1> DEFINE rated(r) == {i \in DOMAIN events : events[i].rating = r}
             noted == {i \in DOMAIN events : events[i].note}
  <1>4. \A r \in Ratings : Cardinality(rated(r)) \in Nat
    <2>1. TAKE r \in Ratings
    <2>2. rated(r) \subseteq DOMAIN events
      OBVIOUS
    <2> HIDE DEF rated
    <2> QED
      BY <1>3, <2>2
  <1>5. Cardinality(noted) \in Nat
    <2>1. noted \subseteq DOMAIN events
      OBVIOUS
    <2> HIDE DEF noted
    <2> QED
      BY <1>3, <2>1
  <1>6. SummaryOf(events) = [ratings |-> [r \in Ratings |-> Cardinality(rated(r))],
                             notes |-> Cardinality(noted)]
    BY Zenon DEF SummaryOf
  <1> HIDE DEF rated, noted
  <1> QED
    BY <1>4, <1>5, <1>6 DEF Counts

\* Nothing is logged in an empty file.
LEMMA NothingFlat == FlattenSeq(<<>>) = <<>>
  BY DEF FlattenSeq

\* What can be read is a sequence of events.
LEMMA ReadableEvents ==
  ASSUME log \in Seq(Seq(Object)), Readable
  PROVE  FlattenSeq(log) \in Seq(Event)
  <1>1. Len(log) \in Nat /\ DOMAIN log = 1..Len(log) /\ \A i \in 1..Len(log) : log[i] \in Seq(Object)
    BY LenProperties, ElementOfSeq
  <1>2. ASSUME NEW i \in 1..Len(log) PROVE log[i] \in Seq(Event)
    <2>1. CASE log[i] = <<>>
      BY <2>1, EmptySeq
    <2>2. CASE Len(log[i]) = 1 /\ log[i][1] # Torn
      <3>1. log[i] \in Seq(Object) /\ DOMAIN log[i] = 1..1
        BY <1>1, <2>2, LenProperties
      <3>2. log[i] \in [1..1 -> Object]
        BY <1>1, <2>2, LenProperties
      <3>3. log[i][1] \in Event
        BY <2>2, <3>2 DEF Object
      <3>4. log[i] \in [1..1 -> Event]
        BY <3>2, <3>3
      <3> QED
        BY <3>4, FunctionSeq
    <2> QED
      BY <1>1, <2>1, <2>2 DEF Readable, Parses
  <1>3. log \in Seq(Seq(Event))
    <2>1. log \in [1..Len(log) -> Seq(Event)]
      BY <1>1, <1>2, LenProperties
    <2> QED
      BY <1>1, <2>1, FunctionSeq
  <1>4. <<>> \in Seq(Event)
    BY EmptySeq
  <1> QED
    BY <1>3, <1>4, FlattenAppend

\* What a write does to the file.
LEMMA WrittenLog ==
  ASSUME log \in Seq(Seq(Object)), ~ended => log # <<>>, NEW object \in Object
  PROVE  /\ Written(object) \in Seq(Seq(Object)) /\ Written(object) # <<>>
         /\ FlattenSeq(Written(object)) = Append(FlattenSeq(log), object)
  <1>1. <<object>> \in Seq(Object)
    OBVIOUS
  <1>2. FlattenSeq(log) \in Seq(Object)
    BY <1>1, FlattenAppend
  <1>3. CASE ended
    <2>1. PICK line : line = <<object>>
      OBVIOUS
    <2>2. line \in Seq(Object)
      BY <1>1, <2>1
    <2>3. Append(log, line) \in Seq(Seq(Object)) /\ Append(log, line) # <<>>
      BY <2>2, AppendProperties
    <2>4. FlattenSeq(Append(log, line)) = FlattenSeq(log) \o line
      BY <2>2, FlattenAppend
    <2>5. FlattenSeq(log) \o <<object>> = Append(FlattenSeq(log), object)
      BY <1>2, AppendIsConcat
    <2>6. Written(object) = Append(log, line)
      BY <1>3, <2>1 DEF Written
    <2> QED
      BY <2>1, <2>3, <2>4, <2>5, <2>6
  <1>4. CASE ~ended
    <2> DEFINE more == [log EXCEPT ![Len(log)] = Append(@, object)]
    <2>1. Written(object) = more
      BY <1>4 DEF Written
    <2>2. more \in Seq(Seq(Object)) /\ FlattenSeq(more) = Append(FlattenSeq(log), object)
      BY <1>4, FlattenExtend
    <2>3. DOMAIN more = DOMAIN log /\ DOMAIN log # {}
      <3>1. Len(log) \in Nat /\ Len(log) # 0 /\ DOMAIN log = 1..Len(log)
        BY <1>4, EmptySeq, LenProperties
      <3>2. DOMAIN more = DOMAIN log
        OBVIOUS
      <3>3. 1 \in DOMAIN log
        BY <3>1
      <3> HIDE DEF more
      <3> QED
        BY <3>2, <3>3
    <2>4. more # <<>>
      BY <2>3
    <2> HIDE DEF more
    <2> QED
      BY <2>1, <2>2, <2>4
  <1> QED
    BY <1>3, <1>4

\* What an empty line does to it.
LEMMA NewlineLog ==
  ASSUME log \in Seq(Seq(Object))
  PROVE  /\ Append(log, <<>>) \in Seq(Seq(Object)) /\ Append(log, <<>>) # <<>>
         /\ FlattenSeq(Append(log, <<>>)) = FlattenSeq(log)
         /\ FlattenSeq(log) \in Seq(Object)
  <1>1. <<>> \in Seq(Object)
    BY EmptySeq
  <1>2. /\ FlattenSeq(log) \in Seq(Object)
        /\ FlattenSeq(Append(log, <<>>)) = FlattenSeq(log) \o <<>>
    BY <1>1, FlattenAppend
  <1>3. FlattenSeq(log) \o <<>> = FlattenSeq(log)
    BY <1>2, ConcatEmptySeq
  <1> QED
    BY <1>1, <1>2, <1>3, AppendProperties

-----------------------------------------------------------------------------
(* Types. *)

\* What a step of one process leaves of the recordings.
LEMMA StepMoves ==
  ASSUME TypeOK, NEW p \in Procs, Step(p)
  PROVE  /\ proc' \in [Procs -> Recording]
         /\ \A q \in Procs : q # p => proc'[q] = proc[q]
         /\ proc'[p].step # "idle" =>
              proc'[p].event = proc[p].event /\ proc'[p].alone = proc[p].alone
         /\ proc'[p].step = "idle" => proc'[p] = Idle
         /\ proc[p].step # "idle"
         /\ ~(Read(p) \/ AppendText(p) \/ AppendNewline(p)) => proc'[p].step = "idle"
         /\ Read(p) => proc'[p].step = "manifest" /\ proc'[p].events = FlattenSeq(log)
         /\ AppendText(p) => proc'[p].step = "newline"
         /\ AppendNewline(p) => proc'[p].step = "read"
  <1>1. proc \in [Procs -> Recording] /\ proc[p] \in Recording
    BY DEF TypeOK
  <1>2. ASSUME proc' = [proc EXCEPT ![p] = Idle], proc[p].step # "idle"
        PROVE  /\ proc' \in [Procs -> Recording] /\ proc'[p] = Idle /\ Idle.step = "idle"
               /\ \A q \in Procs : q # p => proc'[q] = proc[q]
    <2>1. Idle \in Recording /\ Idle.step = "idle"
      <3>1. <<>> \in Seq(Event)
        BY EmptySeq
      <3> QED
        BY <3>1 DEF Idle, Recording, Steps
    <2> QED
      BY <1>1, <1>2, <2>1
  <1>3. ASSUME NEW s \in Steps, Goto(p, s)
        PROVE  /\ proc' \in [Procs -> Recording]
               /\ proc'[p].step = s /\ proc'[p].event = proc[p].event
               /\ proc'[p].alone = proc[p].alone
               /\ \A q \in Procs : q # p => proc'[q] = proc[q]
    <2>1. proc' = [proc EXCEPT ![p] = [proc[p] EXCEPT !.step = s]]
      BY <1>3 DEF Goto
    <2>2. [proc[p] EXCEPT !.step = s] \in Recording
      BY <1>1 DEF Recording
    <2> QED
      BY <1>1, <2>1, <2>2 DEF Recording
  <1>4. CASE AppendText(p)
    <2>1. Goto(p, "newline") /\ "newline" \in Steps /\ proc[p].step = "text"
      BY <1>4 DEF AppendText, Steps, At
    <2> QED
      BY <1>3, <1>4, <2>1 DEF AppendNewline, Read, At
  <1>5. CASE AppendNewline(p)
    <2>1. Goto(p, "read") /\ "read" \in Steps /\ proc[p].step = "newline"
      BY <1>5 DEF AppendNewline, Steps, At
    <2> QED
      BY <1>3, <1>5, <2>1 DEF AppendText, Read, At
  <1>6. CASE Read(p)
    <2>1. /\ proc' = [proc EXCEPT ![p] = [proc[p] EXCEPT !.step = "manifest",
                                                         !.events = FlattenSeq(log)]]
          /\ proc[p].step = "read" /\ Readable
      BY <1>6 DEF Read, At
    <2>2. FlattenSeq(log) \in Seq(Event)
      BY <2>1, ReadableEvents DEF TypeOK
    <2> DEFINE r == [proc[p] EXCEPT !.step = "manifest", !.events = FlattenSeq(log)]
    <2>3. /\ r.step = "manifest" /\ r.events = FlattenSeq(log)
          /\ r.event = proc[p].event /\ r.alone = proc[p].alone
          /\ r \in Recording
      BY <1>1, <2>2 DEF Recording, Steps
    <2> HIDE DEF r
    <2>4. proc' \in [Procs -> Recording] /\ proc'[p] = r
          /\ \A q \in Procs : q # p => proc'[q] = proc[q]
      <3>1. proc' = [proc EXCEPT ![p] = r]
        BY <2>1 DEF r
      <3> QED
        BY <1>1, <2>3, <3>1
    <2> QED
      BY <1>6, <2>1, <2>3, <2>4 DEF AppendText, AppendNewline, At
  <1>7. CASE ReadFails(p) \/ WriteCounts(p) \/ Stop(p)
    <2>1. proc' = [proc EXCEPT ![p] = Idle] /\ proc[p].step # "idle"
      BY <1>7 DEF ReadFails, WriteCounts, Stop, At, InProgress
    <2>2. ~Read(p) /\ ~AppendText(p) /\ ~AppendNewline(p)
      <3>1. proc'[p].step = "idle"
        BY <1>2, <2>1
      <3>2. ASSUME Read(p) PROVE FALSE
        BY <1>1, <3>1, <3>2 DEF Read, Recording
      <3>3. ASSUME NEW s \in Steps, Goto(p, s), s # "idle" PROVE FALSE
        BY <1>3, <3>1, <3>3
      <3> QED
        BY <3>2, <3>3 DEF AppendText, AppendNewline, Steps
    <2> QED
      BY <1>2, <2>1, <2>2
  <1> QED
    BY <1>4, <1>5, <1>6, <1>7 DEF Step

\* What the start of a recording makes of them.
LEMMA RecordMoves ==
  ASSUME TypeOK, NEW p \in Procs, NEW e \in Event, Record(p, e)
  PROVE  /\ proc' \in [Procs -> Recording]
         /\ proc[p].step = "idle"
         /\ proc'[p].step = "text" /\ proc'[p].event = e
         /\ proc'[p].alone = (InProgress = {})
         /\ \A q \in Procs : q # p =>
              /\ proc'[q].step = proc[q].step /\ proc'[q].event = proc[q].event
              /\ proc'[q].events = proc[q].events
              /\ proc'[q].alone = (q \notin InProgress)
  <1> DEFINE started == [Idle EXCEPT !.step = "text", !.event = e, !.alone = InProgress = {}]
             other(q) == [proc[q] EXCEPT !.alone = q \notin InProgress]
  <1>1. proc \in [Procs -> Recording] /\ \A q \in Procs : proc[q] \in Recording
    BY DEF TypeOK
  <1>2. /\ started \in Recording /\ started.step = "text" /\ started.event = e
        /\ started.alone = (InProgress = {})
    <2>1. <<>> \in Seq(Event)
      BY EmptySeq
    <2> QED
      BY <2>1 DEF Idle, Recording, Steps
  <1>3. ASSUME NEW q \in Procs
        PROVE  /\ other(q) \in Recording /\ other(q).alone = (q \notin InProgress)
               /\ other(q).step = proc[q].step /\ other(q).event = proc[q].event
               /\ other(q).events = proc[q].events
    BY <1>1 DEF Recording
  <1>4. proc' = [q \in Procs |-> IF q = p THEN started ELSE other(q)] /\ proc[p].step = "idle"
    BY DEF Record, At
  <1> HIDE DEF started, other
  <1> QED
    BY <1>2, <1>3, <1>4

\* Every step keeps the types.
LEMMA TypeNext ==
  ASSUME TypeOK, [Next]_vars
  PROVE  TypeOK'
  <1>1. CASE UNCHANGED vars
    BY <1>1 DEF TypeOK, vars, At
  <1>2. ASSUME NEW p \in Procs, NEW e \in Event, Record(p, e) PROVE TypeOK'
    <2>1. proc' \in [Procs -> Recording]
      BY <1>2, RecordMoves
    <2>2. \A q \in Procs : proc'[q].step = "idle" <=> proc'[q].event = None
      <3>1. proc'[p].step = "text" /\ proc'[p].event = e /\ e # None
        BY <1>2, RecordMoves, FeedbackAssumption
      <3>2. \A q \in Procs : q # p =>
              proc'[q].step = proc[q].step /\ proc'[q].event = proc[q].event
        BY <1>2, RecordMoves
      <3>3. \A q \in Procs : proc[q].step = "idle" <=> proc[q].event = None
        BY DEF TypeOK, At
      <3> QED
        BY <3>1, <3>2, <3>3
    <2>3. recordings' \in 0..MaxEvents
      <3>1. recordings < MaxEvents /\ recordings' = recordings + 1
        BY <1>2, Zenon DEF Record
      <3> QED
        BY <3>1, FeedbackAssumption DEF TypeOK
    <2>4. apart' \in BOOLEAN
      BY <1>2 DEF Record
    <2>5. synced' = FALSE /\ UNCHANGED <<log, ended, counts, faults>>
      BY <1>2 DEF Record
    <2> QED
      BY <2>1, <2>2, <2>3, <2>4, <2>5 DEF TypeOK, At
  <1>3. ASSUME NEW p \in Procs, Step(p) PROVE TypeOK'
    <2>1. proc' \in [Procs -> Recording]
      BY <1>3, StepMoves
    <2>2. \A q \in Procs : proc'[q].step = "idle" <=> proc'[q].event = None
      <3>1. Idle.step = "idle" /\ Idle.event = None
        BY DEF Idle
      <3> QED
        BY <1>3, <3>1, StepMoves DEF TypeOK, At
    <2>3. UNCHANGED <<recordings, apart>> /\ faults' \in 0..MaxFaults
      BY <1>3, FeedbackAssumption
         DEF Step, AppendText, AppendNewline, Read, ReadFails, WriteCounts, Stop, TypeOK
    <2>4. synced' \in BOOLEAN
      <3>1. proc[p].alone \in BOOLEAN
        BY DEF TypeOK, Recording
      <3> QED
        BY <1>3, <3>1
           DEF Step, AppendText, AppendNewline, Read, ReadFails, WriteCounts, Stop, TypeOK
    <2>5. counts' \in Counts
      <3>1. SummaryOf(proc[p].events) \in Counts
        BY SummaryType DEF TypeOK, Recording
      <3> QED
        BY <1>3, <3>1
           DEF Step, AppendText, AppendNewline, Read, ReadFails, WriteCounts, Stop, TypeOK
    <2>6. log' \in Seq(Seq(Object)) /\ ended' \in BOOLEAN /\ (~ended' => log' # <<>>)
      <3>1. ASSUME NEW o \in Object, log' = Written(o), ended' = FALSE
            PROVE  log' \in Seq(Seq(Object)) /\ log' # <<>>
        BY <3>1, WrittenLog DEF TypeOK
      <3>2. CASE AppendText(p)
        <4>1. proc[p].event \in Object
          <5>1. proc[p].event \in Event \cup {None} /\ proc[p].event # None
            BY <3>2 DEF AppendText, TypeOK, Recording, At
          <5> QED
            BY <5>1 DEF Object
        <4> QED
          BY <3>1, <3>2, <4>1 DEF AppendText
      <3>3. CASE AppendNewline(p)
        BY <3>3, NewlineLog DEF AppendNewline, TypeOK
      <3>4. CASE Stop(p) /\ log' = Written(Torn) /\ ended' = FALSE
        <4>1. Torn \in Object
          BY DEF Object
        <4> QED
          BY <3>1, <3>4, <4>1
      <3>5. CASE UNCHANGED <<log, ended>>
        BY <3>5 DEF TypeOK
      <3> QED
        BY <1>3, <3>2, <3>3, <3>4, <3>5 DEF Step, Read, ReadFails, WriteCounts, Stop
    <2> QED
      BY <2>1, <2>2, <2>3, <2>4, <2>5, <2>6 DEF TypeOK, At
  <1> QED
    BY <1>1, <1>2, <1>3 DEF Next, AllRecorded

\* The initial state is typed.
LEMMA TypeInit ==
  ASSUME Init
  PROVE  TypeOK
  <1>1. /\ <<>> \in Seq(Seq(Object)) /\ <<>> \in Seq(Event)
    BY EmptySeq
  <1>2. counts \in Counts
    BY <1>1, SummaryType DEF Init
  <1>3. proc \in [Procs -> Recording] /\ \A p \in Procs : proc[p].step = "idle" /\ proc[p].event = None
    BY <1>1 DEF Init, Idle, Recording, Steps
  <1> QED
    BY <1>1, <1>2, <1>3, FeedbackAssumption DEF Init, TypeOK, At

(* The state has its types: a process holds an event exactly while it records
   one, and what a process read back before it writes the counts are events,
   never an object that was cut off. *)
THEOREM TypeCorrect == Spec => []TypeOK
  <1>1. Init => TypeOK
    BY TypeInit
  <1>2. TypeOK /\ [Next]_vars => TypeOK'
    BY TypeNext
  <1> QED
    BY <1>1, <1>2, PTL DEF Spec

-----------------------------------------------------------------------------
(* The log and its beginnings. *)

\* Objects are only ever added at the end of the log.
LEMMA LogGrows ==
  ASSUME TypeOK, [Next]_vars
  PROVE  /\ Logged \in Seq(Object) /\ Logged' \in Seq(Object)
         /\ Logged' = Logged \/ \E o \in Object : Logged' = Append(Logged, o)
  <1>1. ASSUME NEW l \in Seq(Seq(Object)) PROVE FlattenSeq(l) \in Seq(Object)
    BY NewlineLog, FlattenAppend, EmptySeq
  <1>2. Logged \in Seq(Object) /\ Logged' \in Seq(Object)
    <2>1. log \in Seq(Seq(Object)) /\ log' \in Seq(Seq(Object))
      BY TypeNext DEF TypeOK
    <2> QED
      BY <1>1, <2>1 DEF Logged
  <1>3. ASSUME NEW o \in Object, log' = Written(o)
        PROVE  Logged' = Append(Logged, o)
    BY <1>3, WrittenLog DEF TypeOK, Logged
  <1>4. CASE UNCHANGED log
    BY <1>2, <1>4 DEF Logged
  <1>5. ASSUME NEW p \in Procs, AppendText(p) PROVE \E o \in Object : Logged' = Append(Logged, o)
    <2>1. proc[p].event \in Object
      <3>1. proc[p].event \in Event \cup {None} /\ proc[p].event # None
        BY <1>5 DEF AppendText, TypeOK, Recording, At
      <3> QED
        BY <3>1 DEF Object
    <2> QED
      BY <1>3, <1>5, <2>1 DEF AppendText
  <1>6. ASSUME NEW p \in Procs, AppendNewline(p) PROVE Logged' = Logged
    BY <1>6, NewlineLog DEF AppendNewline, TypeOK, Logged
  <1>7. ASSUME log' = Written(Torn) PROVE \E o \in Object : Logged' = Append(Logged, o)
    BY <1>3, <1>7 DEF Object
  <1>8. \/ UNCHANGED log
        \/ \E p \in Procs : AppendText(p) \/ AppendNewline(p)
        \/ log' = Written(Torn)
    BY DEF Next, Step, Record, Read, ReadFails, WriteCounts, Stop, AllRecorded, vars
  <1>9. Logged' = Logged \/ \E o \in Object : Logged' = Append(Logged, o)
    BY <1>4, <1>5, <1>6, <1>7, <1>8
  <1> QED
    BY <1>2, <1>9

\* So a beginning of the log stays one.
LEMMA BeginsKept ==
  ASSUME TypeOK, [Next]_vars, NEW events, Begins(events)
  PROVE  Begins(events)'
  <1> DEFINE L == Logged
             M == Logged'
  <1>1. L \in Seq(Object) /\ (M = L \/ \E o \in Object : M = Append(L, o))
    BY LogGrows
  <1>2. /\ events \in Seq(Event) /\ Len(events) <= Len(L)
        /\ \A i \in 1..Len(events) : events[i] = L[i]
    BY DEF Begins
  <1>3. (Len(events) <= Len(M) /\ \A i \in 1..Len(events) : events[i] = M[i])
          => Begins(events)'
    BY <1>2 DEF Begins
  <1> HIDE DEF L, M
  <1>4. CASE M = L
    BY <1>2, <1>3, <1>4
  <1>5. ASSUME NEW o \in Object, M = Append(L, o) PROVE Begins(events)'
    <2>1. Len(M) = Len(L) + 1 /\ \A i \in 1..Len(L) : M[i] = L[i]
      BY <1>1, <1>5, AppendProperties
    <2>2. Len(L) \in Nat /\ Len(events) \in Nat
      BY <1>1, <1>2, LenProperties
    <2>3. Len(events) <= Len(M) /\ \A i \in 1..Len(events) : i \in 1..Len(L)
      BY <1>2, <2>1, <2>2
    <2> QED
      BY <1>2, <1>3, <2>1, <2>3
  <1> QED
    BY <1>1, <1>4, <1>5

\* What a process reads is the whole log.
LEMMA ReadBegins ==
  ASSUME TypeOK, Readable
  PROVE  Begins(Logged)
  <1>1. Logged \in Seq(Event)
    BY ReadableEvents DEF TypeOK, Logged
  <1>2. Len(Logged) \in Nat
    BY <1>1, LenProperties
  <1> QED
    BY <1>1, <1>2 DEF Begins

\* Events the log begins with are a subsequence of it from the start.
LEMMA BeginsIsPrefix ==
  ASSUME TypeOK, NEW events, Begins(events), counts = SummaryOf(events)
  PROVE  CountsAPrefix
  <1>1. log \in Seq(Seq(Object))
    BY DEF TypeOK
  <1>2. Logged \in Seq(Object)
    BY <1>1, NewlineLog DEF Logged
  <1> DEFINE n == Len(events)
             first == SubSeq(Logged, 1, n)
  <1>3. /\ events \in Seq(Event) /\ n \in Nat /\ n \in 0..Len(Logged)
        /\ \A i \in 1..n : events[i] = Logged[i]
    BY <1>2, LenProperties DEF Begins
  <1>4. \A i \in 1..n : Logged[i] \in Event
    BY <1>3, ElementOfSeq
  <1>5. first \in Seq(Event) /\ Len(first) = n /\ \A i \in 1..n : first[i] = Logged[i]
    <2>1. /\ first \in Seq(Event)
          /\ Len(first) = IF 1 <= n THEN n - 1 + 1 ELSE 0
          /\ \A i \in 1..(n - 1 + 1) : first[i] = Logged[1 + i - 1]
      <3> HIDE DEF n
      <3> QED
        BY <1>3, <1>4, SubSeqProperties
    <2>2. n - 1 + 1 = n /\ (IF 1 <= n THEN n - 1 + 1 ELSE 0) = n /\ \A i \in 1..n : 1 + i - 1 = i
      BY <1>3
    <2> HIDE DEF n, first
    <2> QED
      BY <2>1, <2>2
  <1>6. first = events
    <2> HIDE DEF first
    <2> QED
      BY <1>3, <1>5, SeqEqual
  <1>7. \A i \in DOMAIN events : events[i] # Torn
    BY <1>3, ElementOfSeq, LenProperties, FeedbackAssumption
  <1>8. Counted(first)
    <2> HIDE DEF first
    <2> QED
      BY <1>6, <1>7 DEF Counted
  <1> QED
    BY <1>3, <1>8 DEF CountsAPrefix

-----------------------------------------------------------------------------
(* The manifest counts a beginning of the log. *)

\* What the processes hold between reading and counting is a beginning too.
CountInv ==
  /\ \E events \in Seq(Event) : Begins(events) /\ counts = SummaryOf(events)
  /\ \A p \in Procs : At(p, "manifest") => Begins(proc[p].events)

\* A recording counts what it read, others may have appended since.
LEMMA CountNext ==
  ASSUME TypeOK, CountInv, [Next]_vars
  PROVE  CountInv'
  <1>1. PICK events \in Seq(Event) : Begins(events) /\ counts = SummaryOf(events)
    BY DEF CountInv
  <1>2. ASSUME UNCHANGED counts
        PROVE  \E e \in Seq(Event) : Begins(e)' /\ counts' = SummaryOf(e)
    BY <1>1, <1>2, BeginsKept
  <1>3. ASSUME NEW q \in Procs, At(q, "manifest"), UNCHANGED proc[q]
        PROVE  Begins(proc[q].events)'
    <2>1. PICK e : e = proc[q].events
      OBVIOUS
    <2>2. Begins(e)
      BY <1>3, <2>1 DEF CountInv
    <2>3. Begins(e)'
      BY <2>2, BeginsKept
    <2> QED
      BY <1>3, <2>1, <2>3
  <1>4. CASE UNCHANGED vars
    <2>1. UNCHANGED <<counts, proc>>
      BY <1>4 DEF vars
    <2> QED
      BY <1>2, <1>3, <2>1 DEF CountInv, At
  <1>5. ASSUME NEW p \in Procs, NEW e \in Event, Record(p, e) PROVE CountInv'
    <2>1. UNCHANGED counts
      BY <1>5 DEF Record
    <2>2. ASSUME NEW q \in Procs, proc'[q].step = "manifest" PROVE Begins(proc[q].events)'
      <3>1. q # p /\ proc[q].step = "manifest" /\ proc'[q].events = proc[q].events
        BY <1>5, <2>2, RecordMoves
      <3>2. PICK f : f = proc[q].events
        OBVIOUS
      <3>3. Begins(f)
        BY <3>1, <3>2 DEF CountInv, At
      <3>4. Begins(f)'
        BY <3>3, BeginsKept
      <3> QED
        BY <3>1, <3>2, <3>4
    <2> QED
      BY <1>2, <2>1, <2>2 DEF CountInv, At
  <1>6. ASSUME NEW p \in Procs, Step(p) PROVE CountInv'
    <2>1. ASSUME NEW q \in Procs, proc'[q].step = "manifest" PROVE Begins(proc[q].events)'
      <3>1. CASE q # p
        BY <1>3, <1>6, <2>1, <3>1, StepMoves DEF At
      <3>2. CASE q = p
        <4>1. Read(p)
          BY <1>6, <2>1, <3>2, StepMoves
        <4>2. Readable /\ UNCHANGED log /\ proc'[p].events = Logged
          BY <1>6, <4>1, StepMoves DEF Read, Logged
        <4>3. PICK f : f = Logged
          OBVIOUS
        <4>4. Begins(f)'
          BY <4>2, <4>3, ReadBegins, BeginsKept
        <4> QED
          BY <3>2, <4>2, <4>3, <4>4
      <3> QED
        BY <3>1, <3>2
    <2>2. \E f \in Seq(Event) : Begins(f)' /\ counts' = SummaryOf(f)
      <3>1. CASE UNCHANGED counts
        BY <1>2, <3>1
      <3>2. CASE At(p, "manifest") /\ counts' = SummaryOf(proc[p].events)
        <4>1. PICK f : f = proc[p].events
          OBVIOUS
        <4>2. Begins(f)
          BY <3>2, <4>1 DEF CountInv
        <4>3. Begins(f)' /\ f \in Seq(Event)
          BY <4>2, BeginsKept DEF Begins
        <4> QED
          BY <3>2, <4>1, <4>3
      <3> QED
        BY <1>6, <3>1, <3>2
           DEF Step, AppendText, AppendNewline, Read, ReadFails, WriteCounts, Stop
    <2> QED
      BY <2>1, <2>2 DEF CountInv, At
  <1> QED
    BY <1>4, <1>5, <1>6 DEF Next, AllRecorded

\* At first the log is empty and nothing is counted.
LEMMA CountInit ==
  ASSUME Init
  PROVE  CountInv
  <1>1. <<>> \in Seq(Event) /\ Logged = <<>> /\ Len(<<>>) = 0
    BY EmptySeq, NothingFlat DEF Init, Logged
  <1>2. Begins(<<>>)
    BY <1>1 DEF Begins
  <1>3. \A p \in Procs : ~At(p, "manifest")
    BY DEF Init, At, Idle
  <1> QED
    BY <1>1, <1>2, <1>3 DEF CountInv, Init

(* However recordings interleave and wherever they stop, the manifest counts
   the events of a beginning of the log. *)
THEOREM BeginningCounted == Spec => []CountsAPrefix
  <1>1. Init => TypeOK /\ CountInv
    BY TypeInit, CountInit
  <1>2. TypeOK /\ CountInv /\ [Next]_vars => TypeOK' /\ CountInv'
    BY TypeNext, CountNext
  <1>3. TypeOK /\ CountInv => CountsAPrefix
    BY BeginsIsPrefix DEF CountInv
  <1> QED
    BY <1>1, <1>2, <1>3, PTL DEF Spec

-----------------------------------------------------------------------------
(* A recording that met no other. *)

\* It is the only one in progress and holds the whole log; when it is through,
\* nothing is in progress before the next one starts.
SyncInv ==
  /\ \A p, q \in Procs :
       proc[p].alone /\ ~At(p, "idle") /\ ~At(q, "idle") => q = p
  /\ \A p \in Procs : proc[p].alone /\ At(p, "manifest") => proc[p].events = Logged
  /\ synced => /\ \A p \in Procs : At(p, "idle")
               /\ Begins(Logged) /\ counts = SummaryOf(Logged)

\* The log stays as it is when nothing is appended.
LEMMA LogStays ==
  ASSUME TypeOK, NEW p \in Procs, Step(p), proc'[p].step \notin {"newline", "read", "idle"}
  PROVE  Logged' = Logged
  <1>1. Read(p)
    BY StepMoves
  <1> QED
    BY <1>1 DEF Read, Logged

\* A recording that is alone counts the log as it is.
LEMMA SyncNext ==
  ASSUME TypeOK, CountInv, SyncInv, [Next]_vars
  PROVE  SyncInv'
  <1>1. CASE UNCHANGED vars
    BY <1>1 DEF vars, SyncInv, At, Begins, Logged
  <1>2. ASSUME NEW p \in Procs, NEW e \in Event, Record(p, e) PROVE SyncInv'
    <2>1. synced' = FALSE
      BY <1>2 DEF Record
    <2>2. /\ proc'[p].step = "text" /\ proc'[p].alone = (InProgress = {})
          /\ \A q \in Procs : q # p =>
               proc'[q].step = proc[q].step /\ proc'[q].alone = (q \notin InProgress)
      BY <1>2, RecordMoves
    <2>3. ASSUME NEW q \in Procs, q # p, proc'[q].alone PROVE proc'[q].step = "idle"
      BY <2>2, <2>3 DEF InProgress
    <2>4. ASSUME NEW q \in Procs, q # p, proc'[p].alone PROVE proc'[q].step = "idle"
      BY <2>2, <2>4 DEF InProgress
    <2> QED
      BY <2>1, <2>2, <2>3, <2>4 DEF SyncInv, At
  <1>3. ASSUME NEW p \in Procs, Step(p) PROVE SyncInv'
    <2>1. /\ \A q \in Procs : q # p => proc'[q] = proc[q]
          /\ proc[p].step # "idle"
          /\ proc'[p].step # "idle" => proc'[p].alone = proc[p].alone
      BY <1>3, StepMoves
    <2>2. ~synced
      BY <2>1 DEF SyncInv, At
    <2>3. ASSUME NEW q \in Procs, NEW r \in Procs, proc'[q].alone,
                 proc'[q].step # "idle", proc'[r].step # "idle"
          PROVE  r = q
      BY <2>1, <2>3 DEF SyncInv, At
    <2>4. ASSUME NEW q \in Procs, proc'[q].alone, proc'[q].step = "manifest"
          PROVE  proc'[q].events = Logged'
      <3>1. q = p
        BY <2>1, <2>4 DEF SyncInv, At
      <3>2. Read(p) /\ proc'[p].events = FlattenSeq(log)
        BY <1>3, <2>4, <3>1, StepMoves
      <3> QED
        BY <3>1, <3>2 DEF Read, Logged
    <2>5. ASSUME synced'
          PROVE  /\ \A q \in Procs : proc'[q].step = "idle"
                 /\ Begins(Logged)' /\ counts' = SummaryOf(Logged')
      <3>1. WriteCounts(p)
        BY <1>3, <2>2, <2>5
           DEF Step, AppendText, AppendNewline, Read, ReadFails, Stop
      <3>2. proc[p].alone /\ At(p, "manifest") /\ counts' = SummaryOf(proc[p].events)
            /\ UNCHANGED log
        BY <2>5, <3>1 DEF WriteCounts
      <3>3. Begins(proc[p].events) /\ proc[p].events = Logged
        BY <3>2 DEF CountInv, SyncInv
      <3>4. \A q \in Procs : q # p => proc[q].step = "idle"
        BY <2>1, <3>2 DEF SyncInv, At
      <3>5. proc'[p].step = "idle"
        <4>1. ~Read(p) /\ ~AppendText(p) /\ ~AppendNewline(p)
          BY <3>2 DEF Read, AppendText, AppendNewline, At
        <4> QED
          BY <1>3, <4>1, StepMoves
      <3>6. Begins(Logged)' /\ counts' = SummaryOf(Logged')
        BY <3>2, <3>3 DEF Begins, Logged
      <3> QED
        BY <2>1, <3>4, <3>5, <3>6
    <2> QED
      BY <2>3, <2>4, <2>5 DEF SyncInv, At
  <1> QED
    BY <1>1, <1>2, <1>3 DEF Next, AllRecorded

LEMMA SyncInit ==
  ASSUME Init
  PROVE  SyncInv
  <1>1. \A p \in Procs : proc[p].step = "idle"
    BY DEF Init, Idle
  <1>2. <<>> \in Seq(Event) /\ Logged = <<>> /\ Len(<<>>) = 0
    BY EmptySeq, NothingFlat DEF Init, Logged
  <1>3. Begins(Logged) /\ counts = SummaryOf(Logged)
    BY <1>2 DEF Begins, Init
  <1> QED
    BY <1>1, <1>3 DEF SyncInv, At

(* After a recording that succeeded and met no other, and before the next one
   starts, the log holds events only and the manifest counts exactly these. *)
THEOREM AloneInSync == Spec => []Resynced
  <1>1. Init => TypeOK /\ CountInv /\ SyncInv
    BY TypeInit, CountInit, SyncInit
  <1>2. TypeOK /\ CountInv /\ SyncInv /\ [Next]_vars => TypeOK' /\ CountInv' /\ SyncInv'
    BY TypeNext, CountNext, SyncNext
  <1>3. TypeOK /\ SyncInv => Resynced
    <2> SUFFICES ASSUME TypeOK, SyncInv, synced PROVE Counted(Logged)
      BY DEF Resynced
    <2>1. Logged \in Seq(Event) /\ counts = SummaryOf(Logged)
      BY DEF SyncInv, Begins
    <2>2. \A i \in DOMAIN Logged : Logged[i] # Torn
      BY <2>1, ElementOfSeq, LenProperties, FeedbackAssumption
    <2> QED
      BY <2>1, <2>2 DEF Counted
  <1> QED
    BY <1>1, <1>2, <1>3, PTL DEF Spec

-----------------------------------------------------------------------------
(* Recordings one after the other. *)

\* A line that is one event.
Single(line) == Len(line) = 1 /\ line[1] # Torn

\* The lines are the recordings whose object is written; the last one lacks
\* its line break between the two writes.
LinesInv ==
  apart /\ faults = 0 =>
    /\ \A p, q \in Procs : ~At(p, "idle") /\ ~At(q, "idle") => q = p
    /\ \A i \in DOMAIN log : Single(log[i])
    /\ ended <=> \A p \in Procs : ~At(p, "newline")
    /\ \A p \in Procs : At(p, "text") => recordings = Len(log) + 1
    /\ (\A p \in Procs : ~At(p, "text")) => recordings = Len(log)

\* Lines of one event each can be read.
LEMMA SinglesReadable ==
  ASSUME \A i \in DOMAIN log : Single(log[i])
  PROVE  Readable
  BY DEF Readable, Parses, Single

LEMMA LinesNext ==
  ASSUME TypeOK, LinesInv, [Next]_vars
  PROVE  LinesInv'
  <1> SUFFICES ASSUME apart', faults' = 0
               PROVE  /\ \A p, q \in Procs : ~At(p, "idle")' /\ ~At(q, "idle")' => q = p
                      /\ \A i \in DOMAIN log' : Single(log'[i])
                      /\ ended' <=> \A p \in Procs : ~At(p, "newline")'
                      /\ \A p \in Procs : At(p, "text")' => recordings' = Len(log') + 1
                      /\ (\A p \in Procs : ~At(p, "text")') => recordings' = Len(log')
    BY DEF LinesInv
  <1>1. CASE UNCHANGED vars
    BY <1>1 DEF vars, LinesInv, At
  <1>2. CASE \E p \in Procs, e \in Event : Record(p, e)
    <2>1. PICK p \in Procs, e \in Event : Record(p, e)
      BY <1>2
    <2>2. apart /\ InProgress = {} /\ faults = 0 /\ UNCHANGED <<log, ended>>
      BY <2>1 DEF Record
    <2>3. \A q \in Procs : proc[q].step = "idle"
      BY <2>2 DEF InProgress
    <2>4. /\ proc'[p].step = "text"
          /\ \A q \in Procs : q # p => proc'[q].step = "idle"
      BY <2>1, <2>3, RecordMoves
    <2>5. recordings = Len(log) /\ ended /\ \A i \in DOMAIN log : Single(log[i])
      BY <2>2, <2>3 DEF LinesInv, At
    <2>6. recordings' = Len(log') + 1
      <3>1. recordings' = recordings + 1
        BY <2>1, Zenon DEF Record
      <3> QED
        BY <2>2, <2>5, <3>1
    <2> QED
      BY <2>2, <2>4, <2>5, <2>6 DEF At
  <1>3. CASE \E p \in Procs : Step(p)
    <2>1. PICK p \in Procs : Step(p)
      BY <1>3
    <2>2. UNCHANGED <<recordings, apart>> /\ faults = 0 /\ ~Stop(p)
      <3>1. ~Stop(p)
        <4> SUFFICES ASSUME Stop(p) PROVE FALSE
          OBVIOUS
        <4>1. faults' = faults + 1
          BY DEF Stop
        <4>2. faults \in Nat
          BY FeedbackAssumption DEF TypeOK
        <4> QED
          BY <4>1, <4>2
      <3> QED
        BY <2>1, <3>1 DEF Step, AppendText, AppendNewline, Read, ReadFails, WriteCounts
    <2>3. /\ \A q \in Procs : q # p => proc'[q] = proc[q]
          /\ proc[p].step # "idle"
      BY <2>1, StepMoves
    <2>4. /\ \A q \in Procs : q # p => proc[q].step = "idle"
          /\ \A i \in DOMAIN log : Single(log[i])
          /\ ended <=> proc[p].step # "newline"
          /\ proc[p].step = "text" => recordings = Len(log) + 1
          /\ proc[p].step # "text" => recordings = Len(log)
      BY <2>2, <2>3 DEF LinesInv, At
    <2>5. \A q \in Procs : q # p => proc'[q].step = "idle"
      BY <2>3, <2>4
    <2>6. ASSUME /\ \A i \in DOMAIN log' : Single(log'[i])
                 /\ ended' <=> proc'[p].step # "newline"
                 /\ proc'[p].step # "text" /\ recordings' = Len(log')
          PROVE  /\ \A q, r \in Procs : ~At(q, "idle")' /\ ~At(r, "idle")' => r = q
                 /\ \A i \in DOMAIN log' : Single(log'[i])
                 /\ ended' <=> \A q \in Procs : ~At(q, "newline")'
                 /\ \A q \in Procs : At(q, "text")' => recordings' = Len(log') + 1
                 /\ (\A q \in Procs : ~At(q, "text")') => recordings' = Len(log')
      BY <2>5, <2>6 DEF At
    <2>7. CASE AppendText(p)
      <3>1. /\ proc[p].step = "text" /\ ended /\ proc[p].event \in Event
            /\ ended' = FALSE /\ log' = Append(log, <<proc[p].event>>)
        <4>1. proc[p].step = "text" /\ ended' = FALSE /\ log' = Written(proc[p].event)
          BY <2>7 DEF AppendText, At
        <4>2. ended
          BY <2>4, <4>1
        <4>3. proc[p].event \in Event \cup {None} /\ proc[p].event # None
          BY <4>1 DEF TypeOK, Recording, At
        <4> QED
          BY <4>1, <4>2, <4>3 DEF Written
      <3>2. PICK line : line = <<proc[p].event>>
        OBVIOUS
      <3>3. line \in Seq(Object) /\ Single(line)
        BY <3>1, <3>2, FeedbackAssumption DEF Object, Single
      <3>4. /\ log' \in Seq(Seq(Object)) /\ Len(log') = Len(log) + 1
            /\ \A i \in 1..Len(log) : log'[i] = log[i]
            /\ log'[Len(log) + 1] = line
        BY <3>1, <3>2, <3>3, AppendProperties DEF TypeOK
      <3>5. /\ Len(log) \in Nat /\ DOMAIN log = 1..Len(log) /\ DOMAIN log' = 1..(Len(log) + 1)
        BY <3>4, LenProperties DEF TypeOK
      <3>6. ASSUME NEW i \in DOMAIN log' PROVE Single(log'[i])
        <4>1. i \in 1..Len(log) \/ i = Len(log) + 1
          BY <3>5
        <4> QED
          BY <2>4, <3>3, <3>4, <3>5, <4>1
      <3>7. proc'[p].step = "newline"
        BY <2>1, <2>7, StepMoves
      <3>8. recordings' = Len(log')
        BY <2>2, <2>4, <3>1, <3>4
      <3> QED
        BY <2>6, <3>1, <3>6, <3>7, <3>8
    <2>8. CASE AppendNewline(p)
      <3>1. proc[p].step = "newline" /\ ~ended /\ UNCHANGED log /\ ended' = TRUE
        BY <2>4, <2>8 DEF AppendNewline, At
      <3>2. proc'[p].step = "read"
        BY <2>1, <2>8, StepMoves
      <3> QED
        BY <2>2, <2>4, <2>6, <3>1, <3>2
    <2>9. CASE Read(p) \/ ReadFails(p) \/ WriteCounts(p)
      <3>1. /\ UNCHANGED <<log, ended>> /\ proc[p].step \in {"read", "manifest"}
        BY <2>9 DEF Read, ReadFails, WriteCounts, At
      <3>2. proc'[p].step \in {"manifest", "idle"}
        <4>1. ~AppendText(p) /\ ~AppendNewline(p)
          BY <3>1 DEF AppendText, AppendNewline, At
        <4> QED
          BY <2>1, <4>1, StepMoves
      <3> QED
        BY <2>2, <2>4, <2>6, <3>1, <3>2
    <2> QED
      BY <2>1, <2>2, <2>7, <2>8, <2>9 DEF Step
  <1> QED
    BY <1>1, <1>2, <1>3 DEF Next, AllRecorded

LEMMA LinesInit ==
  ASSUME Init
  PROVE  LinesInv
  <1>1. \A p \in Procs : proc[p].step = "idle"
    BY DEF Init, Idle
  <1>2. DOMAIN log = {} /\ Len(log) = 0 /\ recordings = 0 /\ ended
    BY DEF Init
  <1> QED
    BY <1>1, <1>2 DEF LinesInv, At

(* Recordings that do not overlap and do not fail leave a log every line of
   which is one event, with as many lines as there were recordings. *)
THEOREM ApartOneLineEach == Spec => []OneLineEach
  <1>1. Init => TypeOK /\ LinesInv
    BY TypeInit, LinesInit
  <1>2. TypeOK /\ LinesInv /\ [Next]_vars => TypeOK' /\ LinesInv'
    BY TypeNext, LinesNext
  <1>3. LinesInv => OneLineEach
    <2> SUFFICES ASSUME LinesInv, apart, faults = 0, InProgress = {}
                 PROVE  Readable /\ Len(log) = recordings /\ ended
      BY DEF OneLineEach
    <2>1. \A p \in Procs : proc[p].step = "idle"
      BY DEF InProgress
    <2>2. (\A i \in DOMAIN log : Single(log[i])) /\ recordings = Len(log) /\ ended
      BY <2>1 DEF LinesInv, At
    <2> QED
      BY <2>2, SinglesReadable
  <1> QED
    BY <1>1, <1>2, <1>3, PTL DEF Spec

=============================================================================
