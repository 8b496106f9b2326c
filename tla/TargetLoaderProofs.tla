-------------------------- MODULE TargetLoaderProofs --------------------------
(***************************************************************************)
(* What the configuration loader promises, for any number of files,        *)
(* directories, imports, schemas and targets: every file is loaded once,   *)
(* the result is what the import graph calls for, and the order in which   *)
(* the files are met makes no difference to the targets.                   *)
(*                                                                         *)
(* Inv types the state.  PathOK follows the depth-first search: what a     *)
(* frame was asked for is loaded, is ahead of it, or is the frame above.   *)
(* GraphOK relates the search to the import graph, OriginOK the resolved   *)
(* targets to the declarations, TableOK and TargetsOK the table of schemas *)
(* to the files loaded so far.                                             *)
(***************************************************************************)
EXTENDS TargetLoader, SequenceLemmas, TLAPS

TypeOK ==
  /\ content \in [Files -> Content \cup {Unreadable}]
  /\ listing \in [Dirs -> Seq(Files)]
  /\ root \in Files \cup Dirs
  /\ stack \in Seq(Frame)
  /\ visited \in SUBSET Files
  /\ schemas \in [SchemaNames -> Schema \cup {None}]
  /\ loaded \in Seq(Files)
  /\ targets \in Seq(Resolved)
  /\ result \in Results

\* The bottom frame is the caller, the others are files that were read.
FramesOK ==
  /\ stack # <<>>
  /\ stack[1].file = None
  /\ \A i \in DOMAIN stack :
       i > 1 => stack[i].file \in Files /\ content[stack[i].file] # Unreadable
  /\ \A f \in visited : content[f] # Unreadable

Inv == TypeOK /\ FramesOK

-----------------------------------------------------------------------------
(***************************************************************************)
(* The stack before and after a step.                                      *)
(***************************************************************************)
Paths == Files \cup Dirs

LEMMA Frames ==
  ASSUME Inv
  PROVE  /\ Len(stack) \in Nat \ {0} /\ DOMAIN stack = 1..Len(stack)
         /\ Top = stack[Len(stack)] /\ Top \in Frame /\ Top.todo \in Seq(Paths)
         /\ \A i \in 1..Len(stack) :
              /\ stack[i] \in Frame
              /\ stack[i].file \in Files \cup {None}
              /\ stack[i].todo \in Seq(Paths)
  <1>1. stack \in Seq(Frame) /\ stack # <<>>
    BY DEF Inv, TypeOK, FramesOK
  <1>2. Len(stack) \in Nat \ {0} /\ DOMAIN stack = 1..Len(stack)
    BY <1>1, EmptySeq, LenProperties
  <1>3. \A i \in 1..Len(stack) : stack[i] \in Frame
    BY <1>1, ElementOfSeq
  <1>4. \A fr \in Frame : fr.file \in Files \cup {None} /\ fr.todo \in Seq(Paths)
    BY DEF Frame, Paths
  <1>5. Top = stack[Len(stack)] /\ Len(stack) \in 1..Len(stack)
    BY <1>2 DEF Top, Last
  <1> QED
    BY <1>2, <1>3, <1>4, <1>5

\* The top frame alone goes on with other paths.
LEMMA Redirected ==
  ASSUME Inv, NEW todo \in Seq(Paths), NEW new, new = Todo(todo)
  PROVE  /\ new \in Seq(Frame) /\ Len(new) = Len(stack)
         /\ DOMAIN new = DOMAIN stack
         /\ \A i \in 1..Len(stack) :
              /\ new[i].file = stack[i].file
              /\ i # Len(stack) => new[i] = stack[i]
         /\ new[Len(stack)].todo = todo
  <1> DEFINE n == Len(stack)
             fr == [stack[n] EXCEPT !.todo = todo]
  <1>1. stack \in Seq(Frame) /\ n \in 1..n /\ stack[n] \in Frame
    BY Frames DEF Inv, TypeOK
  <1>2. fr \in Frame /\ fr.file = stack[n].file /\ fr.todo = todo
    BY <1>1 DEF Frame, Paths
  <1>3. new = [stack EXCEPT ![n] = fr]
    BY <1>1 DEF Todo
  <1> HIDE DEF fr
  <1>4. /\ new \in Seq(Frame) /\ Len(new) = n
        /\ \A j \in 1..n : new[j] = IF j = n THEN fr ELSE stack[j]
    BY <1>1, <1>2, <1>3, ExceptSeq
  <1>5. DOMAIN new = 1..n /\ DOMAIN stack = 1..n
    BY <1>1, <1>4, LenProperties
  <1> QED
    BY <1>1, <1>2, <1>4, <1>5

LEMMA NextPathFacts ==
  ASSUME Inv, HasImport
  PROVE  /\ NextPath \in Paths /\ Tail(Top.todo) \in Seq(Paths)
         /\ Range(Top.todo) = {NextPath} \cup Range(Tail(Top.todo))
  <1>1. Top.todo \in Seq(Paths) /\ Top.todo # <<>>
    BY Frames DEF HasImport
  <1> DEFINE s == Top.todo
  <1>2. /\ Head(s) \in Paths /\ Tail(s) \in Seq(Paths)
        /\ Len(s) \in Nat \ {0} /\ DOMAIN s = 1..Len(s) /\ Head(s) = s[1]
        /\ Len(Tail(s)) = Len(s) - 1
        /\ DOMAIN Tail(s) = 1..Len(Tail(s))
        /\ \A i \in 1..Len(Tail(s)) : Tail(s)[i] = s[i+1]
    BY <1>1, HeadTailProperties, EmptySeq, LenProperties
  <1> HIDE DEF s
  <1>3. Range(s) = {Head(s)} \cup Range(Tail(s))
    <2>1. ASSUME NEW x \in Range(s) PROVE x \in {Head(s)} \cup Range(Tail(s))
      <3>1. PICK i \in 1..Len(s) : x = s[i]
        BY <1>2 DEF Range
      <3>2. CASE i = 1
        BY <1>2, <3>1, <3>2
      <3>3. CASE i # 1
        <4>1. i - 1 \in 1..Len(Tail(s)) /\ (i - 1) + 1 = i
          BY <1>2, <3>3
        <4>2. Tail(s)[i - 1] = s[i]
          BY <1>2, <4>1
        <4> QED
          BY <1>2, <3>1, <4>1, <4>2 DEF Range
      <3> QED
        BY <3>2, <3>3
    <2>2. Head(s) \in Range(s)
      BY <1>2 DEF Range
    <2>3. ASSUME NEW x \in Range(Tail(s)) PROVE x \in Range(s)
      <3>1. PICK i \in 1..Len(Tail(s)) : x = Tail(s)[i]
        BY <1>2 DEF Range
      <3>2. x = s[i + 1] /\ i + 1 \in 1..Len(s)
        BY <1>2, <3>1
      <3> QED
        BY <1>2, <3>2 DEF Range
    <2> QED
      BY <2>1, <2>2, <2>3
  <1> QED
    BY <1>2, <1>3 DEF NextPath, s

\* A file is entered: a frame on top of the one that imports it.
LEMMA Entered ==
  ASSUME Inv, EnterFile
  PROVE  /\ stack' \in Seq(Frame) /\ Len(stack') = Len(stack) + 1
         /\ DOMAIN stack' = 1..(Len(stack) + 1)
         /\ \A i \in 1..Len(stack) :
              /\ stack'[i].file = stack[i].file
              /\ i # Len(stack) => stack'[i] = stack[i]
         /\ stack'[Len(stack)].todo = Tail(Top.todo)
         /\ stack'[Len(stack) + 1] =
              [file |-> NextPath, todo |-> content[NextPath].imports]
         /\ NextPath \in Files /\ content[NextPath] \in Content
         /\ content[NextPath].imports \in Seq(Paths)
  <1>1. /\ HasImport /\ NextPath \in Files /\ content[NextPath] # Unreadable
        /\ stack' = Append(Todo(Tail(Top.todo)),
                      [file |-> NextPath, todo |-> content[NextPath].imports])
    BY DEF EnterFile
  <1>2. PICK rest, mid : rest = Tail(Top.todo) /\ mid = Todo(rest)
    OBVIOUS
  <1>3. rest \in Seq(Paths)
    BY <1>1, <1>2, NextPathFacts
  <1>4. /\ mid \in Seq(Frame) /\ Len(mid) = Len(stack)
        /\ \A i \in 1..Len(stack) :
             /\ mid[i].file = stack[i].file
             /\ i # Len(stack) => mid[i] = stack[i]
        /\ mid[Len(stack)].todo = rest
    <2>1. mid = Todo(rest)
      BY <1>2
    <2>2. rest \in Seq(Paths)
      BY <1>3
    <2>3. mid \in Seq(Frame)
      BY <2>1, <2>2, Redirected
    <2> QED
      BY <2>1, <2>2, Redirected
  <1>5. content[NextPath] \in Content
    BY <1>1 DEF Inv, TypeOK
  <1>6. content[NextPath].imports \in Seq(Paths)
    BY <1>5 DEF Content, Paths
  <1>7. PICK top : top = [file |-> NextPath, todo |-> content[NextPath].imports]
    OBVIOUS
  <1>8. top \in Frame
    BY <1>1, <1>6, <1>7 DEF Frame, Paths
  <1>9. /\ stack' \in Seq(Frame) /\ Len(stack') = Len(mid) + 1
        /\ \A i \in 1..Len(mid) : stack'[i] = mid[i]
        /\ stack'[Len(mid) + 1] = top
    BY <1>1, <1>2, <1>4, <1>7, <1>8, AppendProperties
  <1>10. DOMAIN stack' = 1..Len(stack')
    BY <1>9, LenProperties
  <1>11. Len(stack) \in 1..Len(stack)
    BY Frames
  <1> QED
    BY <1>1, <1>2, <1>4, <1>5, <1>6, <1>7, <1>9, <1>10, <1>11

\* A file is left: its frame goes.
LEMMA Left ==
  ASSUME Inv, LeaveFile
  PROVE  /\ stack' \in Seq(Frame) /\ Len(stack) > 1 /\ Len(stack') = Len(stack) - 1
         /\ DOMAIN stack' = 1..(Len(stack) - 1)
         /\ \A i \in 1..(Len(stack) - 1) : stack'[i] = stack[i]
         /\ Top = stack[Len(stack)] /\ Top.todo = <<>>
         /\ Top.file \in Files /\ content[Top.file] \in Content
  <1>1. FileDone /\ stack' = Front(stack)
    BY DEF LeaveFile
  <1>2. /\ Len(stack) \in Nat \ {0} /\ DOMAIN stack = 1..Len(stack)
        /\ Top = stack[Len(stack)]
        /\ \A i \in 1..Len(stack) : stack[i] \in Frame
    BY Frames
  <1>3. Top.file # None /\ Top.todo = <<>>
    BY <1>1 DEF FileDone
  <1>4. Len(stack) > 1
    BY <1>2, <1>3 DEF Inv, FramesOK
  <1>5. Top.file \in Files /\ content[Top.file] \in Content
    BY <1>2, <1>4 DEF Inv, TypeOK, FramesOK
  <1>6. stack' = SubSeq(stack, 1, Len(stack) - 1)
    BY <1>1 DEF Front
  <1> DEFINE m == Len(stack) - 1
  <1>7. m \in Int /\ m \in Nat /\ 1 <= m /\ m - 1 + 1 = m /\ \A i \in 1..m : stack[i] \in Frame
    BY <1>2, <1>4
  <1>8. /\ SubSeq(stack, 1, m) \in Seq(Frame)
        /\ Len(SubSeq(stack, 1, m)) = m
        /\ \A i \in 1..m : SubSeq(stack, 1, m)[i] = stack[i]
    <2> HIDE DEF m
    <2>1. /\ SubSeq(stack, 1, m) \in Seq(Frame)
          /\ Len(SubSeq(stack, 1, m)) = IF 1 <= m THEN m-1+1 ELSE 0
          /\ \A i \in 1 .. m-1+1 : SubSeq(stack, 1, m)[i] = stack[1+i-1]
      BY <1>7, SubSeqProperties
    <2> QED
      BY <1>7, <2>1
  <1>9. DOMAIN SubSeq(stack, 1, m) = 1..m
    BY <1>8, LenProperties
  <1> QED
    BY <1>2, <1>3, <1>4, <1>5, <1>6, <1>8, <1>9

-----------------------------------------------------------------------------
(***************************************************************************)
(* Types.                                                                  *)
(***************************************************************************)
LEMMA InitInv == Init => Inv
  <1> SUFFICES ASSUME Init PROVE Inv
    OBVIOUS
  <1>1. content \in [Files -> Content \cup {Unreadable}]
    BY ContentAssumption DEF Init
  <1>2. listing \in [Dirs -> Seq(Files)]
    BY ContentAssumption DEF Init
  <1>3. root \in Files \cup Dirs
    BY PathAssumption DEF Init
  <1>4. PICK first : first = [file |-> None, todo |-> <<root>>]
    OBVIOUS
  <1>5. first \in Frame /\ first.file = None
    BY <1>3, <1>4 DEF Frame
  <1>6. stack = <<first>>
    BY <1>4 DEF Init
  <1>7. stack \in Seq(Frame) /\ stack # <<>> /\ stack[1] = first /\ DOMAIN stack = 1..1
    BY <1>5, <1>6
  <1>8. schemas \in [SchemaNames -> Schema \cup {None}]
    BY DEF Init
  <1>9. visited = {} /\ loaded \in Seq(Files) /\ targets \in Seq(Resolved) /\ result \in Results
    BY DEF Init, Results
  <1> QED
    BY <1>1, <1>2, <1>3, <1>5, <1>7, <1>8, <1>9 DEF Inv, TypeOK, FramesOK

\* No step changes what is on disk or what was asked for.
LEMMA GivenStays ==
  ASSUME [Next]_vars
  PROVE  content' = content /\ listing' = listing /\ root' = root
  BY DEF Next, Step, Returned, vars, given, Stop, ImportDirectory, SkipLoaded,
         ReportCycle, ReportUnreadable, EnterFile, ReportSchema, ReportTarget,
         LeaveFile, ReportName, Succeed

\* The steps that end the load, and the stutterings.
Ended ==
  /\ UNCHANGED <<given, stack, visited, schemas, loaded, targets>>
  /\ result' \in Results

\* What a step is, for the proofs that only look at the shape of the stack.
LEMMA Steps ==
  ASSUME Inv, [Next]_vars
  PROVE  ImportDirectory \/ SkipLoaded \/ EnterFile \/ LeaveFile \/ Ended
  <1>1. CASE ReportCycle \/ ReportUnreadable \/ ReportSchema \/ ReportTarget
             \/ ReportName \/ Succeed
    BY <1>1 DEF ReportCycle, ReportUnreadable, ReportSchema, ReportTarget,
                ReportName, Succeed, Stop, Ended, Results
  <1>2. CASE UNCHANGED vars
    BY <1>2 DEF vars, given, Ended, Inv, TypeOK
  <1> QED
    BY <1>1, <1>2 DEF Next, Step, Returned

\* The two steps that move the top frame on to other paths.
Onward(todo) ==
  /\ stack' = Todo(todo)
  /\ UNCHANGED <<given, visited, schemas, loaded, targets, result>>

LEMMA OnwardSteps ==
  ASSUME Inv, ImportDirectory \/ SkipLoaded
  PROVE  \E todo \in Seq(Paths) :
           /\ HasImport /\ Onward(todo)
           /\ \/ NextPath \in Dirs /\ todo = listing[NextPath] \o Tail(Top.todo)
              \/ /\ NextPath \in Files /\ AlreadyLoaded(NextPath)
                 /\ todo = Tail(Top.todo)
  <1>1. CASE ImportDirectory
    <2>1. HasImport /\ NextPath \in Dirs
      BY <1>1 DEF ImportDirectory
    <2>2. PICK rest, list : rest = Tail(Top.todo) /\ list = listing[NextPath]
      OBVIOUS
    <2>3. rest \in Seq(Paths)
      BY <2>1, <2>2, NextPathFacts
    <2>4. list \in Seq(Paths)
      <3>1. list \in Seq(Files)
        BY <2>1, <2>2 DEF Inv, TypeOK
      <3> QED
        BY <3>1, SeqMonotonic DEF Paths
    <2>5. list \o rest \in Seq(Paths)
      BY <2>3, <2>4, ConcatProperties
    <2>6. Onward(list \o rest)
      BY <1>1, <2>2 DEF ImportDirectory, Onward
    <2> QED
      BY <2>1, <2>2, <2>5, <2>6
  <1>2. CASE SkipLoaded
    <2>1. HasImport /\ NextPath \in Files /\ AlreadyLoaded(NextPath)
      BY <1>2 DEF SkipLoaded
    <2>2. PICK rest : rest = Tail(Top.todo)
      OBVIOUS
    <2>3. rest \in Seq(Paths)
      BY <2>1, <2>2, NextPathFacts
    <2>4. Onward(rest)
      BY <1>2, <2>2 DEF SkipLoaded, Onward
    <2> QED
      BY <2>1, <2>2, <2>3, <2>4
  <1> QED
    BY <1>1, <1>2

\* The declarations of a file that is read.
LEMMA DeclaredSchemas ==
  ASSUME Inv, NEW f \in Files, content[f] # Unreadable
  PROVE  /\ Declared(f) \subseteq Schema
         /\ content[f].targets \in Seq(Target)
         /\ Range(content[f].targets) \subseteq Target
  <1>1. content[f] \in Content
    BY DEF Inv, TypeOK
  <1>2. content[f].schemas \in Seq(Schema) /\ content[f].targets \in Seq(Target)
    BY <1>1 DEF Content
  <1> QED
    BY <1>2, RangeOfSeq DEF Declared

LEMMA RegisteredType ==
  ASSUME Inv, NEW declared \in SUBSET Schema
  PROVE  Registered(declared) \in [SchemaNames -> Schema \cup {None}]
  <1>1. \A n \in SchemaNames : (\E s \in declared : s.name = n) =>
          (CHOOSE s \in declared : s.name = n) \in Schema
    OBVIOUS
  <1> QED
    BY <1>1 DEF Registered, Inv, TypeOK

LEMMA ResolvedType ==
  ASSUME NEW table \in [SchemaNames -> Schema \cup {None}],
         NEW t \in Target, Resolvable(t, table)
  PROVE  ResolvedTarget(t, table) \in Resolved
  <1>1. t.name \in Names /\ t.schema \in SchemaNames \cup {None} /\ t.nodes \in Seq(Blocks)
    BY DEF Target
  <1>2. t.schema # None => table[t.schema].nodes \in Seq(Blocks)
    BY <1>1 DEF Resolvable, Schema
  <1>3. NodesOf(t, table) \in Seq(Blocks)
    BY <1>1, <1>2, ConcatProperties DEF NodesOf
  <1> QED
    BY <1>1, <1>3 DEF ResolvedTarget, Resolved

\* The targets of a file, resolved in order.
ResolvedAll(own, table) == [i \in DOMAIN own |-> ResolvedTarget(own[i], table)]

\* What the end of a file does, beside taking its frame away.
LEMMA LeftFacts ==
  ASSUME Inv, LeaveFile,
         NEW f, f = Top.file, NEW table, table = Registered(Declared(f)),
         NEW own, own = content[f].targets,
         NEW more, more = ResolvedAll(own, table)
  PROVE  /\ f \in Files /\ content[f] # Unreadable /\ content[f] \in Content
         /\ ~Conflicts(Declared(f))
         /\ \A t \in Range(own) : Resolvable(t, table)
         /\ Declared(f) \subseteq Schema
         /\ table \in [SchemaNames -> Schema \cup {None}] /\ schemas' = table
         /\ own \in Seq(Target) /\ more \in Seq(Resolved) /\ Len(more) = Len(own)
         /\ DOMAIN more = DOMAIN own /\ DOMAIN own = 1..Len(own)
         /\ targets' = targets \o more
         /\ visited' = visited \cup {f} /\ loaded' = Append(loaded, f)
         /\ UNCHANGED <<content, listing, root, result>>
  <1>1. /\ ~Conflicts(Declared(f))
        /\ \A t \in Range(own) : Resolvable(t, table)
        /\ schemas' = table /\ targets' = targets \o more
        /\ visited' = visited \cup {f} /\ loaded' = Append(loaded, f)
        /\ UNCHANGED <<content, listing, root, result>>
    BY DEF LeaveFile, given, ResolvedAll
  <1>2. f \in Files /\ content[f] \in Content
    BY Left
  <1>3. content[f] # Unreadable
    BY <1>2, ContentAssumption
  <1>4. Declared(f) \subseteq Schema /\ own \in Seq(Target) /\ Range(own) \subseteq Target
    BY <1>2, <1>3, DeclaredSchemas
  <1>5. table \in [SchemaNames -> Schema \cup {None}]
    BY <1>4, RegisteredType
  <1>6. Len(own) \in Nat /\ DOMAIN own = 1..Len(own)
    BY <1>4, LenProperties
  <1>7. \A i \in 1..Len(own) : own[i] \in Target /\ own[i] \in Range(own)
    BY <1>4, <1>6, ElementOfSeq DEF Range
  <1>8. \A i \in 1..Len(own) : ResolvedTarget(own[i], table) \in Resolved
    BY <1>1, <1>5, <1>7, ResolvedType
  <1>9. more \in [1..Len(own) -> Resolved]
    BY <1>6, <1>8 DEF ResolvedAll
  <1>10. more \in Seq(Resolved) /\ Len(more) = Len(own) /\ DOMAIN more = 1..Len(own)
    BY <1>6, <1>9, SeqDef
  <1> QED
    BY <1>1, <1>2, <1>3, <1>4, <1>5, <1>6, <1>10

LEMMA NextInv == Inv /\ [Next]_vars => Inv'
  <1> SUFFICES ASSUME Inv, [Next]_vars PROVE Inv'
    OBVIOUS
  <1>0. TypeOK /\ FramesOK /\ content' = content /\ listing' = listing /\ root' = root
    BY GivenStays DEF Inv
  <1>1. CASE Ended
    BY <1>0, <1>1 DEF Ended, given, Inv, TypeOK, FramesOK
  <1>2. CASE ImportDirectory \/ SkipLoaded
    <2>1. PICK todo \in Seq(Paths) : HasImport /\ Onward(todo)
      BY <1>2, OnwardSteps
    <2>2. stack' = Todo(todo) /\ UNCHANGED <<visited, schemas, loaded, targets, result>>
      BY <2>1 DEF Onward
    <2>3. /\ stack' \in Seq(Frame) /\ Len(stack') = Len(stack)
          /\ DOMAIN stack' = DOMAIN stack
          /\ \A i \in 1..Len(stack) : stack'[i].file = stack[i].file
      <3>1. PICK new : new = Todo(todo)
        OBVIOUS
      <3>2. /\ new \in Seq(Frame) /\ Len(new) = Len(stack)
            /\ DOMAIN new = DOMAIN stack
            /\ \A i \in 1..Len(stack) : new[i].file = stack[i].file
        BY <3>1, Redirected
      <3> QED
        BY <2>2, <3>1, <3>2
    <2>4. Len(stack) \in Nat \ {0} /\ DOMAIN stack = 1..Len(stack)
      BY Frames
    <2>5. stack' # <<>>
      BY <2>3, <2>4
    <2>6. FramesOK'
      BY <1>0, <2>2, <2>3, <2>4, <2>5 DEF FramesOK
    <2> QED
      BY <1>0, <2>2, <2>3, <2>6 DEF Inv, TypeOK
  <1>3. CASE EnterFile
    <2>1. UNCHANGED <<visited, schemas, loaded, targets, result>>
      BY <1>3 DEF EnterFile
    <2>2. /\ stack' \in Seq(Frame) /\ Len(stack') = Len(stack) + 1
          /\ DOMAIN stack' = 1..(Len(stack) + 1)
          /\ \A i \in 1..Len(stack) : stack'[i].file = stack[i].file
          /\ stack'[Len(stack) + 1].file = NextPath
          /\ NextPath \in Files /\ content[NextPath] \in Content
      BY <1>3, Entered
    <2>3. Len(stack) \in Nat \ {0} /\ DOMAIN stack = 1..Len(stack)
      BY Frames
    <2>4. stack' # <<>>
      BY <2>2, <2>3
    <2>5. content[NextPath] # Unreadable
      BY <2>2, ContentAssumption
    <2>6. \A i \in DOMAIN stack' : i \in 1..Len(stack) \/ i = Len(stack) + 1
      BY <2>2, <2>3
    <2>7. FramesOK'
      BY <1>0, <2>1, <2>2, <2>3, <2>4, <2>5, <2>6 DEF FramesOK
    <2> QED
      BY <1>0, <2>1, <2>2, <2>7 DEF Inv, TypeOK
  <1>4. CASE LeaveFile
    <2>1. PICK f, table, own, more :
            /\ f = Top.file /\ table = Registered(Declared(f)) /\ own = content[f].targets
            /\ more = ResolvedAll(own, table)
      OBVIOUS
    <2>2. /\ f \in Files /\ content[f] # Unreadable
          /\ table \in [SchemaNames -> Schema \cup {None}] /\ schemas' = table
          /\ more \in Seq(Resolved) /\ targets' = targets \o more
          /\ visited' = visited \cup {f} /\ loaded' = Append(loaded, f)
          /\ result' = result
      BY <1>4, <2>1, LeftFacts
    <2>3. /\ stack' \in Seq(Frame) /\ Len(stack) > 1 /\ Len(stack') = Len(stack) - 1
          /\ DOMAIN stack' = 1..(Len(stack) - 1)
          /\ \A i \in 1..(Len(stack) - 1) : stack'[i] = stack[i]
      BY <1>4, Left
    <2>4. Len(stack) \in Nat \ {0} /\ DOMAIN stack = 1..Len(stack)
      BY Frames
    <2>5. stack' # <<>>
      BY <2>3, <2>4
    <2>6. 1 \in 1..(Len(stack) - 1) /\ 1..(Len(stack) - 1) \subseteq DOMAIN stack
      BY <2>3, <2>4
    <2>7. FramesOK'
      BY <1>0, <2>2, <2>3, <2>5, <2>6 DEF FramesOK
    <2>8. targets' \in Seq(Resolved) /\ loaded' \in Seq(Files)
      BY <1>0, <2>2, ConcatProperties, AppendProperties DEF TypeOK
    <2> QED
      BY <1>0, <2>2, <2>3, <2>7, <2>8 DEF Inv, TypeOK
  <1> QED
    BY <1>1, <1>2, <1>3, <1>4, Steps

LEMMA InvAlways == Spec => []Inv
  BY InitInv, NextInv, PTL DEF Spec

-----------------------------------------------------------------------------
(***************************************************************************)
(* Every file is loaded once.                                              *)
(***************************************************************************)

\* The files of the stack, by their frames.
LEMMA VisitingFrames ==
  ASSUME Inv
  PROVE  /\ \A f \in Visiting : \E i \in 1..Len(stack) : i > 1 /\ f = stack[i].file
         /\ \A i \in 1..Len(stack) : i > 1 => stack[i].file \in Visiting
         /\ Visiting \subseteq Files
  <1>1. Len(stack) \in Nat \ {0} /\ DOMAIN stack = 1..Len(stack)
    BY Frames
  <1>2. /\ stack[1].file = None
        /\ \A i \in 1..Len(stack) : i > 1 => stack[i].file \in Files
    BY <1>1 DEF Inv, FramesOK
  <1> QED
    BY <1>1, <1>2, PathAssumption DEF Visiting

LEMMA InitOnce == Init => LoadedOnce
  <1> SUFFICES ASSUME Init PROVE LoadedOnce
    OBVIOUS
  <1>1. Inv
    BY InitInv
  <1>2. loaded = <<>> /\ visited = {} /\ Len(stack) = 1
    BY DEF Init
  <1>3. DOMAIN loaded = {} /\ Range(loaded) = {}
    BY <1>2 DEF Range
  <1>4. DOMAIN stack = 1..1
    BY <1>1, <1>2, Frames
  <1> QED
    BY <1>2, <1>3, <1>4 DEF LoadedOnce

LEMMA NextOnce == Inv /\ LoadedOnce /\ [Next]_vars => LoadedOnce'
  <1> SUFFICES ASSUME Inv, LoadedOnce, [Next]_vars PROVE LoadedOnce'
    OBVIOUS
  <1>0. Len(stack) \in Nat \ {0} /\ DOMAIN stack = 1..Len(stack) /\ Inv'
    BY Frames, NextInv
  <1>1. CASE Ended
    BY <1>1 DEF Ended, LoadedOnce, Visiting
  <1>2. CASE ImportDirectory \/ SkipLoaded
    <2>1. PICK todo \in Seq(Paths) : HasImport /\ Onward(todo)
      BY <1>2, OnwardSteps
    <2>2. stack' = Todo(todo) /\ UNCHANGED <<visited, schemas, loaded, targets, result>>
      BY <2>1 DEF Onward
    <2>3. DOMAIN stack' = DOMAIN stack /\ \A i \in DOMAIN stack : stack'[i].file = stack[i].file
      <3>1. PICK new : new = Todo(todo)
        OBVIOUS
      <3>2. DOMAIN new = DOMAIN stack /\ \A i \in 1..Len(stack) : new[i].file = stack[i].file
        BY <3>1, Redirected
      <3> QED
        BY <1>0, <2>2, <3>1, <3>2
    <2>4. Visiting' = Visiting
      BY <2>3 DEF Visiting
    <2> QED
      BY <2>2, <2>3, <2>4 DEF LoadedOnce
  <1>3. CASE EnterFile
    <2>1. /\ visited' = visited /\ loaded' = loaded
          /\ ~AlreadyLoaded(NextPath) /\ ~BeingLoaded(NextPath)
      BY <1>3 DEF EnterFile
    <2>2. PICK f : f = NextPath
      OBVIOUS
    <2>3. /\ DOMAIN stack' = 1..(Len(stack) + 1)
          /\ \A i \in 1..Len(stack) : stack'[i].file = stack[i].file
          /\ stack'[Len(stack) + 1].file = f /\ f \in Files
      BY <1>3, <2>2, Entered
    <2>4. f \notin visited /\ f \notin Visiting /\ f # None
      BY <2>1, <2>2, <2>3, PathAssumption DEF AlreadyLoaded, BeingLoaded
    <2>5. \A i \in 1..Len(stack) : stack[i].file # f
      BY <1>0, <2>4 DEF Visiting
    <2>6. \A i \in DOMAIN stack' : i \in 1..Len(stack) \/ i = Len(stack) + 1
      BY <1>0, <2>3
    <2>7. \A i, j \in DOMAIN stack' : stack'[i].file = stack'[j].file => i = j
      BY <1>0, <2>3, <2>5, <2>6 DEF LoadedOnce
    <2>8. Visiting' \subseteq Visiting \cup {f}
      BY <1>0, <2>3, <2>6 DEF Visiting
    <2> QED
      BY <2>1, <2>4, <2>7, <2>8 DEF LoadedOnce
  <1>4. CASE LeaveFile
    <2>1. PICK f : f = Top.file
      OBVIOUS
    <2>2. visited' = visited \cup {f} /\ loaded' = Append(loaded, f)
      BY <1>4, <2>1 DEF LeaveFile
    <2>3. /\ Len(stack) > 1 /\ DOMAIN stack' = 1..(Len(stack) - 1)
          /\ \A i \in 1..(Len(stack) - 1) : stack'[i] = stack[i]
          /\ f = stack[Len(stack)].file /\ f \in Files
      BY <1>4, <2>1, Left
    <2>4. f \in Visiting /\ f \notin visited
      BY <1>0, <2>3, VisitingFrames DEF LoadedOnce
    <2>5. \A i \in 1..(Len(stack) - 1) : stack'[i].file # f /\ i \in DOMAIN stack
      BY <1>0, <2>3 DEF LoadedOnce
    <2>6. Visiting' \subseteq Visiting \ {f}
      BY <2>3, <2>5 DEF Visiting
    <2>7. \A i, j \in DOMAIN stack' : stack'[i].file = stack'[j].file => i = j
      BY <2>3, <2>5 DEF LoadedOnce
    <2>8. /\ loaded \in Seq(Files) /\ Len(loaded) \in Nat /\ DOMAIN loaded = 1..Len(loaded)
          /\ loaded' \in Seq(Files) /\ Len(loaded') = Len(loaded) + 1
          /\ \A i \in 1..Len(loaded) : loaded'[i] = loaded[i]
          /\ loaded'[Len(loaded) + 1] = f
      BY <2>2, <2>3, AppendProperties, LenProperties DEF Inv, TypeOK
    <2>9. DOMAIN loaded' = 1..(Len(loaded) + 1)
      BY <2>8, LenProperties
    <2>10. \A i \in DOMAIN loaded' : i \in 1..Len(loaded) \/ i = Len(loaded) + 1
      BY <2>8, <2>9
    <2>11. \A i \in 1..Len(loaded) : loaded[i] # f
      BY <2>4, <2>8 DEF LoadedOnce, Range
    <2>12. \A i, j \in DOMAIN loaded' : loaded'[i] = loaded'[j] => i = j
      BY <2>8, <2>9, <2>10, <2>11 DEF LoadedOnce
    <2>13. Range(loaded') = Range(loaded) \cup {f}
      BY <2>8, <2>9, <2>10 DEF Range
    <2> QED
      BY <2>2, <2>6, <2>7, <2>12, <2>13 DEF LoadedOnce
  <1> QED
    BY <1>1, <1>2, <1>3, <1>4, Steps

(* However often files and directories import a file, it is loaded once, and
   never while it is being loaded: load_targets_from_config_file with its sets
   visiting and visited. *)
THEOREM FilesLoadedOnce == Spec => []LoadedOnce
  <1>1. Init => Inv /\ LoadedOnce
    BY InitInv, InitOnce
  <1>2. (Inv /\ LoadedOnce) /\ [Next]_vars => (Inv /\ LoadedOnce)'
    BY NextInv, NextOnce
  <1> QED
    BY <1>1, <1>2, PTL DEF Spec

-----------------------------------------------------------------------------
(***************************************************************************)
(* The import graph.                                                       *)
(***************************************************************************)

\* The files that the paths of "todo" lead to.
LeadsTo(todo) == UNION {FilesAt(p) : p \in Range(todo)}

\* What a frame must see loaded before it ends.
Needed(i) ==
  IF stack[i].file = None THEN FilesAt(root) ELSE Imports(stack[i].file)

\* The files a frame has ahead of it.
Ahead(i) == LeadsTo(stack[i].todo)

\* A frame goes on only to what it was asked for, and of that it has all loaded
\* but what is ahead of it and the frame above.
PathOK ==
  \A i \in DOMAIN stack :
    /\ Ahead(i) \subseteq Needed(i)
    /\ \A f \in Needed(i) : \/ f \in visited \cup Ahead(i)
                            \/ i < Len(stack) /\ f = stack[i + 1].file
    /\ i > 1 => stack[i].file \in Needed(i - 1)

GraphOK ==
  /\ visited \cup Visiting \subseteq Reach(FilesAt(root))
  /\ ClosedUnderImports(visited)
  /\ \A f \in visited : ~Cyclic(f)
  /\ \A i, j \in DOMAIN stack :
       1 < i /\ i < j => stack[j].file \in Reach(Imports(stack[i].file))

LEMMA FilesAtType ==
  ASSUME Inv
  PROVE  /\ \A p \in Paths : FilesAt(p) \subseteq Files
         /\ \A f \in Files : FilesAt(f) = {f}
         /\ FilesAt(root) \subseteq Files
  <1>1. \A d \in Dirs : Range(listing[d]) \subseteq Files
    BY RangeOfSeq DEF Inv, TypeOK
  <1>2. root \in Paths
    BY DEF Inv, TypeOK, Paths
  <1> QED
    BY <1>1, <1>2, PathAssumption DEF FilesAt, Paths

LEMMA LeadsToType ==
  ASSUME Inv, NEW todo \in Seq(Paths)
  PROVE  LeadsTo(todo) \subseteq Files
  <1>1. Range(todo) \subseteq Paths
    BY RangeOfSeq
  <1> QED
    BY <1>1, FilesAtType DEF LeadsTo

LEMMA ImportsType ==
  ASSUME Inv, NEW f \in Files
  PROVE  /\ Imports(f) \subseteq Files
         /\ content[f] # Unreadable => Imports(f) = LeadsTo(content[f].imports)
  <1>1. CASE content[f] = Unreadable
    BY <1>1 DEF Imports
  <1>2. CASE content[f] # Unreadable
    <2>1. content[f] \in Content
      BY <1>2 DEF Inv, TypeOK
    <2>2. PICK todo : todo = content[f].imports
      OBVIOUS
    <2>3. todo \in Seq(Paths)
      BY <2>1, <2>2 DEF Content, Paths
    <2>4. Imports(f) = LeadsTo(todo)
      BY <1>2, <2>2 DEF Imports, LeadsTo
    <2> QED
      BY <2>2, <2>3, <2>4, LeadsToType
  <1> QED
    BY <1>1, <1>2

\* Reach(S) is the least set that has S and is closed under imports.
LEMMA ReachLeast ==
  ASSUME Inv, NEW S \in SUBSET Files
  PROVE  /\ S \subseteq Reach(S) /\ Reach(S) \subseteq Files
         /\ ClosedUnderImports(Reach(S))
         /\ \A C \in SUBSET Files : S \subseteq C /\ ClosedUnderImports(C) => Reach(S) \subseteq C
  <1>1. S \subseteq Reach(S) /\ Reach(S) \subseteq Files
    BY DEF Reach
  <1>2. ASSUME NEW C \in SUBSET Files, S \subseteq C, ClosedUnderImports(C)
        PROVE  Reach(S) \subseteq C
    BY <1>2 DEF Reach
  <1>3. ASSUME NEW f \in Reach(S), NEW g \in Imports(f)
        PROVE  g \in Reach(S)
    <2>1. f \in Files /\ g \in Files
      BY <1>1, <1>3, ImportsType
    <2>2. ASSUME NEW C \in SUBSET Files, S \subseteq C, ClosedUnderImports(C)
          PROVE  g \in C
      <3>1. f \in C
        BY <1>2, <2>2
      <3> QED
        BY <2>2, <3>1, <1>3 DEF ClosedUnderImports
    <2> QED
      BY <2>1, <2>2 DEF Reach
  <1> QED
    BY <1>1, <1>2, <1>3 DEF ClosedUnderImports

\* What is reached does not change, for nothing that is on disk does.
LEMMA GraphStays ==
  ASSUME [Next]_vars
  PROVE  /\ \A p : FilesAt(p)' = FilesAt(p)
         /\ \A todo : LeadsTo(todo)' = LeadsTo(todo)
         /\ \A f : Imports(f)' = Imports(f)
         /\ \A C : ClosedUnderImports(C)' = ClosedUnderImports(C)
         /\ \A S : Reach(S)' = Reach(S)
         /\ \A f : Cyclic(f)' = Cyclic(f)
  <1>1. content' = content /\ listing' = listing
    BY GivenStays
  <1>2. ASSUME NEW p PROVE FilesAt(p)' = FilesAt(p)
    BY <1>1 DEF FilesAt
  <1>3. ASSUME NEW todo PROVE LeadsTo(todo)' = LeadsTo(todo)
    BY <1>1 DEF LeadsTo, FilesAt
  <1>4. ASSUME NEW f PROVE Imports(f)' = Imports(f)
    BY <1>1 DEF Imports, FilesAt
  <1>5. ASSUME NEW C PROVE ClosedUnderImports(C)' = ClosedUnderImports(C)
    BY <1>1 DEF ClosedUnderImports, Imports, FilesAt
  <1>6. ASSUME NEW S PROVE Reach(S)' = Reach(S)
    BY <1>1 DEF Reach, ClosedUnderImports, Imports, FilesAt
  <1>7. ASSUME NEW f PROVE Cyclic(f)' = Cyclic(f)
    BY <1>1 DEF Cyclic, Reach, ClosedUnderImports, Imports, FilesAt
  <1> QED
    BY <1>2, <1>3, <1>4, <1>5, <1>6, <1>7

LEMMA LeadsToConcat ==
  ASSUME NEW s \in Seq(Paths), NEW t \in Seq(Paths)
  PROVE  LeadsTo(s \o t) = LeadsTo(s) \cup LeadsTo(t)
  <1>1. Range(s \o t) = Range(s) \cup Range(t)
    BY RangeConcatenation
  <1> QED
    BY <1>1 DEF LeadsTo

\* What is ahead of the top frame is what its next path leads to and the rest.
LEMMA AheadOfTop ==
  ASSUME Inv, HasImport, NEW rest, rest = Tail(Top.todo)
  PROVE  Ahead(Len(stack)) = FilesAt(NextPath) \cup LeadsTo(rest)
  <1>1. Range(Top.todo) = {NextPath} \cup Range(rest)
    BY NextPathFacts
  <1>2. Top = stack[Len(stack)]
    BY Frames
  <1> QED
    BY <1>1, <1>2 DEF Ahead, LeadsTo

\* A frame that stays keeps what it was asked for, and what it has ahead.
LEMMA FrameStays ==
  ASSUME [Next]_vars, NEW i
  PROVE  /\ stack'[i].file = stack[i].file => Needed(i)' = Needed(i)
         /\ \A todo : stack'[i].todo = todo => Ahead(i)' = LeadsTo(todo)
         /\ stack'[i] = stack[i] => Ahead(i)' = Ahead(i)
  <1>1. content' = content /\ listing' = listing /\ root' = root
    BY GivenStays
  <1>2. ASSUME stack'[i].file = stack[i].file PROVE Needed(i)' = Needed(i)
    BY <1>1, <1>2 DEF Needed, Imports, FilesAt
  <1>3. ASSUME NEW todo, stack'[i].todo = todo PROVE Ahead(i)' = LeadsTo(todo)
    BY <1>1, <1>3 DEF Ahead, LeadsTo, FilesAt
  <1>4. ASSUME stack'[i] = stack[i] PROVE Ahead(i)' = Ahead(i)
    BY <1>1, <1>4 DEF Ahead, LeadsTo, FilesAt
  <1> QED
    BY <1>2, <1>3, <1>4

LEMMA InitPath == Init => PathOK
  <1> SUFFICES ASSUME Init PROVE PathOK
    OBVIOUS
  <1>1. Inv
    BY InitInv
  <1>2. stack[1].file = None /\ stack[1].todo = <<root>> /\ Len(stack) = 1
    BY DEF Init
  <1>3. DOMAIN stack = 1..1
    BY <1>1, <1>2, Frames
  <1>4. Range(<<root>>) = {root}
    BY DEF Range
  <1>5. Ahead(1) = FilesAt(root) /\ Needed(1) = FilesAt(root)
    BY <1>2, <1>4 DEF Ahead, LeadsTo, Needed
  <1> QED
    BY <1>3, <1>5 DEF PathOK

LEMMA NextPathOK == Inv /\ LoadedOnce /\ PathOK /\ [Next]_vars => PathOK'
  <1> SUFFICES ASSUME Inv, LoadedOnce, PathOK, [Next]_vars PROVE PathOK'
    OBVIOUS
  <1>n. PICK n : n = Len(stack)
    OBVIOUS
  <1>0. n = Len(stack) /\ n \in Nat \ {0} /\ DOMAIN stack = 1..n /\ n \in 1..n
    <2>1. n \in Nat \ {0} /\ DOMAIN stack = 1..n
      BY <1>n, Frames
    <2> QED
      BY <1>n, <2>1
  <1>1. CASE Ended
    <2>1. visited' = visited /\ stack' = stack
      BY <1>1 DEF Ended
    <2>2. \A i \in 1..n : Needed(i)' = Needed(i) /\ Ahead(i)' = Ahead(i)
      BY <2>1, FrameStays
    <2> QED
      BY <1>0, <2>1, <2>2 DEF PathOK
  <1>2. CASE ImportDirectory \/ SkipLoaded
    <2>1. PICK todo \in Seq(Paths) :
            /\ HasImport /\ Onward(todo)
            /\ \/ NextPath \in Dirs /\ todo = listing[NextPath] \o Tail(Top.todo)
               \/ /\ NextPath \in Files /\ AlreadyLoaded(NextPath)
                  /\ todo = Tail(Top.todo)
      BY <1>2, OnwardSteps
    <2>2. stack' = Todo(todo) /\ visited' = visited
      BY <2>1 DEF Onward
    <2>3. /\ DOMAIN stack' = DOMAIN stack /\ Len(stack') = n
          /\ \A i \in 1..n : stack'[i].file = stack[i].file
          /\ \A i \in 1..n : i # n => stack'[i] = stack[i]
          /\ stack'[n].todo = todo
      <3>1. PICK new : new = Todo(todo)
        OBVIOUS
      <3>2. /\ DOMAIN new = DOMAIN stack /\ Len(new) = n
            /\ \A i \in 1..n : new[i].file = stack[i].file
            /\ \A i \in 1..n : i # n => new[i] = stack[i]
            /\ new[n].todo = todo
        BY <1>0, <3>1, Redirected
      <3> QED
        BY <2>2, <3>1, <3>2
    <2>4. PICK rest, path : rest = Tail(Top.todo) /\ path = NextPath
      OBVIOUS
    <2>5. rest \in Seq(Paths) /\ Ahead(n) = FilesAt(path) \cup LeadsTo(rest)
      BY <1>0, <2>1, <2>4, NextPathFacts, AheadOfTop
    <2>6. LeadsTo(todo) \subseteq Ahead(n) /\ Ahead(n) \subseteq visited \cup LeadsTo(todo)
      <3>1. CASE path \in Dirs /\ todo = listing[path] \o rest
        <4>1. PICK list : list = listing[path]
          OBVIOUS
        <4>2. list \in Seq(Files)
          BY <3>1, <4>1 DEF Inv, TypeOK
        <4>3. list \in Seq(Paths)
          BY <4>2, SeqMonotonic DEF Paths
        <4>4. LeadsTo(todo) = LeadsTo(list) \cup LeadsTo(rest)
          BY <2>5, <3>1, <4>1, <4>3, LeadsToConcat
        <4>5. \A f \in Range(list) : FilesAt(f) = {f}
          BY <4>2, RangeOfSeq, FilesAtType
        <4>6. LeadsTo(list) = Range(list)
          BY <4>5 DEF LeadsTo
        <4>7. FilesAt(path) = Range(list)
          BY <3>1, <4>1 DEF FilesAt
        <4> QED
          BY <2>5, <4>4, <4>6, <4>7
      <3>2. CASE path \in Files /\ AlreadyLoaded(path) /\ todo = rest
        <4>1. FilesAt(path) = {path} /\ path \in visited
          BY <3>2, FilesAtType DEF AlreadyLoaded
        <4> QED
          BY <2>5, <3>2, <4>1
      <3> QED
        BY <2>1, <2>4, <3>1, <3>2
    <2>7. /\ \A i \in 1..n : Needed(i)' = Needed(i)
          /\ \A i \in 1..n : i # n => Ahead(i)' = Ahead(i)
          /\ Ahead(n)' = LeadsTo(todo)
      BY <1>0, <2>3, FrameStays
    <2>8. ASSUME NEW i \in 1..n
          PROVE  /\ Ahead(i)' \subseteq Needed(i)'
                 /\ \A f \in Needed(i)' : \/ f \in visited' \cup Ahead(i)'
                                          \/ i < n /\ f = stack'[i + 1].file
                 /\ i > 1 => stack'[i].file \in Needed(i - 1)'
      <3>1. /\ Ahead(i) \subseteq Needed(i)
            /\ \A f \in Needed(i) : \/ f \in visited \cup Ahead(i)
                                    \/ i < n /\ f = stack[i + 1].file
            /\ i > 1 => stack[i].file \in Needed(i - 1)
        BY <1>0 DEF PathOK
      <3>2. i < n => i + 1 \in 1..n
        BY <1>0
      <3>3. i > 1 => i - 1 \in 1..n
        BY <1>0
      <3>4. i < n => stack'[i + 1].file = stack[i + 1].file
        BY <2>3, <3>2
      <3>5. i > 1 => stack'[i].file \in Needed(i - 1)'
        BY <2>3, <2>7, <3>1, <3>3
      <3>6. Ahead(i)' \subseteq Ahead(i) /\ Ahead(i) \subseteq visited \cup Ahead(i)'
        BY <2>6, <2>7
      <3> QED
        BY <2>2, <2>7, <3>1, <3>4, <3>5, <3>6
    <2> QED
      BY <1>0, <2>3, <2>8 DEF PathOK
  <1>3. CASE EnterFile
    <2>1. HasImport /\ visited' = visited
      BY <1>3 DEF EnterFile
    <2>2. PICK f, rest, todo :
            f = NextPath /\ rest = Tail(Top.todo) /\ todo = content[f].imports
      OBVIOUS
    <2>3. /\ DOMAIN stack' = 1..(n + 1) /\ Len(stack') = n + 1
          /\ \A i \in 1..n : stack'[i].file = stack[i].file
          /\ \A i \in 1..n : i # n => stack'[i] = stack[i]
          /\ stack'[n].todo = rest
          /\ stack'[n + 1].file = f /\ stack'[n + 1].todo = todo
          /\ f \in Files /\ content[f] \in Content
      BY <1>0, <1>3, <2>2, Entered
    <2>4. Ahead(n) = {f} \cup LeadsTo(rest)
      BY <1>0, <2>1, <2>2, <2>3, AheadOfTop, FilesAtType
    <2>5. /\ \A i \in 1..n : Needed(i)' = Needed(i)
          /\ \A i \in 1..n : i # n => Ahead(i)' = Ahead(i)
          /\ Ahead(n)' = LeadsTo(rest)
          /\ Ahead(n + 1)' = LeadsTo(todo)
      BY <1>0, <2>3, FrameStays
    <2>6. Needed(n + 1)' = LeadsTo(todo)
      <3>1. content[f] # Unreadable /\ f # None
        BY <2>3, PathAssumption, ContentAssumption
      <3>2. Imports(f) = LeadsTo(todo)
        BY <2>2, <2>3, <3>1, ImportsType
      <3>3. PICK k : k = n + 1
        OBVIOUS
      <3>4. Needed(k)' = Imports(f)
        BY <2>3, <3>1, <3>3, GivenStays DEF Needed, Imports, FilesAt
      <3> QED
        BY <3>2, <3>3, <3>4
    <2>7. ASSUME NEW i \in 1..n
          PROVE  /\ Ahead(i)' \subseteq Needed(i)'
                 /\ \A g \in Needed(i)' : \/ g \in visited' \cup Ahead(i)'
                                          \/ i < n + 1 /\ g = stack'[i + 1].file
                 /\ i > 1 => stack'[i].file \in Needed(i - 1)'
      <3>1. /\ Ahead(i) \subseteq Needed(i)
            /\ \A g \in Needed(i) : \/ g \in visited \cup Ahead(i)
                                    \/ i < n /\ g = stack[i + 1].file
            /\ i > 1 => stack[i].file \in Needed(i - 1)
        BY <1>0 DEF PathOK
      <3>2. i < n => i + 1 \in 1..n
        BY <1>0
      <3>3. i > 1 => i - 1 \in 1..n
        BY <1>0
      <3>4. i < n => stack'[i + 1].file = stack[i + 1].file
        BY <2>3, <3>2
      <3>5. i > 1 => stack'[i].file \in Needed(i - 1)'
        BY <2>3, <2>5, <3>1, <3>3
      <3>6. CASE i = n
        <4>1. \A g \in Needed(i) : g \in visited \cup {f} \cup LeadsTo(rest)
          BY <1>0, <2>4, <3>1, <3>6
        <4>2. i < n + 1 /\ f = stack'[i + 1].file
          BY <1>0, <2>3, <3>6
        <4> QED
          BY <2>1, <2>4, <2>5, <3>1, <3>5, <3>6, <4>1, <4>2
      <3>7. CASE i # n
        <4>1. i < n /\ i < n + 1
          BY <1>0, <3>7
        <4> QED
          BY <2>1, <2>5, <3>1, <3>4, <3>5, <3>7, <4>1
      <3> QED
        BY <3>6, <3>7
    <2>8. /\ Ahead(n + 1)' \subseteq Needed(n + 1)'
          /\ \A g \in Needed(n + 1)' : g \in Ahead(n + 1)'
          /\ stack'[n + 1].file \in Needed(n)'
      <3>1. f \in Needed(n)
        BY <1>0, <2>4 DEF PathOK
      <3> QED
        BY <1>0, <2>3, <2>5, <2>6, <3>1
    <2>9. (n + 1) - 1 = n /\ \A i \in 1..(n + 1) : i \in 1..n \/ i = n + 1
      BY <1>0
    <2>10. ASSUME NEW i \in 1..(n + 1)
           PROVE  /\ Ahead(i)' \subseteq Needed(i)'
                  /\ \A g \in Needed(i)' : \/ g \in visited' \cup Ahead(i)'
                                           \/ i < n + 1 /\ g = stack'[i + 1].file
                  /\ i > 1 => stack'[i].file \in Needed(i - 1)'
      <3>1. CASE i \in 1..n
        BY <2>7, <3>1
      <3>2. CASE i = n + 1
        BY <2>8, <2>9, <3>2
      <3> QED
        BY <2>9, <3>1, <3>2
    <2> QED
      BY <2>3, <2>10 DEF PathOK
  <1>4. CASE LeaveFile
    <2>1. PICK f : f = Top.file
      OBVIOUS
    <2>2. visited' = visited \cup {f}
      BY <1>4, <2>1 DEF LeaveFile
    <2>3. /\ n > 1 /\ DOMAIN stack' = 1..(n - 1) /\ Len(stack') = n - 1
          /\ \A i \in 1..(n - 1) : stack'[i] = stack[i]
          /\ f = stack[n].file
      BY <1>0, <1>4, <2>1, Left
    <2>4. \A i \in 1..(n - 1) : Needed(i)' = Needed(i) /\ Ahead(i)' = Ahead(i)
      BY <2>3, FrameStays
    <2>5. ASSUME NEW i \in 1..(n - 1)
          PROVE  /\ Ahead(i)' \subseteq Needed(i)'
                 /\ \A g \in Needed(i)' : \/ g \in visited' \cup Ahead(i)'
                                          \/ i < n - 1 /\ g = stack'[i + 1].file
                 /\ i > 1 => stack'[i].file \in Needed(i - 1)'
      <3>0. i \in 1..n /\ i < n
        BY <1>0
      <3>1. /\ Ahead(i) \subseteq Needed(i)
            /\ \A g \in Needed(i) : g \in visited \cup Ahead(i) \/ g = stack[i + 1].file
            /\ i > 1 => stack[i].file \in Needed(i - 1)
        BY <1>0, <3>0 DEF PathOK
      <3>2. i > 1 => i - 1 \in 1..(n - 1)
        BY <1>0
      <3>3. i > 1 => stack'[i].file \in Needed(i - 1)'
        BY <2>3, <2>4, <3>1, <3>2
      <3>4. CASE i = n - 1
        <4>1. i + 1 = n
          BY <1>0, <3>4
        <4>2. stack[i + 1].file = f
          BY <2>3, <4>1
        <4> QED
          BY <2>2, <2>4, <3>1, <3>3, <4>2
      <3>5. CASE i # n - 1
        <4>1. i < n - 1 /\ i + 1 \in 1..(n - 1)
          BY <1>0, <3>5
        <4>2. stack'[i + 1].file = stack[i + 1].file
          BY <2>3, <4>1
        <4> QED
          BY <2>2, <2>4, <3>1, <3>3, <4>1, <4>2
      <3> QED
        BY <3>4, <3>5
    <2> QED
      BY <2>3, <2>5 DEF PathOK
  <1> QED
    BY <1>1, <1>2, <1>3, <1>4, Steps

\* What the visited files and the frames are below is reached from the root.
LEMMA NeededReached ==
  ASSUME Inv, GraphOK, NEW i \in 1..Len(stack)
  PROVE  Needed(i) \subseteq Reach(FilesAt(root))
  <1>1. PICK S : S = FilesAt(root)
    OBVIOUS
  <1>2. S \in SUBSET Files
    BY <1>1, FilesAtType
  <1>3. CASE stack[i].file = None
    BY <1>1, <1>2, <1>3, ReachLeast DEF Needed
  <1>4. CASE stack[i].file # None
    <2>1. stack[i].file \in Visiting
      BY <1>4, Frames DEF Visiting
    <2>2. stack[i].file \in Reach(S)
      BY <1>1, <2>1 DEF GraphOK
    <2>3. ClosedUnderImports(Reach(S))
      BY <1>2, ReachLeast
    <2> QED
      BY <1>1, <1>4, <2>2, <2>3 DEF Needed, ClosedUnderImports
  <1> QED
    BY <1>3, <1>4

\* What a frame needs is reached from the imports of every file frame below it,
\* and from its own.
LEMMA NeededBelow ==
  ASSUME Inv, GraphOK, NEW i \in 1..Len(stack), NEW j \in 1..Len(stack),
         1 < i, i <= j
  PROVE  Needed(j) \subseteq Reach(Imports(stack[i].file))
  <1>1. Len(stack) \in Nat \ {0} /\ DOMAIN stack = 1..Len(stack)
    BY Frames
  <1>2. stack[i].file \in Files /\ stack[j].file \in Files
    BY <1>1 DEF Inv, FramesOK
  <1>3. PICK S, g : S = Imports(stack[i].file) /\ g = stack[j].file
    OBVIOUS
  <1>4. S \in SUBSET Files
    BY <1>2, <1>3, ImportsType
  <1>5. Needed(j) = Imports(g)
    BY <1>2, <1>3, PathAssumption DEF Needed
  <1>6. CASE i = j
    BY <1>3, <1>4, <1>5, <1>6, ReachLeast
  <1>7. CASE i # j
    <2>1. g \in Reach(S)
      <3>1. i < j
        BY <1>1, <1>7
      <3> QED
        BY <1>1, <1>3, <3>1 DEF GraphOK
    <2>2. ClosedUnderImports(Reach(S))
      BY <1>4, ReachLeast
    <2> QED
      BY <1>3, <1>5, <2>1, <2>2 DEF ClosedUnderImports
  <1> QED
    BY <1>6, <1>7

\* The next path of the top frame, when it is a file, is among what it needs.
LEMMA NextNeeded ==
  ASSUME Inv, PathOK, HasImport, NextPath \in Files
  PROVE  NextPath \in Needed(Len(stack))
  <1>1. PICK rest, f, n : rest = Tail(Top.todo) /\ f = NextPath /\ n = Len(stack)
    OBVIOUS
  <1>2. n \in DOMAIN stack
    BY <1>1, Frames
  <1>3. Ahead(n) = FilesAt(f) \cup LeadsTo(rest)
    BY <1>1, AheadOfTop
  <1>4. f \in Ahead(n)
    BY <1>1, <1>3, FilesAtType
  <1> QED
    BY <1>1, <1>2, <1>4 DEF PathOK

LEMMA InitGraph == Init => GraphOK
  <1> SUFFICES ASSUME Init PROVE GraphOK
    OBVIOUS
  <1>1. Inv
    BY InitInv
  <1>2. visited = {} /\ Len(stack) = 1
    BY DEF Init
  <1>3. DOMAIN stack = 1..1
    BY <1>1, <1>2, Frames
  <1>4. Visiting = {}
    BY <1>1, <1>2, VisitingFrames
  <1> QED
    BY <1>2, <1>3, <1>4 DEF GraphOK, ClosedUnderImports

LEMMA NextGraph ==
  Inv /\ LoadedOnce /\ PathOK /\ GraphOK /\ [Next]_vars => GraphOK'
  <1> SUFFICES ASSUME Inv, LoadedOnce, PathOK, GraphOK, [Next]_vars PROVE GraphOK'
    OBVIOUS
  <1>n. PICK n, seen : n = Len(stack) /\ seen = visited
    OBVIOUS
  <1>0. /\ n \in Nat \ {0} /\ DOMAIN stack = 1..n /\ n \in 1..n
        /\ Inv' /\ seen \in SUBSET Files
    <2>1. n \in Nat \ {0} /\ DOMAIN stack = 1..n
      BY <1>n, Frames
    <2> QED
      BY <1>n, <2>1, NextInv DEF Inv, TypeOK
  <1>g. PICK all : all = Reach(FilesAt(root))
    OBVIOUS
  <1>h. Reach(FilesAt(root))' = all
    BY <1>g, GivenStays DEF Reach, ClosedUnderImports, Imports, FilesAt
  \* It is enough to look at the files of the frames and at what is visited.
  <1>s. ASSUME NEW now, now = visited', now \cup Visiting' \subseteq all,
               \A f \in now : Imports(f) \subseteq now,
               \A f \in now : ~Cyclic(f),
               \A i, j \in DOMAIN stack' : 1 < i /\ i < j =>
                 \A f : f = stack'[i].file => stack'[j].file \in Reach(Imports(f))
        PROVE  GraphOK'
    <2>1. (visited \cup Visiting)' \subseteq Reach(FilesAt(root))'
      BY <1>h, <1>s
    <2>2. ClosedUnderImports(visited)'
      BY <1>s, GivenStays DEF ClosedUnderImports, Imports, FilesAt
    <2>3. ASSUME NEW f \in now PROVE ~Cyclic(f)'
      BY <1>s, <2>3, GraphStays
    <2>4. ASSUME NEW i \in DOMAIN stack', NEW j \in DOMAIN stack', 1 < i, i < j
          PROVE  stack'[j].file \in Reach(Imports(stack[i].file))'
      <3>1. PICK f, S : f = stack'[i].file /\ S = Imports(f)
        OBVIOUS
      <3>2. stack'[j].file \in Reach(S)
        BY <1>s, <2>4, <3>1
      <3>3. Reach(Imports(stack[i].file))' = Reach(S)
        BY <3>1, GivenStays DEF Reach, ClosedUnderImports, Imports, FilesAt
      <3> QED
        BY <3>2, <3>3
    <2> QED
      BY <1>s, <2>1, <2>2, <2>3, <2>4 DEF GraphOK
  <1>5. /\ seen \cup Visiting \subseteq all
        /\ \A f \in seen : Imports(f) \subseteq seen
        /\ \A f \in seen : ~Cyclic(f)
        /\ \A i, j \in DOMAIN stack : 1 < i /\ i < j =>
             \A f : f = stack[i].file => stack[j].file \in Reach(Imports(f))
    BY <1>n, <1>g DEF GraphOK, ClosedUnderImports
  <1>1. CASE Ended \/ ImportDirectory \/ SkipLoaded
    <2>1. /\ visited' = seen /\ DOMAIN stack' = DOMAIN stack
          /\ \A i \in DOMAIN stack : stack'[i].file = stack[i].file
      <3>1. CASE Ended
        BY <1>n, <3>1 DEF Ended
      <3>2. CASE ImportDirectory \/ SkipLoaded
        <4>1. PICK todo \in Seq(Paths) : Onward(todo)
          BY <3>2, OnwardSteps
        <4>2. PICK new : new = Todo(todo)
          OBVIOUS
        <4>3. DOMAIN new = DOMAIN stack /\ \A i \in 1..n : new[i].file = stack[i].file
          BY <1>n, <4>2, Redirected
        <4> QED
          BY <1>n, <1>0, <4>1, <4>2, <4>3 DEF Onward
      <3> QED
        BY <1>1, <3>1, <3>2
    <2>2. Visiting' = Visiting
      BY <2>1 DEF Visiting
    <2> QED
      BY <1>s, <1>5, <2>1, <2>2
  <1>2. CASE EnterFile
    <2>1. HasImport /\ visited' = seen
      BY <1>n, <1>2 DEF EnterFile
    <2>2. PICK f : f = NextPath
      OBVIOUS
    <2>3. /\ DOMAIN stack' = 1..(n + 1)
          /\ \A i \in 1..n : stack'[i].file = stack[i].file
          /\ stack'[n + 1].file = f /\ f \in Files
      BY <1>n, <1>2, <2>2, Entered
    <2>4. f \in Needed(n)
      BY <1>n, <2>1, <2>2, <2>3, NextNeeded
    <2>5. f \in all
      BY <1>n, <1>0, <1>g, <2>4, NeededReached
    <2>6. \A i \in 1..(n + 1) : i \in 1..n \/ i = n + 1
      BY <1>0
    <2>7. Visiting' \subseteq Visiting \cup {f}
      BY <1>0, <2>3, <2>6 DEF Visiting
    <2>8. ASSUME NEW i \in 1..(n + 1), NEW j \in 1..(n + 1), 1 < i, i < j,
                 NEW g, g = stack'[i].file
          PROVE  stack'[j].file \in Reach(Imports(g))
      <3>1. i \in 1..n /\ i <= n
        BY <1>0, <2>8
      <3>2. g = stack[i].file
        BY <2>3, <2>8, <3>1
      <3>3. CASE j \in 1..n
        BY <1>0, <1>5, <2>3, <2>8, <3>1, <3>2, <3>3
      <3>4. CASE j = n + 1
        <4>1. Needed(n) \subseteq Reach(Imports(g))
          BY <1>n, <1>0, <2>8, <3>1, <3>2, NeededBelow
        <4> QED
          BY <2>3, <2>4, <3>4, <4>1
      <3> QED
        BY <2>6, <3>3, <3>4
    <2> QED
      BY <1>s, <1>5, <2>1, <2>3, <2>5, <2>7, <2>8
  <1>3. CASE LeaveFile
    <2>1. PICK f : f = Top.file
      OBVIOUS
    <2>2. visited' = seen \cup {f}
      BY <1>n, <1>3, <2>1 DEF LeaveFile
    <2>3. /\ n > 1 /\ DOMAIN stack' = 1..(n - 1)
          /\ \A i \in 1..(n - 1) : stack'[i] = stack[i] /\ i \in DOMAIN stack
          /\ f = stack[n].file /\ f \in Files /\ stack[n].todo = <<>>
      BY <1>n, <1>0, <1>3, <2>1, Left
    <2>4. f \in Visiting /\ f \notin seen
      BY <1>n, <1>0, <2>3, VisitingFrames DEF LoadedOnce
    <2>5. Imports(f) \subseteq seen
      <3>1. Ahead(n) = {}
        BY <2>3 DEF Ahead, LeadsTo, Range
      <3>2. Needed(n) = Imports(f)
        BY <2>3, PathAssumption DEF Needed
      <3> QED
        BY <1>n, <1>0, <3>1, <3>2 DEF PathOK
    <2>6. ~Cyclic(f)
      <3>1. PICK S : S = Imports(f)
        OBVIOUS
      <3>2. S \in SUBSET Files
        BY <2>3, <3>1, ImportsType
      <3>3. ClosedUnderImports(seen)
        BY <1>5 DEF ClosedUnderImports
      <3>4. Reach(S) \subseteq seen
        BY <1>0, <2>5, <3>1, <3>2, <3>3, ReachLeast
      <3> QED
        BY <2>4, <3>1, <3>4 DEF Cyclic
    <2>7. Visiting' \subseteq Visiting
      BY <2>3 DEF Visiting
    <2>8. \A i, j \in DOMAIN stack' : 1 < i /\ i < j =>
            \A g : g = stack'[i].file => stack'[j].file \in Reach(Imports(g))
      BY <1>5, <2>3
    <2>9. \A g \in seen \cup {f} : Imports(g) \subseteq seen \cup {f} /\ ~Cyclic(g)
      BY <1>5, <2>5, <2>6
    <2>10. (seen \cup {f}) \cup Visiting' \subseteq all
      BY <1>5, <2>4, <2>7
    <2> QED
      BY <1>s, <2>2, <2>8, <2>9, <2>10
  <1> QED
    BY <1>1, <1>2, <1>3, Steps

-----------------------------------------------------------------------------
(***************************************************************************)
(* The result.                                                             *)
(***************************************************************************)

\* The declarations of targets, each by its file and its place there.
Places == Files \X Nat

DeclaredAt(p) == p[1] \in visited /\ p[2] \in DOMAIN content[p[1]].targets

NameAt(p) == content[p[1]].targets[p[2]].name

\* Every resolved target comes from a declaration of its own.
OriginOK ==
  \E origin \in [DOMAIN targets -> Places] :
    /\ \A k, l \in DOMAIN targets : origin[k] = origin[l] => k = l
    /\ \A k \in DOMAIN targets :
         DeclaredAt(origin[k]) /\ NameAt(origin[k]) = targets[k].name

LEMMA InitOrigin == Init => OriginOK
  <1> SUFFICES ASSUME Init PROVE OriginOK
    OBVIOUS
  <1>1. DOMAIN targets = {}
    BY DEF Init
  <1>2. PICK origin : origin = [k \in {} |-> <<>>]
    OBVIOUS
  <1>3. origin \in [DOMAIN targets -> Places]
    BY <1>1, <1>2
  <1> QED
    BY <1>1, <1>3 DEF OriginOK

LEMMA NextOrigin == Inv /\ LoadedOnce /\ OriginOK /\ [Next]_vars => OriginOK'
  <1> SUFFICES ASSUME Inv, LoadedOnce, OriginOK, [Next]_vars PROVE OriginOK'
    OBVIOUS
  <1>0. content' = content
    BY GivenStays
  <1>1. CASE targets' = targets /\ visited' = visited
    BY <1>0, <1>1 DEF OriginOK, DeclaredAt, NameAt
  <1>2. CASE LeaveFile
    <2>1. PICK f, table, own, more, had :
            /\ f = Top.file /\ table = Registered(Declared(f)) /\ own = content[f].targets
            /\ more = ResolvedAll(own, table)
            /\ had = targets
      OBVIOUS
    <2>2. /\ f \in Files /\ own \in Seq(Target) /\ more \in Seq(Resolved)
          /\ Len(more) = Len(own) /\ DOMAIN more = DOMAIN own /\ DOMAIN own = 1..Len(own)
          /\ targets' = had \o more /\ visited' = visited \cup {f}
      <3>1. /\ f = Top.file /\ table = Registered(Declared(f)) /\ own = content[f].targets
            /\ more = ResolvedAll(own, table)
        BY <2>1
      <3>2. /\ f \in Files /\ own \in Seq(Target) /\ more \in Seq(Resolved)
            /\ Len(more) = Len(own) /\ DOMAIN more = DOMAIN own /\ DOMAIN own = 1..Len(own)
            /\ targets' = targets \o more /\ visited' = visited \cup {f}
        <4>1. /\ f \in Files /\ own \in Seq(Target) /\ more \in Seq(Resolved)
              /\ Len(more) = Len(own)
          BY <1>2, <3>1, LeftFacts
        <4>2. DOMAIN more = DOMAIN own /\ DOMAIN own = 1..Len(own)
          BY <1>2, <3>1, LeftFacts
        <4>3. targets' = targets \o more
          BY <1>2, <3>1 DEF LeaveFile, ResolvedAll
        <4>4. visited' = visited \cup {f}
          BY <1>2, <3>1, LeftFacts
        <4> QED
          BY <4>1, <4>2, <4>3, <4>4
      <3> QED
        BY <2>1, <3>2
    <2>3. f \notin visited
      <3>1. Len(stack) > 1 /\ f = stack[Len(stack)].file /\ Len(stack) \in 1..Len(stack)
        BY <1>2, <2>1, Left, Frames
      <3> QED
        BY <3>1, VisitingFrames DEF LoadedOnce
    <2>4. PICK n, m : n = Len(had) /\ m = Len(own)
      OBVIOUS
    <2>5. /\ n \in Nat /\ m \in Nat /\ DOMAIN had = 1..n
          /\ had \in Seq(Resolved)
      BY <2>1, <2>2, <2>4, LenProperties DEF Inv, TypeOK
    <2>6. /\ had \o more \in Seq(Resolved) /\ Len(had \o more) = n + m
          /\ \A i \in 1..(n + m) :
               (had \o more)[i] = IF i <= n THEN had[i] ELSE more[i - n]
      <3>1. Len(had) = n /\ Len(more) = m
        BY <2>2, <2>4
      <3>2. had \in Seq(Resolved) /\ more \in Seq(Resolved)
        BY <2>2, <2>5
      <3> QED
        BY <3>1, <3>2, ConcatProperties
    <2>7. DOMAIN targets' = 1..(n + m)
      BY <2>2, <2>6, LenProperties
    <2>8. \A i \in 1..m : more[i].name = own[i].name
      BY <2>1, <2>2, <2>4 DEF ResolvedAll, ResolvedTarget
    <2>9. PICK origin \in [1..n -> Places] :
            /\ \A k, l \in 1..n : origin[k] = origin[l] => k = l
            /\ \A k \in 1..n : DeclaredAt(origin[k]) /\ NameAt(origin[k]) = had[k].name
      BY <2>1, <2>5 DEF OriginOK
    <2> DEFINE new == [k \in 1..(n + m) |-> IF k \in 1..n THEN origin[k] ELSE <<f, k - n>>]
    <2>10. \A k \in 1..(n + m) : k \in 1..n \/ (k - n \in 1..m /\ ~(k <= n))
      <3>1. n \in Nat /\ m \in Nat
        BY <2>5
      <3> QED
        BY <3>1
    <2>11. new \in [DOMAIN targets' -> Places]
      BY <2>2, <2>5, <2>7, <2>9, <2>10 DEF Places
    <2>12. /\ \A k \in 1..n : new[k] = origin[k] /\ new[k][1] \in visited
           /\ \A k \in 1..(n + m) : k \notin 1..n => new[k] = <<f, k - n>>
      BY <2>5, <2>9 DEF DeclaredAt
    <2> HIDE DEF new
    <2>13. ASSUME NEW k \in 1..(n + m), NEW l \in 1..(n + m), new[k] = new[l]
           PROVE  k = l
      <3>1. CASE k \in 1..n /\ l \in 1..n
        BY <2>9, <2>12, <2>13, <3>1
      <3>2. CASE k \notin 1..n /\ l \notin 1..n
        <4>1. <<f, k - n>> = <<f, l - n>>
          BY <2>12, <2>13, <3>2
        <4>2. k - n = l - n
          BY <4>1
        <4> QED
          BY <2>5, <4>2
      <3>3. CASE k \in 1..n /\ l \notin 1..n
        BY <2>3, <2>12, <2>13, <3>3
      <3>4. CASE k \notin 1..n /\ l \in 1..n
        BY <2>3, <2>12, <2>13, <3>4
      <3> QED
        BY <3>1, <3>2, <3>3, <3>4
    <2>14. ASSUME NEW k \in 1..(n + m), NEW p, p = new[k]
           PROVE  /\ p[1] \in visited \cup {f} /\ p[2] \in DOMAIN content[p[1]].targets
                  /\ content[p[1]].targets[p[2]].name = targets'[k].name
      <3>1. CASE k \in 1..n
        <4>1. p = origin[k] /\ targets'[k] = had[k]
          BY <2>2, <2>6, <2>12, <2>14, <2>5, <3>1
        <4> QED
          BY <2>9, <3>1, <4>1 DEF DeclaredAt, NameAt
      <3>2. CASE k \notin 1..n
        <4>1. k - n \in 1..m /\ ~(k <= n)
          BY <2>10, <3>2
        <4>2. p = <<f, k - n>> /\ targets'[k] = more[k - n]
          BY <2>2, <2>6, <2>12, <2>14, <3>2, <4>1
        <4> QED
          BY <2>1, <2>2, <2>4, <2>8, <4>1, <4>2
      <3> QED
        BY <3>1, <3>2
    <2>15. \A k \in 1..(n + m) : DeclaredAt(new[k])' /\ NameAt(new[k])' = targets'[k].name
      BY <1>0, <2>2, <2>14 DEF DeclaredAt, NameAt
    <2> QED
      BY <2>7, <2>11, <2>13, <2>15 DEF OriginOK
  <1>3. CASE ImportDirectory \/ SkipLoaded \/ EnterFile \/ Ended
    BY <1>1, <1>3 DEF ImportDirectory, SkipLoaded, EnterFile, Ended
  <1> QED
    BY <1>2, <1>3, Steps

ReachInv ==
  /\ Inv /\ LoadedOnce /\ PathOK /\ GraphOK /\ OriginOK /\ ResultHonest

\* A load that ends well has all that the root needs.
LEMMA SucceedHonest ==
  ASSUME ReachInv, AllDone
  PROVE  visited = Reach(FilesAt(root)) /\ \A f \in visited : ~Cyclic(f)
  <1>0. Inv /\ PathOK /\ GraphOK
    BY DEF ReachInv
  <1>1. PICK n, S : n = Len(stack) /\ S = FilesAt(root)
    OBVIOUS
  <1>2. n \in Nat \ {0} /\ DOMAIN stack = 1..n /\ Top = stack[n] /\ n \in 1..n
    <2>1. n \in Nat \ {0} /\ DOMAIN stack = 1..n /\ Top = stack[n]
      BY <1>0, <1>1, Frames
    <2> QED
      BY <2>1
  <1>3. stack[n].file = None /\ stack[n].todo = <<>>
    BY <1>2 DEF AllDone
  <1>4. Ahead(n) = {} /\ Needed(n) = S
    BY <1>1, <1>3 DEF Ahead, LeadsTo, Range, Needed
  <1>5. S \subseteq visited
    BY <1>0, <1>1, <1>2, <1>4 DEF PathOK
  <1>6. S \in SUBSET Files /\ visited \in SUBSET Files
    BY <1>0, <1>1, FilesAtType DEF Inv, TypeOK
  <1>7. ClosedUnderImports(visited) /\ visited \subseteq Reach(S)
    BY <1>0, <1>1 DEF GraphOK
  <1>8. PICK C : C = visited
    OBVIOUS
  <1>9. Reach(S) \subseteq C
    BY <1>0, <1>5, <1>6, <1>7, <1>8, ReachLeast
  <1> QED
    BY <1>0, <1>1, <1>7, <1>8, <1>9 DEF GraphOK

\* A cycle is reported when there is one.
LEMMA CycleHonest ==
  ASSUME ReachInv, ReportCycle
  PROVE  \E f \in Reach(FilesAt(root)) : Cyclic(f)
  <1>0. Inv /\ PathOK /\ GraphOK
    BY DEF ReachInv
  <1>1. HasImport /\ NextPath \in Files /\ NextPath \in Visiting
    BY DEF ReportCycle, BeingLoaded
  <1>2. PICK f, n : f = NextPath /\ n = Len(stack)
    OBVIOUS
  <1>3. PICK i \in 1..n : i > 1 /\ f = stack[i].file
    BY <1>0, <1>1, <1>2, VisitingFrames
  <1>4. n \in Nat \ {0}
    BY <1>0, <1>2, Frames
  <1>5. i <= n /\ n \in 1..n /\ 1 < i
    BY <1>3, <1>4
  <1>6. f \in Needed(n)
    BY <1>0, <1>1, <1>2, NextNeeded
  <1>7. Needed(n) \subseteq Reach(Imports(f))
    BY <1>0, <1>2, <1>3, <1>5, NeededBelow
  <1>8. f \in Reach(FilesAt(root))
    BY <1>0, <1>1, <1>2 DEF GraphOK
  <1> QED
    BY <1>6, <1>7, <1>8 DEF Cyclic

\* A duplicate name is reported when two declarations have it.
LEMMA NameHonest ==
  ASSUME ReachInv, ReportName
  PROVE  \E f, g \in visited :
           \E i \in DOMAIN content[f].targets, j \in DOMAIN content[g].targets :
             /\ <<f, i>> # <<g, j>>
             /\ content[f].targets[i].name = content[g].targets[j].name
  <1>1. PICK k \in DOMAIN targets, l \in DOMAIN targets :
          targets[k].name = targets[l].name /\ k # l
    BY DEF ReportName, UniqueNames
  <1>2. PICK origin \in [DOMAIN targets -> Places] :
          /\ \A m, o \in DOMAIN targets : origin[m] = origin[o] => m = o
          /\ \A m \in DOMAIN targets :
               DeclaredAt(origin[m]) /\ NameAt(origin[m]) = targets[m].name
    BY DEF ReachInv, OriginOK
  <1>3. PICK p, q : p = origin[k] /\ q = origin[l]
    OBVIOUS
  <1>4. p \in Places /\ q \in Places /\ p # q
    BY <1>1, <1>2, <1>3
  <1>5. <<p[1], p[2]>> # <<q[1], q[2]>>
    BY <1>4 DEF Places
  <1>6. DeclaredAt(p) /\ DeclaredAt(q) /\ NameAt(p) = NameAt(q)
    BY <1>1, <1>2, <1>3
  <1> QED
    BY <1>5, <1>6 DEF DeclaredAt, NameAt

LEMMA NextHonest == ReachInv /\ [Next]_vars => ResultHonest'
  <1> SUFFICES ASSUME ReachInv, [Next]_vars PROVE ResultHonest'
    OBVIOUS
  <1>0. Inv /\ ResultHonest /\ content' = content
    BY GivenStays DEF ReachInv
  <1>g. /\ Reach(FilesAt(root))' = Reach(FilesAt(root))
        /\ \A f : Cyclic(f)' = Cyclic(f)
    <2>1. Reach(FilesAt(root))' = Reach(FilesAt(root))
      BY GivenStays DEF Reach, ClosedUnderImports, Imports, FilesAt
    <2> QED
      BY <2>1, GraphStays
  <1>1. CASE ImportDirectory \/ SkipLoaded \/ EnterFile \/ LeaveFile
    <2>1. result' = "loading"
      BY <1>1 DEF ImportDirectory, SkipLoaded, EnterFile, LeaveFile, HasImport,
                  FileDone, Running
    <2> QED
      BY <2>1 DEF ResultHonest
  <1>2. CASE UNCHANGED vars
    <2>1. UNCHANGED <<visited, result>>
      BY <1>2 DEF vars
    <2> QED
      BY <1>0, <1>g, <2>1 DEF ResultHonest
  <1>3. CASE ReportUnreadable \/ ReportSchema \/ ReportTarget
    <2>1. result' \in {"unreadable", "schema", "target"}
      BY <1>3 DEF ReportUnreadable, ReportSchema, ReportTarget, Stop
    <2> QED
      BY <2>1 DEF ResultHonest
  <1>4. CASE ReportCycle
    <2>1. result' = "cycle"
      BY <1>4 DEF ReportCycle, Stop
    <2> QED
      BY <1>4, <1>g, <2>1, CycleHonest DEF ResultHonest
  <1>5. CASE Succeed
    <2>1. result' = "ok" /\ visited' = visited /\ AllDone
      BY <1>5 DEF Succeed, Stop
    <2> QED
      BY <1>g, <2>1, SucceedHonest DEF ResultHonest
  <1>6. CASE ReportName
    <2>1. result' = "name" /\ visited' = visited
      BY <1>6 DEF ReportName, Stop
    <2> QED
      BY <1>0, <1>6, <2>1, NameHonest DEF ResultHonest
  <1> QED
    BY <1>1, <1>2, <1>3, <1>4, <1>5, <1>6 DEF Next, Step, Returned

(* A successful load has every file the root leads to and none that imports
   itself; an import cycle and a duplicate name are reported only when there is
   one: load_render_target_config with load_targets_from_config_file. *)
THEOREM ResultTrue == Spec => []ResultHonest
  <1>1. Init => ReachInv
    <2>1. Init => ResultHonest
      BY DEF Init, ResultHonest
    <2> QED
      BY <2>1, InitInv, InitOnce, InitPath, InitGraph, InitOrigin DEF ReachInv
  <1>2. ReachInv /\ [Next]_vars => ReachInv'
    BY NextInv, NextOnce, NextPathOK, NextGraph, NextOrigin, NextHonest DEF ReachInv
  <1>3. ReachInv => ResultHonest
    BY DEF ReachInv
  <1> QED
    BY <1>1, <1>2, <1>3, PTL DEF Spec

-----------------------------------------------------------------------------
(***************************************************************************)
(* The table of schemas and the targets.                                   *)
(***************************************************************************)

\* The targets that the loaded files declare.
DeclaredTargets == UNION {Range(content[f].targets) : f \in visited}

\* The table has the schemas of the loaded files and no other.
TableOK ==
  /\ \A s \in AllSchemas : schemas[s.name] = s
  /\ \A n \in SchemaNames : schemas[n] # None =>
       schemas[n] \in AllSchemas /\ schemas[n].name = n

\* Every target is resolved as the table has it now, however long ago it was.
TargetsOK ==
  /\ \A t \in DeclaredTargets : Resolvable(t, schemas)
  /\ Range(targets) = {ResolvedTarget(t, schemas) : t \in DeclaredTargets}

TableInv == Inv /\ TableOK /\ TargetsOK

LEMMA DeclaredTypes ==
  ASSUME Inv
  PROVE  AllSchemas \subseteq Schema /\ DeclaredTargets \subseteq Target
  BY DeclaredSchemas DEF AllSchemas, DeclaredTargets, Inv, TypeOK, FramesOK

\* A file adds to the table what it declares, and replaces nothing.
LEMMA RegisteredExtends ==
  ASSUME Inv, TableOK, NEW declared \in SUBSET Schema, ~Conflicts(declared),
         NEW table, table = Registered(declared)
  PROVE  /\ \A n \in SchemaNames : schemas[n] # None => table[n] = schemas[n]
         /\ \A s \in declared : table[s.name] = s
         /\ \A n \in SchemaNames : table[n] # None =>
              table[n] \in AllSchemas \cup declared /\ table[n].name = n
  <1>1. \A s \in Schema : s.name \in SchemaNames /\ s # None
    BY ContentAssumption DEF Schema
  <1>2. \A n \in SchemaNames : schemas[n] # None => table[n] = schemas[n]
    BY DEF Registered
  <1>3. ASSUME NEW n \in SchemaNames, schemas[n] = None, NEW s \in declared, s.name = n
        PROVE  table[n] = s
    <2>1. table[n] = CHOOSE d \in declared : d.name = n
      BY <1>3 DEF Registered
    <2>2. table[n] \in declared /\ table[n].name = n
      BY <1>3, <2>1
    <2>3. table[n] # None
      BY <1>1, <2>2
    <2> QED
      BY <1>3, <2>2, <2>3 DEF Conflicts
  <1>4. ASSUME NEW s \in declared PROVE table[s.name] = s
    <2>1. CASE schemas[s.name] = None
      BY <1>1, <1>3, <2>1
    <2>2. CASE schemas[s.name] # None
      <3>1. schemas[s.name].name = s.name
        BY <1>1, <2>2 DEF TableOK
      <3>2. schemas[s.name] = s
        BY <2>2, <3>1 DEF Conflicts
      <3> QED
        BY <1>1, <1>2, <2>2, <3>2
    <2> QED
      BY <2>1, <2>2
  <1>5. ASSUME NEW n \in SchemaNames, table[n] # None
        PROVE  table[n] \in AllSchemas \cup declared /\ table[n].name = n
    <2>1. CASE schemas[n] # None
      BY <1>2, <2>1 DEF TableOK
    <2>2. CASE schemas[n] = None
      <3>1. \E s \in declared : s.name = n
        BY <1>5, <2>2 DEF Registered
      <3> QED
        BY <1>3, <2>2, <3>1
    <2> QED
      BY <2>1, <2>2
  <1> QED
    BY <1>2, <1>4, <1>5

\* A target that could be resolved resolves in the same way in a larger table.
LEMMA ResolvedForGood ==
  ASSUME NEW small \in [SchemaNames -> Schema \cup {None}], NEW table,
         \A n \in SchemaNames : small[n] # None => table[n] = small[n],
         NEW t \in Target, Resolvable(t, small)
  PROVE  /\ Resolvable(t, table)
         /\ ResolvedTarget(t, table) = ResolvedTarget(t, small)
  <1>1. CASE t.schema = None
    BY <1>1 DEF Resolvable, ResolvedTarget, NodesOf
  <1>2. CASE t.schema # None
    <2>1. t.schema \in SchemaNames
      BY <1>2 DEF Target
    <2>2. table[t.schema] = small[t.schema]
      BY <1>2, <2>1 DEF Resolvable
    <2> QED
      BY <2>2 DEF Resolvable, ResolvedTarget, NodesOf
  <1> QED
    BY <1>1, <1>2

LEMMA InitTable == Init => TableOK /\ TargetsOK
  <1> SUFFICES ASSUME Init PROVE TableOK /\ TargetsOK
    OBVIOUS
  <1>1. visited = {} /\ targets = <<>> /\ \A n \in SchemaNames : schemas[n] = None
    BY DEF Init
  <1>2. AllSchemas = {} /\ DeclaredTargets = {} /\ Range(targets) = {}
    BY <1>1 DEF AllSchemas, DeclaredTargets, Range
  <1> QED
    BY <1>1, <1>2 DEF TableOK, TargetsOK

LEMMA NextTable == TableInv /\ [Next]_vars => (TableOK /\ TargetsOK)'
  <1> SUFFICES ASSUME TableInv, [Next]_vars PROVE (TableOK /\ TargetsOK)'
    OBVIOUS
  <1>0. Inv /\ TableOK /\ TargetsOK /\ content' = content
    BY GivenStays DEF TableInv
  <1>1. CASE ImportDirectory \/ SkipLoaded \/ EnterFile \/ Ended
    <2>1. UNCHANGED <<visited, schemas, targets>>
      BY <1>1 DEF ImportDirectory, SkipLoaded, EnterFile, Ended
    <2>2. AllSchemas' = AllSchemas /\ DeclaredTargets' = DeclaredTargets
      BY <1>0, <2>1 DEF AllSchemas, Declared, DeclaredTargets
    <2> QED
      BY <1>0, <2>1, <2>2 DEF TableOK, TargetsOK
  <1>2. CASE LeaveFile
    <2>1. PICK f, table, own, more, old :
            /\ f = Top.file /\ table = Registered(Declared(f)) /\ own = content[f].targets
            /\ more = ResolvedAll(own, table)
            /\ old = schemas
      OBVIOUS
    <2>2. /\ f \in Files /\ ~Conflicts(Declared(f))
          /\ \A t \in Range(own) : Resolvable(t, table)
          /\ Declared(f) \subseteq Schema
          /\ own \in Seq(Target) /\ more \in Seq(Resolved)
          /\ DOMAIN more = DOMAIN own
      BY <1>0, <1>2, <2>1, LeftFacts
    <2>3. /\ schemas' = table /\ targets' = targets \o more
          /\ visited' = visited \cup {f}
      BY <1>2, <2>1 DEF LeaveFile, ResolvedAll
    <2>4. /\ AllSchemas' = AllSchemas \cup Declared(f)
          /\ DeclaredTargets' = DeclaredTargets \cup Range(own)
      BY <1>0, <2>1, <2>3 DEF AllSchemas, Declared, DeclaredTargets
    <2>5. /\ old \in [SchemaNames -> Schema \cup {None}]
          /\ targets \in Seq(Resolved)
      BY <1>0, <2>1 DEF Inv, TypeOK
    <2>6. PICK declared : declared = Declared(f)
      OBVIOUS
    <2>7. /\ \A n \in SchemaNames : old[n] # None => table[n] = old[n]
          /\ \A s \in declared : table[s.name] = s
          /\ \A n \in SchemaNames : table[n] # None =>
               table[n] \in AllSchemas \cup declared /\ table[n].name = n
      BY <1>0, <2>1, <2>2, <2>6, RegisteredExtends
    <2>8. \A s \in AllSchemas : table[s.name] = s
      <3>1. \A s \in AllSchemas : s.name \in SchemaNames /\ s # None
        BY <1>0, DeclaredTypes, ContentAssumption DEF Schema
      <3> QED
        BY <1>0, <2>1, <2>7, <3>1 DEF TableOK
    <2>9. TableOK'
      BY <2>3, <2>4, <2>6, <2>7, <2>8 DEF TableOK
    <2>10. \A t \in DeclaredTargets :
             /\ Resolvable(t, table)
             /\ ResolvedTarget(t, table) = ResolvedTarget(t, old)
      <3>1. \A t \in DeclaredTargets : t \in Target /\ Resolvable(t, old)
        BY <1>0, <2>1, DeclaredTypes DEF TargetsOK
      <3> QED
        BY <2>5, <2>7, <3>1, ResolvedForGood
    <2>11. Range(more) = {ResolvedTarget(t, table) : t \in Range(own)}
      BY <2>1, <2>2 DEF ResolvedAll, Range
    <2>12. Range(targets') = Range(targets) \cup Range(more)
      BY <2>2, <2>3, <2>5, RangeConcatenation
    <2>13. Range(targets) = {ResolvedTarget(t, table) : t \in DeclaredTargets}
      BY <1>0, <2>1, <2>10 DEF TargetsOK
    <2>14. Range(targets') = {ResolvedTarget(t, table) : t \in DeclaredTargets \cup Range(own)}
      BY <2>11, <2>12, <2>13
    <2>15. \A t \in DeclaredTargets \cup Range(own) : Resolvable(t, table)
      BY <2>2, <2>10
    <2>16. TargetsOK'
      BY <2>3, <2>4, <2>14, <2>15 DEF TargetsOK
    <2> QED
      BY <2>9, <2>16
  <1> QED
    BY <1>0, <1>1, <1>2, Steps

\* The table of the loaded schemas, whatever order they came in, is the table.
LEMMA TableHonest == TableInv => OrderIrrelevant
  <1> SUFFICES ASSUME TableInv PROVE OrderIrrelevant
    OBVIOUS
  <1>0. Inv /\ TableOK /\ TargetsOK
    BY DEF TableInv
  <1>1. /\ schemas \in [SchemaNames -> Schema \cup {None}]
        /\ \A s \in AllSchemas : s.name \in SchemaNames /\ s # None
    BY <1>0, DeclaredTypes, ContentAssumption DEF Inv, TypeOK, Schema
  <1>2. \A s, t \in AllSchemas : s.name = t.name => s = t
    BY <1>0 DEF TableOK
  <1> DEFINE table == [n \in SchemaNames |->
                         IF \E s \in AllSchemas : s.name = n
                         THEN CHOOSE s \in AllSchemas : s.name = n ELSE None]
  <1>3. ASSUME NEW n \in SchemaNames PROVE schemas[n] = table[n]
    <2>1. CASE \E s \in AllSchemas : s.name = n
      <3>1. PICK s \in AllSchemas : s.name = n
        BY <2>1
      <3>2. (CHOOSE d \in AllSchemas : d.name = n) = s
        BY <1>2, <3>1
      <3> QED
        BY <1>0, <2>1, <3>1, <3>2 DEF TableOK
    <2>2. CASE ~ \E s \in AllSchemas : s.name = n
      BY <1>0, <2>2 DEF TableOK
    <2> QED
      BY <2>1, <2>2
  <1>4. schemas = table
    BY <1>1, <1>3
  <1>5. /\ \A t \in DeclaredTargets : Resolvable(t, table)
        /\ Range(targets) = {ResolvedTarget(t, table) : t \in DeclaredTargets}
    BY <1>0, <1>4 DEF TargetsOK
  <1> QED
    BY <1>2, <1>5 DEF OrderIrrelevant, DeclaredTargets

(* After a successful load every target is what the schemas of all the loaded
   files make it: insert_schema, resolve_target_nodes and
   load_targets_from_config_file, whatever order the files were met in. *)
THEOREM OrderOfFilesIrrelevant == Spec => []OrderIrrelevant
  <1>1. Init => TableInv
    BY InitInv, InitTable DEF TableInv
  <1>2. TableInv /\ [Next]_vars => TableInv'
    <2>1. TableInv /\ [Next]_vars => Inv' /\ (TableOK /\ TargetsOK)'
      BY NextInv, NextTable DEF TableInv
    <2> QED
      BY <2>1 DEF TableInv
  <1> QED
    BY <1>1, <1>2, TableHonest, PTL DEF Spec
=============================================================================
