----------------------------- MODULE OutputsProofs -----------------------------
(***************************************************************************)
(* What holds of the commands that write files from the store, for every   *)
(* set of rules, roots, targets, filters and outputs, however many edits   *)
(* and faults there are.                                                   *)
(***************************************************************************)
EXTENDS Outputs, SequenceLemmas

-----------------------------------------------------------------------------
(* Sets in order. *)
Ordered(S, order) ==
  /\ \A x \in S : <<x, x>> \notin order
  /\ \A x, y \in S : x # y => <<x, y>> \in order \/ <<y, x>> \in order
  /\ \A x, y, z \in S : <<x, y>> \in order /\ <<y, z>> \in order => <<x, z>> \in order

\* s lists S, each element once and in the order.
Lists(s, S, order) ==
  /\ s \in Seq(S) /\ Range(s) = S
  /\ \A j, k \in DOMAIN s : j < k => s[j] # s[k] /\ <<s[j], s[k]>> \in order

LEMMA InOrderLists ==
  ASSUME NEW S, IsFiniteSet(S), NEW order, Ordered(S, order)
  PROVE  Lists(InOrder(S, order), S, order)
  <1> DEFINE Below(x) == {y \in S : <<y, x>> \in order}
             rank == [x \in S |-> Cardinality(Below(x)) + 1]
             N == Cardinality(S)
             s == InOrder(S, order)
  <1>1. N \in Nat
    BY FS_CardinalityType
  <1>2. ASSUME NEW x \in S
        PROVE  IsFiniteSet(Below(x)) /\ Cardinality(Below(x)) \in Nat
    BY FS_Subset, FS_CardinalityType
  <1>3. ASSUME NEW x \in S, NEW y \in S, <<x, y>> \in order
        PROVE  Cardinality(Below(x)) < Cardinality(Below(y))
    <2>1. Below(x) \subseteq Below(y) \ {y} /\ x \in Below(y) /\ x \notin Below(x)
      BY <1>3 DEF Ordered
    <2>2. Below(x) \in SUBSET (Below(y) \ {x})
      BY <2>1
    <2>3. /\ IsFiniteSet(Below(y) \ {x})
          /\ Cardinality(Below(y) \ {x}) = Cardinality(Below(y)) - 1
      <3> HIDE DEF Below
      <3> QED
        BY <1>2, <2>1, FS_RemoveElement
    <2>4. Cardinality(Below(x)) <= Cardinality(Below(y) \ {x})
      <3> HIDE DEF Below
      <3> QED
        BY <2>2, <2>3, FS_Subset
    <2> HIDE DEF Below
    <2> QED
      BY <1>2, <2>3, <2>4
  <1>4. ASSUME NEW x \in S PROVE Cardinality(Below(x)) + 1 \in 1..N
    <2>1. Below(x) \in SUBSET (S \ {x})
      BY DEF Ordered
    <2>2. IsFiniteSet(S \ {x}) /\ Cardinality(S \ {x}) = N - 1
      BY FS_RemoveElement
    <2>3. Cardinality(Below(x)) <= N - 1
      <3> HIDE DEF Below
      <3> QED
        BY <2>1, <2>2, FS_Subset
    <2> HIDE DEF Below, N
    <2> QED
      BY <1>1, <1>2, <2>3
  <1>5. rank \in [S -> 1..N]
    BY <1>4
  <1> HIDE DEF Below
  <1>6. \A x, y \in S : rank[x] = rank[y] => x = y
    <2> SUFFICES ASSUME NEW x \in S, NEW y \in S, rank[x] = rank[y], x # y PROVE FALSE
      OBVIOUS
    <2>1. <<x, y>> \in order \/ <<y, x>> \in order
      BY DEF Ordered
    <2>2. Cardinality(Below(x)) = Cardinality(Below(y))
      BY <1>2
    <2> QED
      BY <1>2, <1>3, <2>1, <2>2
  <1>7. rank \in Surjection(S, 1..N)
    <2>1. rank \in Injection(S, 1..N)
      BY <1>5, <1>6 DEF Injection, IsInjective
    <2>2. IsFiniteSet(1..N) /\ Cardinality(1..N) = N
      BY <1>1, FS_Interval
    <2> HIDE DEF rank
    <2> QED
      BY <2>1, <2>2, FS_Injection
  <1>8. ASSUME NEW k \in 1..N PROVE s[k] \in S /\ rank[s[k]] = k
    <2>1. PICK x \in S : rank[x] = k
      BY <1>7 DEF Surjection
    <2>2. Cardinality(Below(x)) = k - 1
      BY <1>1, <1>2, <2>1
    <2>3. s[k] = CHOOSE y \in S : Cardinality(Below(y)) = k - 1
      BY DEF InOrder, Below
    <2>4. s[k] \in S /\ Cardinality(Below(s[k])) = k - 1
      BY <2>2, <2>3
    <2> QED
      BY <1>1, <2>4
  <1>9. s \in [1..N -> S]
    BY <1>8 DEF InOrder
  <1> HIDE DEF s
  <1>10. s \in Seq(S) /\ DOMAIN s = 1..N
    BY <1>1, <1>9, SeqDef
  <1>11. Range(s) = S
    <2>1. ASSUME NEW x \in S PROVE rank[x] \in 1..N /\ s[rank[x]] = x
      BY <1>5, <1>6, <1>8
    <2> QED
      <3> HIDE DEF rank, N
      <3> QED
        BY <1>8, <1>10, <2>1 DEF Range
  <1>12. ASSUME NEW j \in 1..N, NEW k \in 1..N, j < k
         PROVE  s[j] # s[k] /\ <<s[j], s[k]>> \in order
    <2>1. s[j] \in S /\ s[k] \in S /\ rank[s[j]] = j /\ rank[s[k]] = k
      BY <1>8
    <2>2. s[j] # s[k]
      BY <1>12, <2>1
    <2>3. <<s[k], s[j]>> \notin order
      <3>1. /\ rank[s[j]] = Cardinality(Below(s[j])) + 1
            /\ rank[s[k]] = Cardinality(Below(s[k])) + 1
        BY <2>1
      <3>2. /\ Cardinality(Below(s[j])) \in Nat
            /\ Cardinality(Below(s[k])) \in Nat
        BY <1>2, <2>1
      <3>3. ~(Cardinality(Below(s[k])) < Cardinality(Below(s[j])))
        <4> HIDE DEF rank
        <4> QED
          BY <1>12, <2>1, <3>1, <3>2
      <3> QED
        BY <1>3, <2>1, <3>3
    <2> QED
      BY <2>1, <2>2, <2>3 DEF Ordered
  <1> QED
    BY <1>10, <1>11, <1>12 DEF Lists, s

\* Numbers ascend.
LEMMA AscendingLists ==
  ASSUME NEW S, S \subseteq Nat, IsFiniteSet(S)
  PROVE  /\ Ascending(S) \in Seq(S) /\ Range(Ascending(S)) = S
         /\ \A j, k \in DOMAIN Ascending(S) : j < k => Ascending(S)[j] < Ascending(S)[k]
  <1> DEFINE order == {p \in S \X S : p[1] < p[2]}
  <1>1. \A x, y \in S : <<x, y>> \in order <=> x < y
    OBVIOUS
  <1>2. Ordered(S, order)
    <2> HIDE DEF order
    <2>1. \A x \in S : x \in Nat
      OBVIOUS
    <2> QED
      BY <1>1, <2>1 DEF Ordered
  <1>3. Ascending(S) = InOrder(S, order)
    BY DEF Ascending
  <1> HIDE DEF order
  <1>4. Lists(Ascending(S), S, order)
    BY <1>2, <1>3, InOrderLists
  <1>5. PICK s : s = Ascending(S)
    OBVIOUS
  <1>6. s \in Seq(S) /\ Range(s) = S /\ \A j, k \in DOMAIN s : j < k => <<s[j], s[k]>> \in order
    BY <1>4, <1>5 DEF Lists
  <1>7. \A j \in DOMAIN s : s[j] \in S
    BY <1>6 DEF Range
  <1> QED
    BY <1>1, <1>5, <1>6, <1>7

\* The rules of a list come by order key and slug.
LEMMA SortedLists ==
  ASSUME NEW files, NEW ids \in SUBSET Ids, \A i \in ids : files[i].order \in Nat
  PROVE  /\ Sorted(files, ids) \in Seq(ids) /\ Range(Sorted(files, ids)) = ids
         /\ \A j, k \in DOMAIN Sorted(files, ids) : j < k =>
              /\ Sorted(files, ids)[j] # Sorted(files, ids)[k]
              /\ Before(files, Sorted(files, ids)[j], Sorted(files, ids)[k])
  <1> DEFINE order == {p \in ids \X ids : Before(files, p[1], p[2])}
  <1>1. \A i, j \in ids : <<i, j>> \in order <=> Before(files, i, j)
    OBVIOUS
  <1>2. \A i \in ids : SlugOf[i] \in Nat
    BY SlugAssumption
  <1>3. Ordered(ids, order)
    <2> HIDE DEF order
    <2>1. \A i, j \in ids : SlugOf[i] = SlugOf[j] => i = j
      BY SlugAssumption
    <2> QED
      BY <1>1, <1>2, <2>1 DEF Ordered, Before
  <1>4. IsFiniteSet(ids)
    BY SlugAssumption, FS_Subset
  <1>5. PICK s : s = Sorted(files, ids)
    OBVIOUS
  <1>6. s = InOrder(ids, order)
    BY <1>5 DEF Sorted
  <1> HIDE DEF order
  <1>7. Lists(s, ids, order)
    BY <1>3, <1>4, <1>6, InOrderLists
  <1>8. /\ s \in Seq(ids) /\ Range(s) = ids
        /\ \A j, k \in DOMAIN s : j < k => s[j] # s[k] /\ <<s[j], s[k]>> \in order
    BY <1>7 DEF Lists
  <1>9. \A j \in DOMAIN s : s[j] \in ids
    BY <1>8 DEF Range
  <1> QED
    BY <1>1, <1>5, <1>8, <1>9

-----------------------------------------------------------------------------
(* Types. *)
Text == Seq(Ids \X {m.body : m \in Manifests})

IndexTyped ==
  /\ disk \in [Ids -> Manifests \cup {Broken, Absent}]
  /\ row \in [Ids -> States \cup {Absent}]
  /\ MainRoot \in roots
  /\ stale \subseteq Ids

(***************************************************************************)
(* The index.  Every row is of a rule in a registered root, and one that   *)
(* is not out of date tells the state of its manifest.                     *)
(***************************************************************************)
RowsRooted == \A i \in Ids : row[i] # Absent => RootOf[i] \in roots

RowsTrue ==
  \A i \in Ids \ stale :
    row[i] # Absent => disk[i] \in Manifests /\ row[i] = disk[i].state

IndexInv == IndexTyped /\ RowsRooted /\ RowsTrue

\* A folder is absent, broken or has a manifest.
LEMMA Folders ==
  ASSUME IndexInv, NEW i \in Ids
  PROVE  /\ i \in Readable <=> disk[i] \in Manifests
         /\ i \in Readable => /\ disk[i].state \in States /\ disk[i].state # Absent
                              /\ disk[i].order \in Nat
         /\ disk[i] \in Manifests \/ disk[i] = Broken \/ disk[i] = Absent
         /\ Pruned[i] = IF disk[i] = Absent THEN Absent ELSE row[i]
  <1>1. disk[i] \in Manifests \cup {Broken, Absent}
    BY DEF IndexInv, IndexTyped
  <1>2. i \in Readable <=> disk[i] # Absent /\ disk[i] # Broken
    BY DEF Readable, OnDisk
  <1>3. Absent \notin Manifests /\ Broken \notin Manifests /\ Absent \notin States
    BY ManifestAssumption
  <1>4. disk[i] \in Manifests => disk[i].state \in States /\ disk[i].order \in Nat
    BY ManifestAssumption
  <1>5. Pruned[i] = IF disk[i] = Absent THEN Absent ELSE row[i]
    BY DEF Pruned
  <1> QED
    BY <1>1, <1>2, <1>3, <1>4, <1>5

\* After a scan of the roots a command knows, the index has a row of each
\* readable rule in them and of no other; a row not out of date is true.
LEMMA ScannedRows ==
  ASSUME IndexInv, Opens, NEW reindex \in BOOLEAN, NEW i \in Ids
  PROVE  LET rows == Scanned(reindex, roots \cup Discovered)
         IN  /\ rows[i] # Absent <=> i \in Reachable
             /\ rows[i] # Absent /\ i \notin Outdated(reindex) => rows[i] = disk[i].state
             /\ rows[i] \in States \cup {Absent}
  <1> DEFINE known == roots \cup Discovered
             rows == Scanned(reindex, known)
  <1>1. rows[i] = IF i \in Readable /\ RootOf[i] \in known /\ (reindex \/ Pruned[i] = Absent)
                  THEN disk[i].state ELSE Pruned[i]
    BY DEF Scanned
  <1>2. i \in Reachable <=> i \in Readable /\ RootOf[i] \in known
    BY DEF Reachable
  <1>3. row[i] # Absent => RootOf[i] \in known
    BY DEF IndexInv, RowsRooted
  <1>4. disk[i] = Broken => Pruned[i] = Absent
    BY DEF Opens
  <1>5. row[i] \in States \cup {Absent}
    BY DEF IndexInv, IndexTyped
  <1>6. i \notin Outdated(reindex) /\ ~reindex /\ Pruned[i] # Absent => row[i] = disk[i].state
    BY Folders DEF Outdated, IndexInv, RowsTrue
  <1> HIDE DEF known, rows
  <1>7. Pruned[i] # Absent => Pruned[i] = row[i] /\ i \in Readable /\ row[i] # Absent
    BY <1>4, Folders
  <1>8. rows[i] # Absent <=> i \in Reachable
    BY <1>1, <1>2, <1>3, <1>7, Folders
  <1>9. rows[i] # Absent /\ i \notin Outdated(reindex) => rows[i] = disk[i].state
    BY <1>1, <1>2, <1>6, <1>7, <1>8
  <1>10. rows[i] \in States \cup {Absent}
    BY <1>1, <1>5, <1>7, Folders
  <1> QED
    BY <1>8, <1>9, <1>10 DEF rows, known


LEMMA IndexInit == Init => IndexInv
  <1> SUFFICES ASSUME Init PROVE IndexInv
    OBVIOUS
  <1>1. disk \in [Ids -> Manifests \cup {Broken, Absent}]
    <2>1. disk \in [Ids -> Manifests \cup {Absent}]
      BY StartAssumption DEF Init
    <2> QED
      BY <2>1
  <1> QED
    BY <1>1 DEF Init, IndexInv, IndexTyped, RowsRooted, RowsTrue

\* An open that prunes and goes no further.
LEMMA PruneKeepsIndex ==
  ASSUME IndexInv, disk' = disk, row' = Pruned, stale' = Outdated(FALSE), roots \subseteq roots'
  PROVE  IndexInv'
  <1>1. \A i \in Ids : Pruned[i] = IF disk[i] = Absent THEN Absent ELSE row[i]
    BY DEF Pruned
  <1>2. row' \in [Ids -> States \cup {Absent}]
    BY DEF Pruned, IndexInv, IndexTyped
  <1>3. IndexTyped'
    BY <1>2 DEF IndexInv, IndexTyped, Outdated
  <1>4. RowsRooted'
    BY <1>1 DEF IndexInv, RowsRooted
  <1>5. RowsTrue'
    BY <1>1 DEF IndexInv, RowsTrue, Outdated
  <1> QED
    BY <1>3, <1>4, <1>5 DEF IndexInv

\* One that goes on to scan.
LEMMA ScanKeepsIndex ==
  ASSUME IndexInv, Opens, disk' = disk, NEW reindex \in BOOLEAN,
         row' = Scanned(reindex, roots \cup Discovered), stale' = Outdated(reindex),
         roots \cup Discovered \subseteq roots'
  PROVE  IndexInv'
  <1>1. ASSUME NEW i \in Ids
        PROVE  /\ row'[i] # Absent <=> i \in Reachable
               /\ row'[i] # Absent /\ i \notin stale' => row'[i] = disk[i].state
               /\ row'[i] \in States \cup {Absent}
    BY ScannedRows
  <1>2. row' = [i \in Ids |-> row'[i]]
    BY DEF Scanned
  <1>3. IndexTyped'
    BY <1>1, <1>2 DEF IndexInv, IndexTyped, Outdated
  <1>4. RowsRooted'
    BY <1>1 DEF RowsRooted, Reachable
  <1>5. RowsTrue'
    <2> SUFFICES ASSUME NEW i \in Ids, i \notin stale', row'[i] # Absent
                 PROVE  disk[i] \in Manifests /\ row'[i] = disk[i].state
      BY DEF RowsTrue
    <2>1. i \in Readable
      BY <1>1 DEF Reachable
    <2> QED
      BY <1>1, <2>1, Folders
  <1> QED
    BY <1>3, <1>4, <1>5 DEF IndexInv

LEMMA SaveKeepsIndex ==
  ASSUME IndexInv, NEW i \in Ids, NEW m \in Manifests, Save(i, m)
  PROVE  IndexInv'
  <1>1. /\ disk' = [disk EXCEPT ![i] = m] /\ roots' = roots
        /\ disk[i] = Absent => RootOf[i] = MainRoot
        /\ disk[i] # Absent => Pruned[i] # Absent
        /\ \/ row' = [Pruned EXCEPT ![i] = m.state] /\ stale' = Outdated(FALSE) \ {i}
           \/ row' = Pruned /\ stale' = Outdated(FALSE) \cup ({i} \cap OnDisk)
    BY DEF Save
  <1>2. \A j \in Ids : Pruned[j] = IF disk[j] = Absent THEN Absent ELSE row[j]
    BY DEF Pruned
  <1>3. Pruned \in [Ids -> States \cup {Absent}]
    BY DEF Pruned, IndexInv, IndexTyped
  <1>4. m.state \in States
    BY ManifestAssumption
  <1>5. IndexTyped'
    <2>1. disk' \in [Ids -> Manifests \cup {Broken, Absent}]
      BY <1>1 DEF IndexInv, IndexTyped
    <2>2. row' \in [Ids -> States \cup {Absent}]
      BY <1>1, <1>3, <1>4
    <2>3. stale' \subseteq Ids
      BY <1>1 DEF IndexInv, IndexTyped, Outdated
    <2> QED
      BY <1>1, <2>1, <2>2, <2>3 DEF IndexInv, IndexTyped
  <1>6. RootOf[i] \in roots
    BY <1>1, <1>2 DEF IndexInv, IndexTyped, RowsRooted
  <1>7. \A j \in Ids : j # i => row'[j] = Pruned[j] /\ disk'[j] = disk[j]
    BY <1>1, <1>3 DEF IndexInv, IndexTyped
  <1>8. disk'[i] = m
    BY <1>1 DEF IndexInv, IndexTyped
  <1>9. RowsRooted'
    BY <1>1, <1>2, <1>6, <1>7 DEF IndexInv, RowsRooted
  <1>10. RowsTrue'
    <2>1. ASSUME NEW j \in Ids, j # i, j \notin stale', row'[j] # Absent
          PROVE  disk'[j] \in Manifests /\ row'[j] = disk'[j].state
      BY <1>1, <1>2, <1>7, <2>1 DEF IndexInv, RowsTrue, Outdated
    <2>2. ASSUME i \notin stale', row'[i] # Absent
          PROVE  disk'[i] \in Manifests /\ row'[i] = disk'[i].state
      BY <1>1, <1>2, <1>3, <1>8, <2>2 DEF OnDisk
    <2> QED
      BY <2>1, <2>2 DEF RowsTrue
  <1> QED
    BY <1>5, <1>9, <1>10 DEF IndexInv

LEMMA EditKeepsIndex ==
  ASSUME IndexInv, NEW i \in Ids, NEW m \in Manifests \cup {Absent, Broken}, OutsideEdit(i, m)
  PROVE  IndexInv'
  <1>1. /\ disk' = [disk EXCEPT ![i] = m] /\ roots' = roots /\ row' = row
        /\ stale' = IF row[i] = Absent THEN stale ELSE stale \cup {i}
    BY DEF OutsideEdit
  <1>2. \A j \in Ids : j # i => disk'[j] = disk[j]
    BY <1>1 DEF IndexInv, IndexTyped
  <1>3. IndexTyped'
    BY <1>1 DEF IndexInv, IndexTyped
  <1>4. RowsRooted' /\ RowsTrue'
    BY <1>1, <1>2 DEF IndexInv, RowsRooted, RowsTrue
  <1> QED
    BY <1>3, <1>4 DEF IndexInv

LEMMA IndexStep == IndexInv /\ [Next]_vars => IndexInv'
  <1> SUFFICES ASSUME IndexInv, [Next]_vars PROVE IndexInv'
    OBVIOUS
  <1>0. CliReindex \in BOOLEAN
    BY DEF CliReindex
  <1>1. ASSUME NEW reindex \in BOOLEAN, Bootstrap(reindex) PROVE IndexInv'
    <2>1. /\ Opens /\ disk' = disk /\ roots' = roots \cup Discovered
          /\ row' = Scanned(reindex, roots \cup Discovered) /\ stale' = Outdated(reindex)
      BY <1>1 DEF Bootstrap
    <2> QED
      BY <2>1, ScanKeepsIndex
  <1>2. CASE BootstrapRuleStore \/ WithStore
    BY <1>0, <1>1, <1>2 DEF BootstrapRuleStore, WithStore
  <1>3. CASE \E force \in BOOLEAN : ScanCommand(force) \/ RuleScanTool(force)
    <2>1. PICK force \in BOOLEAN : Bootstrap(force \/ CliReindex) \/ Bootstrap(force)
      BY <1>3 DEF ScanCommand, RuleScanTool
    <2>2. (force \/ CliReindex) \in BOOLEAN
      OBVIOUS
    <2> QED
      BY <1>1, <2>1, <2>2
  <1>4. CASE OpenRefused
    BY <1>4, PruneKeepsIndex DEF OpenRefused
  <1>5. CASE BootstrapDies
    <2>1. roots \subseteq roots'
      BY <1>5 DEF BootstrapDies
    <2> QED
      BY <1>5, <2>1, PruneKeepsIndex DEF BootstrapDies
  <1>6. ASSUME NEW r \in Roots, AddRootCommand(r) PROVE IndexInv'
    <2>1. /\ disk' = disk /\ row' = Pruned /\ stale' = Outdated(FALSE) /\ roots \subseteq roots'
      BY <1>6 DEF AddRootCommand
    <2> QED
      BY <2>1, PruneKeepsIndex
  <1>7. ASSUME NEW r \in Roots, RuleAddRootTool(r) PROVE IndexInv'
    <2>1. /\ Opens /\ disk' = disk /\ roots \cup Discovered \subseteq roots'
          /\ row' = Scanned(FALSE, roots \cup Discovered) /\ stale' = Outdated(FALSE)
      BY <1>7 DEF RuleAddRootTool, McpRows
    <2> QED
      BY <2>1, ScanKeepsIndex
  <1>8. CASE IndexLost
    <2>1. disk' = disk /\ row' = [i \in Ids |-> Absent] /\ stale' = {} /\ MainRoot \in roots'
      BY <1>8 DEF IndexLost, IndexInv, IndexTyped
    <2> QED
      BY <2>1 DEF IndexInv, IndexTyped, RowsRooted, RowsTrue
  <1>9. CASE UNCHANGED <<disk, row, roots, stale>>
    BY <1>9 DEF IndexInv, IndexTyped, RowsRooted, RowsTrue
  <1>10. CASE Commands
    <2>1. CASE Read
      BY <1>2, <2>1 DEF Read
    <2>2. CASE \E s \in Selectors : GenerateTargetCommand(s)
      BY <1>2, <2>2 DEF GenerateTargetCommand
    <2>3. CASE \E t \in Targets : RuleGenerateTargetTool(t)
      BY <1>2, <2>3 DEF RuleGenerateTargetTool
    <2>4. CASE \E t \in Requests : GenerateFileCommand(t) \/ RuleGenerateFileTool(t)
      BY <1>2, <2>4 DEF GenerateFileCommand, RuleGenerateFileTool
    <2>5. CASE StoreIndexCommand
      BY <1>2, <2>5 DEF StoreIndexCommand
    <2>6. CASE WriteCatalogFile
      BY <1>9, <2>6 DEF WriteCatalogFile
    <2> QED
      BY <1>3, <1>4, <1>6, <1>7, <1>10, <2>1, <2>2, <2>3, <2>4, <2>5, <2>6 DEF Commands
  <1>11. CASE World
    <2>1. CASE StoreIndexStops
      BY <1>9, <2>1 DEF StoreIndexStops
    <2>2. CASE OutsideFile
      BY <1>9, <2>2 DEF OutsideFile
    <2> QED
      BY <1>5, <1>8, <1>11, <2>1, <2>2, SaveKeepsIndex, EditKeepsIndex DEF World
  <1>12. CASE UNCHANGED vars
    BY <1>9, <1>12 DEF vars
  <1> QED
    BY <1>10, <1>11, <1>12 DEF Next


LEMMA IndexAlways == Spec => []IndexInv
  <1>1. Init => IndexInv
    BY IndexInit
  <1>2. IndexInv /\ [Next]_vars => IndexInv'
    BY IndexStep
  <1> QED
    BY <1>1, <1>2, PTL DEF Spec

-----------------------------------------------------------------------------
(* What commands list and search. *)

\* list answers in order with the reachable rules that match, the state
\* being that of the row.
Answers(list, rows, f) ==
  /\ list \in Seq(Reachable)
  /\ \A i : i \in Range(list) <=>
           i \in Reachable /\ MatchesField(f.state, rows[i]) /\ Matches(f, i, disk[i])
  /\ \A j, k \in DOMAIN list : j < k => list[j] # list[k] /\ Before(disk, list[j], list[k])

LEMMA ListHas ==
  ASSUME IndexInv, Opens, NEW reindex \in BOOLEAN, NEW f,
         NEW rows, rows = Scanned(reindex, roots \cup Discovered),
         NEW list, list = List(disk, rows, f)
  PROVE  Answers(list, rows, f)
  <1> DEFINE found == {i \in Ids : /\ rows[i] # Absent
                                   /\ MatchesField(f.state, rows[i])
                                   /\ Matches(f, i, disk[i])}
  <1>1. \A i \in Ids : rows[i] # Absent <=> i \in Reachable
    BY ScannedRows
  <1>2. \A i \in Reachable : i \in Ids /\ disk[i].order \in Nat
    BY Folders DEF Reachable, Readable, OnDisk
  <1>3. list = Sorted(disk, found)
    BY DEF List
  <1>4. \A i : i \in found <=>
                 i \in Reachable /\ MatchesField(f.state, rows[i]) /\ Matches(f, i, disk[i])
    BY <1>1, <1>2
  <1>5. found \in SUBSET Ids /\ found \subseteq Reachable
    BY <1>4
  <1> HIDE DEF found
  <1>6. /\ Sorted(disk, found) \in Seq(found) /\ Range(Sorted(disk, found)) = found
        /\ \A j, k \in DOMAIN Sorted(disk, found) : j < k =>
             /\ Sorted(disk, found)[j] # Sorted(disk, found)[k]
             /\ Before(disk, Sorted(disk, found)[j], Sorted(disk, found)[k])
    BY <1>2, <1>5, SortedLists
  <1>7. list \in Seq(Reachable)
    <2>1. Len(list) \in Nat /\ DOMAIN list = 1..Len(list) /\ list \in [1..Len(list) -> found]
      BY <1>3, <1>6, LenProperties, SeqDef
    <2>2. list \in [1..Len(list) -> Reachable]
      BY <1>5, <2>1
    <2> QED
      BY <2>1, <2>2, SeqDef
  <1>8. \A i : i \in Range(list) <=>
                 i \in Reachable /\ MatchesField(f.state, rows[i]) /\ Matches(f, i, disk[i])
    BY <1>3, <1>4, <1>6
  <1>9. \A j, k \in DOMAIN list : j < k => list[j] # list[k] /\ Before(disk, list[j], list[k])
    BY <1>3, <1>6
  <1> QED
    BY <1>7, <1>8, <1>9 DEF Answers

(* A list has exactly the rules whose manifests satisfy the filter, in the
   roots a command knows or has just found; only rules whose row is out of
   date are excused: whatever was edited, lost or died before. *)
THEOREM ListTruthful == Spec => []ListedAsFiled
  <1>1. IndexInv => ListedAsFiled
    <2> SUFFICES ASSUME IndexInv, Opens, NEW f \in Filters, NEW reindex \in {CliReindex, FALSE},
                        NEW i \in Ids \ Outdated(reindex)
                 PROVE  LET rows == Scanned(reindex, roots \cup Discovered)
                        IN  i \in ToSet(List(disk, rows, f))
                              <=> i \in {j \in Reachable : /\ Matches(f, j, disk[j])
                                                           /\ MatchesField(f.state, disk[j].state)}
      BY DEF ListedAsFiled
    <2>1. reindex \in BOOLEAN
      BY DEF CliReindex
    <2>2. PICK rows : rows = Scanned(reindex, roots \cup Discovered)
      OBVIOUS
    <2>3. PICK list : list = List(disk, rows, f)
      OBVIOUS
    <2>4. i \in Range(list) <=>
            i \in Reachable /\ MatchesField(f.state, rows[i]) /\ Matches(f, i, disk[i])
      BY <2>1, <2>2, <2>3, ListHas DEF Answers
    <2>5. i \in Reachable => rows[i] = disk[i].state
      BY <2>1, <2>2, ScannedRows
    <2>6. ToSet(list) = Range(list)
      BY DEF ToSet, Range
    <2> QED
      BY <2>2, <2>3, <2>4, <2>5, <2>6
  <1> QED
    BY <1>1, IndexAlways, PTL

-----------------------------------------------------------------------------
(* The catalog. *)

\* What store-index makes of the rules of this moment.
Due == <<CatalogMarkdown(Reachable), Sidecar(Reachable), AgentHook(Reachable)>>

LEMMA ArtifactsDue ==
  ASSUME IndexInv, Opens, NEW reindex \in BOOLEAN
  PROVE  Artifacts(Scanned(reindex, roots \cup Discovered)) = Due
  <1>1. PICK rows : rows = Scanned(reindex, roots \cup Discovered)
    OBVIOUS
  <1>2. \A i \in Ids : rows[i] # Absent <=> i \in Reachable
    BY <1>1, ScannedRows
  <1>3. Reachable \subseteq Ids
    BY DEF Reachable, Readable, OnDisk
  <1>4. {i \in Ids : rows[i] # Absent} = Reachable
    BY <1>2, <1>3
  <1>5. Artifacts(rows) = Due
    BY <1>4 DEF Artifacts, Due
  <1> QED
    BY <1>1, <1>5

\* A check passes if and only if the three files are those.
LEMMA CheckIsDue ==
  ASSUME IndexInv, Opens
  PROVE  CheckPasses <=> /\ catalog["README.md"] = CatalogMarkdown(Reachable)
                         /\ catalog["index.toon"] = Sidecar(Reachable)
                         /\ catalog["rules-catalog.md"] = AgentHook(Reachable)
  <1>1. Artifacts(CliRows) = Due
    BY ArtifactsDue DEF CliRows, CliReindex
  <1>2. /\ DOMAIN Files = {1, 2, 3}
        /\ Files[1] = "README.md" /\ Files[2] = "index.toon" /\ Files[3] = "rules-catalog.md"
    BY DEF Files
  <1>3. {n \in DOMAIN Files : Compared(n)} = {1, 2, 3}
    BY <1>2 DEF Compared
  <1>4. CheckPasses <=> \A k \in {1, 2, 3} : catalog[Files[k]] = Due[k]
    BY <1>1, <1>3 DEF CheckPasses
  <1> QED
    BY <1>2, <1>4 DEF Due


\* A readable rule makes an entry.
LEMMA EntryTyped ==
  ASSUME IndexInv, NEW i \in Reachable
  PROVE  /\ i \in Ids /\ disk[i] \in Manifests
         /\ MakeEntry(i) \in Entry /\ DisplayExtra(i) \in Extra
         /\ IsLowRated(disk[i]) => LowFeedback(disk[i])
  <1>1. i \in Ids /\ disk[i] \in Manifests
    BY Folders DEF Reachable, Readable, OnDisk
  <1>2. PICK m \in Manifests : m = disk[i]
    BY <1>1
  <1>3. m.state \in States /\ m.helpful \in Nat /\ m.mixed \in Nat /\ m.unhelpful \in Nat
    BY ManifestAssumption
  <1>4. IsLowRated(m) \in BOOLEAN /\ (IsLowRated(m) => LowFeedback(m))
    BY <1>3 DEF IsLowRated, LowFeedback
  <1>5. MakeEntry(i) \in Entry
    BY <1>1, <1>2, <1>3, <1>4 DEF MakeEntry, Entry
  <1>6. DisplayExtra(i) \in Extra
    BY <1>1, <1>2 DEF DisplayExtra, Extra
  <1> QED
    BY <1>1, <1>2, <1>4, <1>5, <1>6

(* store-index --check passes only a catalog whose three files tell what the
   rule folders say, the low-rated marks included, whatever was edited, torn
   or left half written. *)
THEOREM CheckTruthful == Spec => []CheckSound
  <1>1. ASSUME IndexInv, CheckPasses PROVE CatalogTruthful
    <2> DEFINE R == Reachable
               readme == catalog["README.md"]
               sidecar == catalog["index.toon"]
               hook == catalog["rules-catalog.md"]
    <2>1. /\ readme = [i \in R |-> [entry |-> MakeEntry(i), extra |-> DisplayExtra(i)]]
          /\ sidecar = [i \in R |-> MakeEntry(i)]
          /\ hook = AgentHook(R)
      BY <1>1, CheckIsDue DEF CheckPasses, CatalogMarkdown, Sidecar
    <2>2. ASSUME NEW i \in R
          PROVE  /\ i \in Ids /\ disk[i] \in Manifests
                 /\ MakeEntry(i) \in Entry /\ DisplayExtra(i) \in Extra
                 /\ IsLowRated(disk[i]) => LowFeedback(disk[i])
      BY <1>1, EntryTyped
    <2>3. R \in SUBSET Ids
      BY <2>2
    <2>4. {i \in R : IsLowRated(disk[i])} \in SUBSET Ids
      BY <2>3
    <2>5. /\ Cardinality(R) \in Nat
          /\ Cardinality({i \in R : IsLowRated(disk[i])}) \in Nat
      <3> HIDE DEF R
      <3>1. IsFiniteSet(R) /\ IsFiniteSet({i \in R : IsLowRated(disk[i])})
        BY <2>3, <2>4, SlugAssumption, FS_Subset
      <3> QED
        BY <3>1, FS_CardinalityType
    <2> HIDE DEF R
    <2>6. /\ hook.total = Cardinality(R) /\ hook.groups = {GroupOf[i] : i \in R}
          /\ hook.low = Cardinality({i \in R : IsLowRated(disk[i])})
          /\ hook \in Hook
      BY <2>1, <2>3, <2>5 DEF AgentHook, Hook
    <2>7. readme \in [R -> [entry : Entry, extra : Extra]] /\ sidecar \in [R -> Entry]
      <3>1. \A i \in R : [entry |-> MakeEntry(i), extra |-> DisplayExtra(i)]
                           \in [entry : Entry, extra : Extra]
        BY <2>2
      <3> QED
        BY <2>1, <2>2, <3>1
    <2>8. \A none \in {Absent, Torn} :
            /\ none \notin Hook
            /\ none \notin [R -> Entry] /\ none \notin [R -> [entry : Entry, extra : Extra]]
      BY <2>3, ArtifactAssumption
    <2>9. {readme, sidecar, hook} \cap {Absent, Torn} = {}
      BY <2>6, <2>7, <2>8
    <2>10. DOMAIN readme = R /\ DOMAIN sidecar = R
      BY <2>1
    <2>11. ASSUME NEW i \in R
           PROVE  /\ sidecar[i].summary = SummaryOf[disk[i].body] /\ sidecar[i].state = disk[i].state
                  /\ sidecar[i].group = GroupOf[i] /\ sidecar[i].low = IsLowRated(disk[i])
                  /\ readme[i].entry = sidecar[i]
                  /\ readme[i].extra.section = disk[i].section
                  /\ readme[i].extra.counts = <<disk[i].helpful, disk[i].mixed, disk[i].unhelpful>>
      <3>1. sidecar[i] = MakeEntry(i)
        BY <2>1
      <3>2. readme[i].entry = MakeEntry(i) /\ readme[i].extra = DisplayExtra(i)
        BY <2>1
      <3> QED
        BY <3>1, <3>2 DEF MakeEntry, DisplayExtra
    <2>12. \A i \in R : sidecar[i].low => LowFeedback(disk[i])
      BY <2>2, <2>11
    <2> HIDE DEF readme, sidecar, hook
    <2>13. hook.low = Cardinality({i \in DOMAIN sidecar : sidecar[i].low})
      <3>1. {i \in DOMAIN sidecar : sidecar[i].low} = {i \in R : IsLowRated(disk[i])}
        BY <2>10, <2>11
      <3> QED
        BY <2>6, <3>1
    <2>14. hook.groups = {sidecar[i].group : i \in DOMAIN sidecar}
      BY <2>6, <2>10, <2>11
    <2> QED
      BY <2>6, <2>9, <2>10, <2>11, <2>12, <2>13, <2>14
         DEF CatalogTruthful, readme, sidecar, hook, R
  <1>2. IndexInv => CheckSound
    BY <1>1 DEF CheckSound
  <1> QED
    BY <1>2, IndexAlways, PTL


\* A step that leaves the rules a command can reach as they are.
RulesSame == disk' = disk /\ Reachable' = Reachable

LEMMA RootsKnown ==
  ASSUME disk' = disk, roots \subseteq roots', roots' \subseteq roots \cup Discovered
  PROVE  RulesSame
  <1>1. Readable' = Readable /\ Discovered' = Discovered
    BY DEF Readable, OnDisk, Discovered
  <1>2. roots' \cup Discovered = roots \cup Discovered
    OBVIOUS
  <1> QED
    BY <1>1, <1>2 DEF RulesSame, Reachable

\* Otherwise nothing that was made from them is still held to be true.
LEMMA RulesKept ==
  ASSUME [Next]_vars
  PROVE  RulesSame \/ (fresh' = FALSE /\ made' = [o \in Outs |-> Absent])
  <1>1. ASSUME NEW reindex, Bootstrap(reindex) PROVE RulesSame
    BY <1>1, RootsKnown DEF Bootstrap
  <1>2. CASE disk' = disk /\ roots' = roots
    BY <1>2, RootsKnown
  <1>3. CASE BootstrapRuleStore \/ WithStore
    BY <1>1, <1>3 DEF BootstrapRuleStore, WithStore
  <1>4. CASE \E force \in BOOLEAN : ScanCommand(force) \/ RuleScanTool(force)
    BY <1>1, <1>4 DEF ScanCommand, RuleScanTool
  <1>5. CASE BootstrapDies
    <2>1. PICK found \in SUBSET Discovered : roots' = roots \cup found /\ disk' = disk
      BY <1>5 DEF BootstrapDies
    <2> QED
      BY <2>1, RootsKnown
  <1>6. ASSUME NEW r \in Roots, AddRootCommand(r) \/ RuleAddRootTool(r)
        PROVE  RulesSame \/ (fresh' = FALSE /\ made' = [o \in Outs |-> Absent])
    <2>1. CASE r \in roots
      <3>1. /\ disk' = disk /\ roots \subseteq roots' /\ roots' \subseteq roots \cup Discovered
        BY <1>6, <2>1 DEF AddRootCommand, RuleAddRootTool
      <3> QED
        BY <3>1, RootsKnown
    <2>2. CASE r \notin roots
      BY <1>6, <2>2 DEF AddRootCommand, RuleAddRootTool, Changed
    <2> QED
      BY <2>1, <2>2
  <1>7. CASE IndexLost
    <2>1. CASE roots' = roots
      BY <1>2, <1>7, <2>1 DEF IndexLost
    <2>2. CASE roots' # roots
      BY <1>7, <2>2 DEF IndexLost, Changed
    <2> QED
      BY <2>1, <2>2
  <1>8. ASSUME NEW i, NEW m, Save(i, m) \/ OutsideEdit(i, m)
        PROVE  fresh' = FALSE /\ made' = [o \in Outs |-> Absent]
    BY <1>8 DEF Save, OutsideEdit, Changed
  <1>9. CASE Commands
    <2>1. CASE Read
      BY <1>3, <2>1 DEF Read
    <2>2. CASE OpenRefused
      BY <1>2, <2>2 DEF OpenRefused
    <2>3. CASE \E s \in Selectors : GenerateTargetCommand(s)
      BY <1>3, <2>3 DEF GenerateTargetCommand
    <2>4. CASE \E t \in Targets : RuleGenerateTargetTool(t)
      BY <1>3, <2>4 DEF RuleGenerateTargetTool
    <2>5. CASE \E t \in Requests : GenerateFileCommand(t) \/ RuleGenerateFileTool(t)
      BY <1>3, <2>5 DEF GenerateFileCommand, RuleGenerateFileTool
    <2>6. CASE StoreIndexCommand
      BY <1>3, <2>6 DEF StoreIndexCommand
    <2>7. CASE WriteCatalogFile
      BY <1>2, <2>7 DEF WriteCatalogFile
    <2> QED
      BY <1>4, <1>6, <1>9, <2>1, <2>2, <2>3, <2>4, <2>5, <2>6, <2>7 DEF Commands
  <1>10. CASE World
    <2>1. CASE StoreIndexStops \/ OutsideFile
      BY <1>2, <2>1 DEF StoreIndexStops, OutsideFile
    <2> QED
      BY <1>5, <1>7, <1>8, <1>10, <2>1 DEF World
  <1>11. CASE UNCHANGED vars
    BY <1>2, <1>11 DEF vars
  <1> QED
    BY <1>9, <1>10, <1>11 DEF Next

(***************************************************************************)
(* The files of a store-index that nothing has overtaken: some are written *)
(* as they are due, the others are still to be written so.                 *)
(***************************************************************************)
CatalogTyped ==
  catalog = [f \in {"README.md", "index.toon", "rules-catalog.md"} |-> catalog[f]]

ReadmeDue  == <<"README.md", CatalogMarkdown(Reachable)>>
SidecarDue == <<"index.toon", Sidecar(Reachable)>>
HookDue    == <<"rules-catalog.md", AgentHook(Reachable)>>

WrittenOf(due) == catalog[due[1]] = due[2]

WritingDue ==
  fresh =>
    \/ writing = <<ReadmeDue, SidecarDue, HookDue>>
    \/ writing = <<SidecarDue, HookDue>> /\ WrittenOf(ReadmeDue)
    \/ writing = <<HookDue>> /\ WrittenOf(ReadmeDue) /\ WrittenOf(SidecarDue)
    \/ writing = <<>> /\ WrittenOf(ReadmeDue) /\ WrittenOf(SidecarDue) /\ WrittenOf(HookDue)

CatalogInv == CatalogTyped /\ fresh \in BOOLEAN /\ WritingDue

LEMMA CatalogInit == Init => CatalogInv
  <1> SUFFICES ASSUME Init PROVE CatalogInv
    OBVIOUS
  <1>1. ToSet(Files) = {"README.md", "index.toon", "rules-catalog.md"}
    <2>1. DOMAIN Files = {1, 2, 3}
      BY DEF Files
    <2> QED
      BY <2>1 DEF Files, ToSet
  <1> QED
    BY <1>1 DEF Init, CatalogInv, CatalogTyped, WritingDue

LEMMA SameRulesDue ==
  ASSUME RulesSame
  PROVE  ReadmeDue' = ReadmeDue /\ SidecarDue' = SidecarDue /\ HookDue' = HookDue
  BY DEF RulesSame, ReadmeDue, SidecarDue, HookDue, CatalogMarkdown, Sidecar, AgentHook,
         MakeEntry, DisplayExtra, IsLowRated

LEMMA StartDue ==
  ASSUME IndexInv, StoreIndexCommand
  PROVE  writing' = <<ReadmeDue, SidecarDue, HookDue>>'
  <1>1. /\ Opens /\ Bootstrap(CliReindex)
        /\ writing' = [k \in DOMAIN Files |-> <<Files[k], Artifacts(CliRows)[k]>>]
    BY DEF StoreIndexCommand, BootstrapRuleStore, Bootstrap
  <1>2. Artifacts(CliRows) = Due
    BY <1>1, ArtifactsDue DEF CliRows, CliReindex
  <1>3. RulesSame
    BY <1>1, RootsKnown DEF Bootstrap
  <1>4. /\ DOMAIN Files = 1..3
        /\ Files[1] = "README.md" /\ Files[2] = "index.toon" /\ Files[3] = "rules-catalog.md"
    BY DEF Files
  <1>5. writing' = [k \in 1..3 |-> <<Files[k], Due[k]>>]
    BY <1>1, <1>2, <1>4
  <1>6. <<Files[1], Due[1]>> = ReadmeDue /\ <<Files[2], Due[2]>> = SidecarDue
        /\ <<Files[3], Due[3]>> = HookDue
    BY <1>4 DEF Due, ReadmeDue, SidecarDue, HookDue
  <1>7. writing' = <<ReadmeDue, SidecarDue, HookDue>>
    BY <1>5, <1>6
  <1> QED
    BY <1>3, <1>7, SameRulesDue

\* A file is written; the others stay.
LEMMA WriteDue ==
  ASSUME CatalogInv, WriteCatalogFile
  PROVE  CatalogInv'
  <1>1. /\ RulesSame /\ fresh' = fresh /\ writing # <<>>
        /\ catalog' = [catalog EXCEPT ![writing[1][1]] = writing[1][2]]
        /\ writing' = Tail(writing)
    BY RootsKnown DEF WriteCatalogFile
  <1>2. CatalogTyped'
    BY <1>1 DEF CatalogInv, CatalogTyped
  <1>3. PICK a, b, c : a = ReadmeDue /\ b = SidecarDue /\ c = HookDue
    OBVIOUS
  <1>4. ReadmeDue' = a /\ SidecarDue' = b /\ HookDue' = c
    BY <1>1, <1>3, SameRulesDue
  <1>5. a[1] = "README.md" /\ b[1] = "index.toon" /\ c[1] = "rules-catalog.md"
    BY <1>3 DEF ReadmeDue, SidecarDue, HookDue
  <1>6. ASSUME NEW d \in {a, b, c}, writing[1] = d
        PROVE  /\ catalog'[d[1]] = d[2]
               /\ \A e \in {a, b, c} : e # d => catalog'[e[1]] = catalog[e[1]] \/ e[1] = d[1]
    BY <1>1, <1>5, <1>6 DEF CatalogInv, CatalogTyped
  <1>7. ASSUME fresh PROVE WritingDue'
    <2>1. CASE writing = <<a, b, c>>
      <3>1. writing[1] = a /\ writing' = <<b, c>>
        BY <1>1, <2>1
      <3> QED
        BY <1>4, <1>6, <3>1 DEF WritingDue, WrittenOf
    <2>2. CASE writing = <<b, c>> /\ catalog[a[1]] = a[2]
      <3>1. writing[1] = b /\ writing' = <<c>>
        BY <1>1, <2>2
      <3>2. catalog'[b[1]] = b[2] /\ catalog'[a[1]] = a[2]
        BY <1>5, <1>6, <2>2, <3>1
      <3> QED
        BY <1>4, <3>1, <3>2 DEF WritingDue, WrittenOf
    <2>3. CASE writing = <<c>> /\ catalog[a[1]] = a[2] /\ catalog[b[1]] = b[2]
      <3>1. writing[1] = c /\ writing' = <<>>
        BY <1>1, <2>3
      <3>2. catalog'[c[1]] = c[2] /\ catalog'[a[1]] = a[2] /\ catalog'[b[1]] = b[2]
        BY <1>5, <1>6, <2>3, <3>1
      <3> QED
        BY <1>4, <3>1, <3>2 DEF WritingDue, WrittenOf
    <2> QED
      BY <1>1, <1>3, <1>7, <2>1, <2>2, <2>3 DEF CatalogInv, WritingDue, WrittenOf
  <1>8. ~fresh => WritingDue'
    BY <1>1 DEF WritingDue
  <1> QED
    BY <1>1, <1>2, <1>7, <1>8 DEF CatalogInv


\* Steps that leave the catalog alone.
LEMMA CatalogKept ==
  ASSUME CatalogInv, [Next]_vars, UNCHANGED <<catalog, writing>>,
         fresh' \in BOOLEAN, fresh' => fresh
  PROVE  CatalogInv'
  <1>1. CatalogTyped'
    BY DEF CatalogInv, CatalogTyped
  <1>2. ASSUME fresh' PROVE WritingDue'
    <2>1. RulesSame /\ fresh
      BY <1>2, RulesKept
    <2> QED
      BY <2>1, SameRulesDue DEF CatalogInv, WritingDue, WrittenOf
  <1> QED
    BY <1>1, <1>2 DEF CatalogInv, WritingDue

LEMMA CatalogStep == IndexInv /\ CatalogInv /\ [Next]_vars => CatalogInv'
  <1> SUFFICES ASSUME IndexInv, CatalogInv, [Next]_vars PROVE CatalogInv'
    OBVIOUS
  <1>1. CASE UNCHANGED <<catalog, writing>> /\ fresh' \in BOOLEAN /\ (fresh' => fresh)
    BY <1>1, CatalogKept
  <1>2. CASE UNCHANGED <<catalog, writing, fresh>>
    BY <1>1, <1>2 DEF CatalogInv
  <1>3. ASSUME NEW really \in BOOLEAN, Changed(really), UNCHANGED <<catalog, writing>>
        PROVE  CatalogInv'
    BY <1>1, <1>3 DEF Changed, CatalogInv
  <1>4. CASE StoreIndexCommand
    <2>1. CatalogTyped' /\ fresh' = TRUE
      BY <1>4 DEF StoreIndexCommand, CatalogInv, CatalogTyped
    <2>2. writing' = <<ReadmeDue, SidecarDue, HookDue>>'
      BY <1>4, StartDue
    <2> QED
      BY <2>1, <2>2 DEF CatalogInv, WritingDue
  <1>5. CASE StoreIndexStops
    <2>1. PICK left : catalog' = [catalog EXCEPT ![writing[1][1]] = left]
      BY <1>5 DEF StoreIndexStops
    <2>2. CatalogTyped' /\ fresh' = FALSE
      BY <1>5, <2>1 DEF StoreIndexStops, CatalogInv, CatalogTyped
    <2> QED
      BY <2>2 DEF CatalogInv, WritingDue
  <1>6. CASE OutsideFile
    <2>1. CASE UNCHANGED <<catalog, fresh>>
      BY <1>2, <1>6, <2>1 DEF OutsideFile
    <2>2. CASE fresh' = FALSE /\ \E f \in ToSet(Files), c \in {Absent, Torn} :
                                    catalog' = [catalog EXCEPT ![f] = c]
      <3>1. CatalogTyped'
        BY <2>2 DEF CatalogInv, CatalogTyped
      <3> QED
        BY <2>2, <3>1 DEF CatalogInv, WritingDue
    <2> QED
      BY <1>6, <2>1, <2>2 DEF OutsideFile
  <1>7. CASE Commands
    <2>1. CASE Read \/ OpenRefused
      BY <1>2, <2>1 DEF Read, OpenRefused
    <2>2. CASE \E force \in BOOLEAN : ScanCommand(force) \/ RuleScanTool(force)
      BY <1>2, <2>2 DEF ScanCommand, RuleScanTool
    <2>3. ASSUME NEW r \in Roots, AddRootCommand(r) \/ RuleAddRootTool(r) PROVE CatalogInv'
      <3>1. Changed(r \notin roots) /\ UNCHANGED <<catalog, writing>> /\ (r \notin roots) \in BOOLEAN
        BY <2>3 DEF AddRootCommand, RuleAddRootTool
      <3> QED
        BY <1>3, <3>1
    <2>4. CASE \E s \in Selectors : GenerateTargetCommand(s)
      BY <1>2, <2>4 DEF GenerateTargetCommand
    <2>5. CASE \E t \in Targets : RuleGenerateTargetTool(t)
      BY <1>2, <2>5 DEF RuleGenerateTargetTool
    <2>6. CASE \E t \in Requests : GenerateFileCommand(t) \/ RuleGenerateFileTool(t)
      BY <1>2, <2>6 DEF GenerateFileCommand, RuleGenerateFileTool
    <2> QED
      BY <1>4, <1>7, <2>1, <2>2, <2>3, <2>4, <2>5, <2>6, WriteDue DEF Commands
  <1>8. CASE World
    <2>1. ASSUME NEW i, NEW m, Save(i, m) \/ OutsideEdit(i, m) PROVE CatalogInv'
      <3>1. Changed(TRUE) /\ UNCHANGED <<catalog, writing>>
        BY <2>1 DEF Save, OutsideEdit
      <3> QED
        BY <1>3, <3>1
    <2>2. CASE BootstrapDies
      BY <1>2, <2>2 DEF BootstrapDies
    <2>3. CASE IndexLost
      <3>1. Changed(roots' # roots) /\ UNCHANGED <<catalog, writing>> /\ (roots' # roots) \in BOOLEAN
        BY <2>3 DEF IndexLost
      <3> QED
        BY <1>3, <3>1
    <2> QED
      BY <1>5, <1>6, <1>8, <2>1, <2>2, <2>3 DEF World
  <1>9. CASE UNCHANGED vars
    BY <1>2, <1>9 DEF vars
  <1> QED
    BY <1>7, <1>8, <1>9 DEF Next

(* After a store-index that finished, --check passes until a rule changes:
   rescans, lost indexes and other commands in between raise no false alarm. *)
THEOREM NoFalseAlarm == Spec => []CheckQuiet
  <1>1. Init => CatalogInv
    BY CatalogInit
  <1>2. IndexInv /\ CatalogInv /\ [Next]_vars => CatalogInv'
    BY CatalogStep
  <1>3. IndexInv /\ CatalogInv => CheckQuiet
    <2> SUFFICES ASSUME IndexInv, CatalogInv, fresh, writing = <<>>, Opens PROVE CheckPasses
      BY DEF CheckQuiet
    <2>1. WrittenOf(ReadmeDue) /\ WrittenOf(SidecarDue) /\ WrittenOf(HookDue)
      BY DEF CatalogInv, WritingDue
    <2>2. /\ catalog["README.md"] = CatalogMarkdown(Reachable)
          /\ catalog["index.toon"] = Sidecar(Reachable)
          /\ catalog["rules-catalog.md"] = AgentHook(Reachable)
      BY <2>1 DEF WrittenOf, ReadmeDue, SidecarDue, HookDue
    <2> QED
      BY <2>2, CheckIsDue
  <1> QED
    BY <1>1, <1>2, <1>3, IndexAlways, PTL DEF Spec


-----------------------------------------------------------------------------
(* Search. *)
LEMMA FirstOfIs ==
  ASSUME NEW S, NEW s \in Seq(S), NEW n \in Nat
  PROVE  /\ FirstOf(s, n) \in Seq(S)
         /\ Len(FirstOf(s, n)) = IF n < Len(s) THEN n ELSE Len(s)
         /\ DOMAIN FirstOf(s, n) = 1..(IF n < Len(s) THEN n ELSE Len(s))
         /\ \A k \in 1..(IF n < Len(s) THEN n ELSE Len(s)) : FirstOf(s, n)[k] = s[k]
  <1> DEFINE m == IF n < Len(s) THEN n ELSE Len(s)
  <1>1. Len(s) \in Nat /\ m \in Nat /\ m <= Len(s)
    BY LenProperties
  <1>2. FirstOf(s, n) = SubSeq(s, 1, m)
    BY DEF FirstOf
  <1> HIDE DEF m
  <1>3. \A k \in 1..m : k \in 1..Len(s)
    BY <1>1
  <1>4. /\ SubSeq(s, 1, m) \in Seq(S) /\ Len(SubSeq(s, 1, m)) = m
        /\ \A k \in 1..m : SubSeq(s, 1, m)[k] = s[k]
    <2>1. m <= Len(s) /\ m \in 0..Len(s)
      BY <1>1
    <2> QED
      BY <1>1, <1>3, <2>1, SubSeqProperties
  <1>5. DOMAIN SubSeq(s, 1, m) = 1..m
    BY <1>4, LenProperties
  <1> QED
    BY <1>2, <1>4, <1>5 DEF m

\* The places of s at which t, what s has of T, is found.
Places(places, s, T, t) ==
  /\ places \in Seq(DOMAIN s) /\ Range(places) = {n \in DOMAIN s : s[n] \in T}
  /\ \A j, k \in DOMAIN places : j < k => places[j] < places[k]
  /\ DOMAIN t = DOMAIN places
  /\ \A k \in DOMAIN places : t[k] = s[places[k]]

LEMMA AmongIs ==
  ASSUME NEW S, NEW s \in Seq(S), NEW T
  PROVE  /\ Among(s, T) \in Seq(S \cap T)
         /\ \E places : Places(places, s, T, Among(s, T))
  <1> DEFINE which == {n \in DOMAIN s : s[n] \in T}
             places == Ascending(which)
  <1>1. Len(s) \in Nat /\ DOMAIN s = 1..Len(s)
    BY LenProperties
  <1>2. which \subseteq Nat /\ IsFiniteSet(which)
    <2>1. IsFiniteSet(1..Len(s))
      BY <1>1, FS_Interval
    <2>2. which \in SUBSET (1..Len(s))
      BY <1>1
    <2>3. which \subseteq Nat
      BY <1>1
    <2>4. IsFiniteSet(which)
      <3> HIDE DEF which
      <3> QED
        BY <2>1, <2>2, FS_Subset
    <2> QED
      BY <2>3, <2>4
  <1>3. /\ places \in Seq(which) /\ Range(places) = which
        /\ \A j, k \in DOMAIN places : j < k => places[j] < places[k]
    <2> HIDE DEF which
    <2> QED
      BY <1>2, AscendingLists
  <1>4. Among(s, T) = [k \in DOMAIN places |-> s[places[k]]]
    BY DEF Among
  <1> HIDE DEF places
  <1>5. places \in Seq(DOMAIN s) /\ Len(places) \in Nat /\ DOMAIN places = 1..Len(places)
    <2>1. which \subseteq DOMAIN s
      OBVIOUS
    <2>2. Len(places) \in Nat /\ DOMAIN places = 1..Len(places)
      BY <1>3, LenProperties
    <2>3. places \in [1..Len(places) -> DOMAIN s]
      BY <1>3, <2>1, <2>2, ElementOfSeq
    <2> QED
      BY <2>2, <2>3, SeqDef
  <1>6. \A k \in DOMAIN places : places[k] \in which
    BY <1>3 DEF Range
  <1>7. \A n \in DOMAIN s : s[n] \in S
    BY ElementOfSeq, <1>1
  <1>8. Among(s, T) \in [1..Len(places) -> S \cap T]
    BY <1>4, <1>5, <1>6, <1>7
  <1>9. Among(s, T) \in Seq(S \cap T)
    BY <1>5, <1>8, SeqDef
  <1>10. Places(places, s, T, Among(s, T))
    BY <1>3, <1>4, <1>5 DEF Places
  <1> QED
    BY <1>9, <1>10

(* search answers with the best-ranked rules that satisfy the filter, the
   state aside: one it passes over is beyond the window of candidates, or
   the answer is full and every rule in it is better. *)
THEOREM SearchTruthful == Spec => []SearchHonest
  <1>1. ASSUME IndexInv, Opens, NEW f \in Filters, NEW ranked \in Rankings, NEW limit \in Limits
        PROVE  LET found == Search(disk, CliRows, ranked, f, limit)
                   right == {i \in Reachable : Matches(f, i, disk[i])}
               IN  /\ ToSet(found) \subseteq right
                   /\ Len(found) <= limit
                   /\ \A k \in DOMAIN ranked :
                        ranked[k] \in right \ ToSet(found) =>
                          \/ k > 4 * limit
                          \/ /\ Len(found) = limit
                             /\ \A j \in DOMAIN found : \E n \in 1..(k - 1) : found[j] = ranked[n]
    <2> DEFINE right == {i \in Reachable : Matches(f, i, disk[i])}
    <2>1. limit \in Nat /\ 4 * limit \in Nat
      BY StartAssumption
    <2>2. ranked \in Seq(Ids)
      BY StartAssumption, SlugAssumption, OrderCovers
    <2>3. {i \in Ids : CliRows[i] # Absent /\ Matches(f, i, disk[i])} = right
      <3>1. \A i \in Ids : CliRows[i] # Absent <=> i \in Reachable
        BY <1>1, ScannedRows DEF CliRows, CliReindex
      <3>2. Reachable \subseteq Ids
        BY DEF Reachable, Readable, OnDisk
      <3> QED
        BY <3>1, <3>2
    <2>4. PICK candidates : candidates = Candidates(ranked, limit)
      OBVIOUS
    <2>5. PICK all : all = Among(candidates, right)
      OBVIOUS
    <2>6. PICK found : found = FirstOf(all, limit)
      OBVIOUS
    <2>7. Search(disk, CliRows, ranked, f, limit) = found
      BY <2>3, <2>4, <2>5, <2>6 DEF Search
    <2> HIDE DEF right
    <2>8. Len(ranked) \in Nat /\ DOMAIN ranked = 1..Len(ranked)
      BY <2>2, LenProperties
    <2>9. PICK window : window = 4 * limit
      OBVIOUS
    <2>10. window \in Nat
      BY <2>1, <2>9
    <2>11. /\ candidates \in Seq(Ids)
           /\ DOMAIN candidates = 1..(IF window < Len(ranked) THEN window ELSE Len(ranked))
           /\ \A k \in DOMAIN candidates : candidates[k] = ranked[k]
      BY <2>2, <2>4, <2>9, <2>10, FirstOfIs DEF Candidates
    <2>12. /\ all \in Seq(Ids \cap right)
           /\ \E places \in Seq(DOMAIN candidates) :
                /\ Range(places) = {n \in DOMAIN candidates : candidates[n] \in right}
                /\ \A j, k \in DOMAIN places : j < k => places[j] < places[k]
                /\ DOMAIN all = DOMAIN places
                /\ \A k \in DOMAIN places : all[k] = candidates[places[k]]
      <3>1. all \in Seq(Ids \cap right) /\ \E places : Places(places, candidates, right, all)
        BY <2>5, <2>11, AmongIs
      <3> QED
        BY <3>1 DEF Places
    <2>18. PICK places \in Seq(DOMAIN candidates) :
             /\ Range(places) = {n \in DOMAIN candidates : candidates[n] \in right}
             /\ \A j, k \in DOMAIN places : j < k => places[j] < places[k]
             /\ DOMAIN all = DOMAIN places
             /\ \A k \in DOMAIN places : all[k] = candidates[places[k]]
      BY <2>12
    <2>13. Len(all) \in Nat /\ DOMAIN all = 1..Len(all)
      BY <2>12, LenProperties
    <2>14. /\ found \in Seq(Ids \cap right)
           /\ Len(found) = IF limit < Len(all) THEN limit ELSE Len(all)
           /\ DOMAIN found = 1..(IF limit < Len(all) THEN limit ELSE Len(all))
           /\ \A k \in DOMAIN found : found[k] = all[k]
      BY <2>1, <2>6, <2>12, FirstOfIs
    <2>15. ToSet(found) \subseteq right
      <3>1. \A k \in DOMAIN found : found[k] \in Ids \cap right
        BY <2>14, LenProperties, ElementOfSeq
      <3> QED
        BY <3>1 DEF ToSet
    <2>16. Len(found) <= limit
      BY <2>1, <2>13, <2>14
    <2>17. ASSUME NEW k \in DOMAIN ranked, ranked[k] \in right \ ToSet(found), ~(k > window)
           PROVE  Len(found) = limit
                  /\ \A j \in DOMAIN found : \E n \in 1..(k - 1) : found[j] = ranked[n]
      <3>1. k \in DOMAIN candidates /\ candidates[k] = ranked[k]
        BY <2>8, <2>10, <2>11, <2>17
      <3>2. PICK q \in DOMAIN places : places[q] = k
        BY <2>12, <2>18, <2>17, <3>1 DEF Range
      <3>3. q \in 1..Len(all) /\ all[q] = ranked[k]
        BY <2>12, <2>18, <2>13, <3>1, <3>2
      <3>4. q \notin DOMAIN found
        BY <2>14, <2>17, <3>3 DEF ToSet
      <3>5. limit < q /\ limit < Len(all)
        BY <2>1, <2>13, <2>14, <3>3, <3>4
      <3>6. ASSUME NEW j \in DOMAIN found PROVE \E n \in 1..(k - 1) : found[j] = ranked[n]
        <4>1. j \in DOMAIN places /\ j < q
          BY <2>1, <2>12, <2>18, <2>13, <2>14, <3>3, <3>5
        <4>2. places[j] < k /\ places[j] \in DOMAIN candidates
          BY <2>12, <2>18, <3>2, <4>1, LenProperties, ElementOfSeq
        <4>3. found[j] = ranked[places[j]]
          BY <2>11, <2>12, <2>18, <2>14, <4>1, <4>2
        <4>4. places[j] \in 1..(k - 1)
          BY <2>8, <2>10, <2>11, <4>2
        <4> QED
          BY <4>3, <4>4
      <3> QED
        BY <2>14, <3>5, <3>6
    <2> QED
      BY <2>7, <2>9, <2>15, <2>16, <2>17 DEF right
  <1>2. IndexInv => SearchHonest
    BY <1>1 DEF SearchHonest
  <1> QED
    BY <1>2, IndexAlways, PTL


-----------------------------------------------------------------------------
(* What the nodes of a target ask for. *)
Nodes(t) == OrderedNodes(t)
Parent(t, n) == OrderedNodes(t)[n].parent

LEMMA NodesTyped ==
  ASSUME NEW t \in Targets \cup Requests
  PROVE  /\ Len(Nodes(t)) \in Nat /\ Len(Nodes(t)) # 0
         /\ \A n \in 1..Len(Nodes(t)) : Parent(t, n) \in 0..(n - 1)
         /\ \A n, m \in 1..Len(Nodes(t)) :
              Parent(t, m) < n /\ n < m => Parent(t, m) <= Parent(t, n)
  <1>1. t.nodes \in Seq(ToSet(t.nodes))
    BY TargetAssumption
  <1>2. CASE t.nodes = <<>>
    <2>1. Nodes(t) = <<[parent |-> 0, filter |-> t.filter]>>
      BY <1>2 DEF Nodes, OrderedNodes
    <2>2. PICK root : root = [parent |-> 0, filter |-> t.filter]
      OBVIOUS
    <2>3. Len(Nodes(t)) = 1 /\ Nodes(t)[1] = root /\ root.parent = 0
      BY <2>1, <2>2
    <2>4. \A n \in 1..Len(Nodes(t)) : n = 1
      BY <2>3
    <2> QED
      BY <2>3, <2>4 DEF Parent, Nodes
  <1>3. CASE t.nodes # <<>>
    <2>1. Nodes(t) = t.nodes /\ OrderedNodes(t) = t.nodes
      BY <1>3 DEF Nodes, OrderedNodes
    <2>2. Len(t.nodes) \in Nat /\ Len(t.nodes) # 0
      BY <1>1, <1>3, LenProperties, EmptySeq
    <2>3. /\ \A n \in 1..Len(t.nodes) : t.nodes[n].parent \in 0..(n - 1)
          /\ \A n, m \in 1..Len(t.nodes) :
               t.nodes[m].parent < n /\ n < m => t.nodes[m].parent <= t.nodes[n].parent
      BY TargetAssumption
    <2> QED
      BY <2>1, <2>2, <2>3 DEF Parent
  <1> QED
    BY <1>2, <1>3

\* A function is determined along the parents of a tree: the least number of
\* nodes for which there were none cannot be.
Descends(f, N, parent, first, step) ==
  \A n \in 0..N : f[n] = IF n = 0 THEN first ELSE step[<<n, f[parent[n]]>>]

LEMMA Descent ==
  ASSUME NEW N \in Nat, NEW parent, \A n \in 1..N : parent[n] \in 0..(n - 1),
         NEW V, NEW first \in V, NEW step, \A n \in 1..N : \A v \in V : step[<<n, v>>] \in V
  PROVE  \E f \in [0..N -> V] : Descends(f, N, parent, first, step)
  <1> DEFINE Has(m) == \E f \in [0..m -> V] : Descends(f, m, parent, first, step)
             T == {m \in 0..N : ~Has(m)}
  <1>1. T = {}
    <2> SUFFICES ASSUME T # {} PROVE FALSE
      OBVIOUS
    <2> HIDE DEF Has
    <2>1. T \subseteq Nat
      OBVIOUS
    <2>2. PICK m \in T : \A k \in T : m <= k
      <3> HIDE DEF T
      <3> QED
        BY <2>1, Least
    <2>3. m \in 0..N /\ ~Has(m)
      OBVIOUS
    <2>4. m # 0
      <3>1. ASSUME m = 0 PROVE Has(m)
        <4> DEFINE f == [n \in 0..0 |-> first]
        <4>1. f \in [0..m -> V]
          BY <3>1
        <4>2. Descends(f, m, parent, first, step)
          BY <3>1 DEF Descends
        <4> HIDE DEF f
        <4> QED
          BY <4>1, <4>2 DEF Has
      <3> QED
        BY <2>3, <3>1
    <2>5. m - 1 \in 0..N /\ ~(m <= m - 1) /\ m \in 1..N
      BY <2>3, <2>4
    <2>6. Has(m - 1)
      BY <2>2, <2>5
    <2>7. PICK f \in [0..(m - 1) -> V] : Descends(f, m - 1, parent, first, step)
      BY <2>6 DEF Has
    <2>8. parent[m] \in 0..(m - 1)
      BY <2>5
    <2>9. step[<<m, f[parent[m]]>>] \in V
      BY <2>5, <2>7, <2>8
    <2> DEFINE g == [n \in 0..m |-> IF n = m THEN step[<<m, f[parent[m]]>>] ELSE f[n]]
    <2>10. \A n \in 0..m : n = m \/ n \in 0..(m - 1)
      BY <2>5
    <2>11. g \in [0..m -> V]
      BY <2>7, <2>9, <2>10
    <2>12. ASSUME NEW n \in 0..m
           PROVE  g[n] = IF n = 0 THEN first ELSE step[<<n, g[parent[n]]>>]
      <3>1. CASE n = m
        <4>1. g[n] = step[<<m, f[parent[m]]>>] /\ g[parent[m]] = f[parent[m]]
          BY <2>5, <2>8, <3>1
        <4> HIDE DEF g
        <4> QED
          BY <2>4, <3>1, <4>1
      <3>2. CASE n # m
        <4>1. n \in 0..(m - 1) /\ g[n] = f[n]
          BY <2>10, <3>2
        <4>2. f[n] = IF n = 0 THEN first ELSE step[<<n, f[parent[n]]>>]
          BY <2>7, <4>1 DEF Descends
        <4>3. n # 0 => n \in 1..N /\ parent[n] \in 0..(n - 1)
          BY <2>5, <4>1
        <4>4. n # 0 => parent[n] \in 0..(m - 1) /\ parent[n] # m /\ parent[n] \in 0..m
          BY <2>5, <4>1, <4>3
        <4>5. n # 0 => g[parent[n]] = f[parent[n]]
          BY <4>4
        <4> HIDE DEF g
        <4> QED
          BY <4>1, <4>2, <4>5
      <3> QED
        BY <3>1, <3>2
    <2>13. Has(m)
      <3> HIDE DEF g
      <3> QED
        BY <2>11, <2>12 DEF Has, Descends
    <2> QED
      BY <2>3, <2>13
  <1>2. Has(N)
    <2> HIDE DEF Has
    <2> QED
      BY <1>1
  <1> QED
    BY <1>2


\* The filters nodes inherit, and the nodes above a node, by their recursion.
Inherits(t, f) ==
  f = [n \in 0..Len(OrderedNodes(t)) |->
         IF n = 0 THEN t.filter
         ELSE Merged(f[OrderedNodes(t)[n].parent], OrderedNodes(t)[n].filter)]

Climbs(t, above) ==
  above = [m \in 0..Len(OrderedNodes(t)) |->
             IF m = 0 THEN {0} ELSE {m} \cup above[OrderedNodes(t)[m].parent]]

ValueOf(t, k, m) == IF m = 0 THEN t.filter[k] ELSE OrderedNodes(t)[m].filter[k]

\* The value of field k that is set nearest to a node with "way" above it.
Nearest(t, k, way) ==
  LET setters == {m \in way : ValueOf(t, k, m) # Unset}
  IN  IF setters = {} THEN Unset
      ELSE ValueOf(t, k, CHOOSE m \in setters : \A j \in setters : j <= m)

LEMMA EffectiveChosen ==
  ASSUME NEW t
  PROVE  Effective(t) = CHOOSE f : Inherits(t, f)
  BY DEF Effective, Inherits

LEMMA WantedChosen ==
  ASSUME NEW t, NEW n, NEW k
  PROVE  Wanted(t, n, k) = Nearest(t, k, (CHOOSE above : Climbs(t, above))[n])
  BY DEF Wanted, Climbs, Nearest, ValueOf

LEMMA EffectiveIs ==
  ASSUME NEW t \in Targets \cup Requests
  PROVE  /\ Effective(t)[0] = t.filter
         /\ \A n \in 1..Len(Nodes(t)) :
              Effective(t)[n] = Merged(Effective(t)[Parent(t, n)], OrderedNodes(t)[n].filter)
  <1> DEFINE N == Len(OrderedNodes(t))
             parent == [n \in 1..N |-> OrderedNodes(t)[n].parent]
             fields == {t.filter[k] : k \in TargetFields}
                         \cup {OrderedNodes(t)[n].filter[k] : n \in 1..N, k \in TargetFields}
             V == [TargetFields -> fields] \cup {t.filter}
             step == [p \in (1..N) \X V |-> Merged(p[2], OrderedNodes(t)[p[1]].filter)]
  <1>1. N \in Nat /\ \A n \in 1..N : OrderedNodes(t)[n].parent \in 0..(n - 1)
    BY NodesTyped DEF Nodes, Parent
  <1>2. ASSUME NEW n \in 1..N, NEW v \in V
        PROVE  Merged(v, OrderedNodes(t)[n].filter) \in V
    <2>1. \A k \in TargetFields : v[k] \in fields
      OBVIOUS
    <2>2. \A k \in TargetFields : OrderedNodes(t)[n].filter[k] \in fields
      OBVIOUS
    <2> HIDE DEF fields
    <2> QED
      BY <2>1, <2>2 DEF Merged
  <1>3. ASSUME NEW n \in 1..N, NEW v \in V
        PROVE  step[<<n, v>>] = Merged(v, OrderedNodes(t)[n].filter)
    <2> HIDE DEF V
    <2> QED
      OBVIOUS
  <1>4. t.filter \in V
    OBVIOUS
  <1> HIDE DEF V, step
  <1>5. \E f \in [0..N -> V] : Descends(f, N, parent, t.filter, step)
    <2>1. \A n \in 1..N : parent[n] \in 0..(n - 1)
      BY <1>1
    <2>2. \A n \in 1..N : \A v \in V : step[<<n, v>>] \in V
      BY <1>2, <1>3
    <2> HIDE DEF parent, N
    <2> QED
      BY <1>1, <1>4, <2>1, <2>2, Descent
  <1>6. PICK f \in [0..N -> V] : Descends(f, N, parent, t.filter, step)
    BY <1>5
  <1>7. ASSUME NEW n \in 0..N
        PROVE  f[n] = IF n = 0 THEN t.filter
                      ELSE Merged(f[OrderedNodes(t)[n].parent], OrderedNodes(t)[n].filter)
    <2>1. f[n] = IF n = 0 THEN t.filter ELSE step[<<n, f[parent[n]]>>]
      BY <1>6 DEF Descends
    <2>2. CASE n = 0
      BY <2>1, <2>2
    <2>3. CASE n # 0
      <3>1. n \in 1..N
        BY <1>1, <2>3
      <3>2. parent[n] = OrderedNodes(t)[n].parent /\ OrderedNodes(t)[n].parent \in 0..N
        BY <1>1, <3>1
      <3>3. f[OrderedNodes(t)[n].parent] \in V
        BY <3>2
      <3> QED
        BY <1>3, <2>1, <2>3, <3>1, <3>2, <3>3
    <2> QED
      BY <2>2, <2>3
  <1>8. Inherits(t, f)
    BY <1>7 DEF Inherits
  <1>9. PICK e : e = Effective(t)
    OBVIOUS
  <1>10. Inherits(t, e)
    BY <1>8, <1>9, EffectiveChosen
  <1>11. \A n \in 0..N :
           e[n] = IF n = 0 THEN t.filter
                  ELSE Merged(e[OrderedNodes(t)[n].parent], OrderedNodes(t)[n].filter)
    BY <1>10 DEF Inherits
  <1>12. 0 \in 0..N /\ \A n \in 1..N : n \in 0..N /\ n # 0
    BY <1>1
  <1> QED
    BY <1>9, <1>11, <1>12 DEF Nodes, Parent

Above(t) == CHOOSE above : Climbs(t, above)

LEMMA AboveIs ==
  ASSUME NEW t \in Targets \cup Requests
  PROVE  /\ Above(t)[0] = {0}
         /\ \A n \in 1..Len(Nodes(t)) : Above(t)[n] = {n} \cup Above(t)[Parent(t, n)]
         /\ \A n \in 0..Len(Nodes(t)) : Above(t)[n] \subseteq 0..n
  <1> DEFINE N == Len(OrderedNodes(t))
             parent == [n \in 1..N |-> OrderedNodes(t)[n].parent]
             V == SUBSET (0..N)
             step == [p \in (1..N) \X V |-> {p[1]} \cup p[2]]
  <1>1. N \in Nat /\ \A n \in 1..N : OrderedNodes(t)[n].parent \in 0..(n - 1)
    BY NodesTyped DEF Nodes, Parent
  <1>2. ASSUME NEW n \in 1..N, NEW v \in V
        PROVE  step[<<n, v>>] = {n} \cup v /\ {n} \cup v \in V
    <2>1. n \in 0..N
      BY <1>1
    <2>2. {n} \cup v \in V
      BY <2>1
    <2> HIDE DEF V
    <2> QED
      BY <2>2
  <1>4. {0} \in V
    BY <1>1
  <1> HIDE DEF V, step
  <1>5. \E f \in [0..N -> V] : Descends(f, N, parent, {0}, step)
    <2>1. \A n \in 1..N : parent[n] \in 0..(n - 1)
      BY <1>1
    <2>2. \A n \in 1..N : \A v \in V : step[<<n, v>>] \in V
      BY <1>2
    <2> HIDE DEF parent, N
    <2> QED
      BY <1>1, <1>4, <2>1, <2>2, Descent
  <1>6. PICK f \in [0..N -> V] : Descends(f, N, parent, {0}, step)
    BY <1>5
  <1>7. ASSUME NEW n \in 0..N
        PROVE  f[n] = IF n = 0 THEN {0} ELSE {n} \cup f[OrderedNodes(t)[n].parent]
    <2>1. f[n] = IF n = 0 THEN {0} ELSE step[<<n, f[parent[n]]>>]
      BY <1>6 DEF Descends
    <2>2. CASE n = 0
      BY <2>1, <2>2
    <2>3. CASE n # 0
      <3>1. n \in 1..N
        BY <1>1, <2>3
      <3>2. parent[n] = OrderedNodes(t)[n].parent /\ OrderedNodes(t)[n].parent \in 0..N
        BY <1>1, <3>1
      <3>3. f[OrderedNodes(t)[n].parent] \in V
        BY <3>2
      <3> QED
        BY <1>2, <2>1, <2>3, <3>1, <3>2, <3>3
    <2> QED
      BY <2>2, <2>3
  <1>8. Climbs(t, f)
    BY <1>7 DEF Climbs
  <1>9. PICK a : a = Above(t)
    OBVIOUS
  <1>10. Climbs(t, a)
    BY <1>8, <1>9 DEF Above
  <1>11. \A n \in 0..N :
           a[n] = IF n = 0 THEN {0} ELSE {n} \cup a[OrderedNodes(t)[n].parent]
    BY <1>10 DEF Climbs
  <1>12. 0 \in 0..N /\ \A n \in 1..N : n \in 0..N /\ n # 0
    BY <1>1
  <1> DEFINE T == {n \in 0..N : ~(a[n] \subseteq 0..n)}
  <1>13. T = {}
    <2> SUFFICES ASSUME T # {} PROVE FALSE
      OBVIOUS
    <2>1. T \subseteq Nat
      OBVIOUS
    <2>2. PICK n \in T : \A k \in T : n <= k
      <3> HIDE DEF T
      <3> QED
        BY <2>1, Least
    <2>3. n \in 0..N /\ ~(a[n] \subseteq 0..n)
      OBVIOUS
    <2>4. n # 0 /\ n \in 1..N
      <3>1. a[0] = {0} /\ {0} \subseteq 0..0
        BY <1>11, <1>12
      <3>2. n # 0
        BY <2>3, <3>1
      <3> QED
        BY <1>1, <2>3, <3>2
    <2>5. PICK p \in 0..(n - 1) : p = OrderedNodes(t)[n].parent
      BY <1>1, <2>4
    <2>6. p \in 0..N /\ ~(n <= p)
      BY <2>3, <2>4
    <2>7. a[p] \subseteq 0..p
      BY <2>2, <2>6
    <2>8. 0..p \subseteq 0..n /\ n \in 0..n
      BY <2>3, <2>6
    <2>9. a[n] = {n} \cup a[p]
      BY <1>11, <2>3, <2>4, <2>5
    <2> QED
      BY <2>3, <2>7, <2>8, <2>9
  <1> QED
    BY <1>9, <1>11, <1>12, <1>13 DEF Nodes, Parent

\* A node's filter is what it asks for: in each field the value set nearest
\* on its way to the root.
LEMMA EffectiveWanted ==
  ASSUME NEW t \in Targets \cup Requests, NEW n \in 0..Len(Nodes(t)), NEW k \in TargetFields
  PROVE  Effective(t)[n][k] = Wanted(t, n, k)
  <1>1. PICK N : N = Len(Nodes(t))
    OBVIOUS
  <1>2. PICK e : e = Effective(t)
    OBVIOUS
  <1>3. PICK a : a = Above(t)
    OBVIOUS
  <1>4. \A m \in 0..N : Wanted(t, m, k) = Nearest(t, k, a[m])
    BY <1>3, WantedChosen DEF Above
  <1>5. N \in Nat /\ \A m \in 1..N : Parent(t, m) \in 0..(m - 1)
    BY <1>1, NodesTyped
  <1>6. /\ e[0] = t.filter
        /\ \A m \in 1..N : e[m] = Merged(e[Parent(t, m)], OrderedNodes(t)[m].filter)
    BY <1>1, <1>2, EffectiveIs
  <1>7. /\ a[0] = {0}
        /\ \A m \in 1..N : a[m] = {m} \cup a[Parent(t, m)]
        /\ \A m \in 0..N : a[m] \subseteq 0..m
    BY <1>1, <1>3, AboveIs
  <1> DEFINE T == {m \in 0..N : e[m][k] # Nearest(t, k, a[m])}
  <1>8. T = {}
    <2> SUFFICES ASSUME T # {} PROVE FALSE
      OBVIOUS
    <2>1. T \subseteq Nat
      OBVIOUS
    <2>2. PICK m \in T : \A j \in T : m <= j
      <3> HIDE DEF T
      <3> QED
        BY <2>1, Least
    <2>3. m \in 0..N /\ e[m][k] # Nearest(t, k, a[m])
      OBVIOUS
    <2> HIDE DEF T
    <2> DEFINE setters(j) == {i \in a[j] : ValueOf(t, k, i) # Unset}
    <2>4. CASE m = 0
      <3>1. e[m][k] = t.filter[k] /\ ValueOf(t, k, 0) = t.filter[k] /\ a[m] = {0}
        BY <1>6, <1>7, <2>4 DEF ValueOf
      <3>2. CASE t.filter[k] = Unset
        <4>1. Nearest(t, k, a[m]) = Unset
          BY <3>1, <3>2 DEF Nearest
        <4> QED
          BY <2>3, <3>1, <3>2, <4>1
      <3>3. CASE t.filter[k] # Unset
        <4>1. setters(m) = {0}
          BY <3>1, <3>3
        <4>2. (CHOOSE i \in {0} : \A j \in {0} : j <= i) = 0
          OBVIOUS
        <4>3. Nearest(t, k, a[m]) = t.filter[k]
          BY <3>1, <4>1, <4>2 DEF Nearest
        <4> QED
          BY <2>3, <3>1, <4>3
      <3> QED
        BY <3>2, <3>3
    <2>5. CASE m # 0
      <3>1. m \in 1..N
        BY <1>5, <2>3, <2>5
      <3>2. PICK p \in 0..(m - 1) : p = Parent(t, m)
        BY <1>5, <3>1
      <3>3. p \in 0..N /\ ~(m <= p) /\ p < m
        BY <1>5, <3>1, <3>2
      <3>4. e[p][k] = Nearest(t, k, a[p])
        BY <2>2, <3>3 DEF T
      <3>5. PICK own : own = OrderedNodes(t)[m].filter[k]
        OBVIOUS
      <3>6. e[m][k] = IF own = Unset THEN e[p][k] ELSE own
        <4>1. e[m] = Merged(e[p], OrderedNodes(t)[m].filter)
          BY <1>6, <3>1, <3>2
        <4> QED
          BY <3>5, <4>1 DEF Merged
      <3>7. ValueOf(t, k, m) = own
        BY <2>5, <3>5 DEF ValueOf
      <3>8. a[m] = {m} \cup a[p] /\ a[p] \subseteq 0..p
        BY <1>7, <3>1, <3>2, <3>3
      <3>9. CASE own = Unset
        <4>1. setters(m) = setters(p)
          <5>1. \A j \in a[m] : ValueOf(t, k, j) # Unset => j \in a[p]
            BY <3>7, <3>8, <3>9
          <5>2. a[p] \subseteq a[m]
            BY <3>8
          <5> QED
            BY <5>1, <5>2
        <4>2. Nearest(t, k, a[m]) = Nearest(t, k, a[p])
          <5>1. ASSUME NEW j PROVE Nearest(t, k, a[j]) =
                  IF setters(j) = {} THEN Unset
                  ELSE ValueOf(t, k, CHOOSE i \in setters(j) : \A h \in setters(j) : h <= i)
            BY DEF Nearest
          <5> HIDE DEF setters
          <5> QED
            BY <4>1, <5>1
        <4> QED
          BY <2>3, <3>4, <3>6, <3>9, <4>2
      <3>10. CASE own # Unset
        <4>1. m \in setters(m) /\ \A j \in setters(m) : j <= m /\ j \in Nat
          BY <1>5, <3>1, <3>3, <3>7, <3>8, <3>10
        <4>2. PICK c : c = CHOOSE i \in setters(m) : \A j \in setters(m) : j <= i
          OBVIOUS
        <4>3. c \in setters(m) /\ \A j \in setters(m) : j <= c
          <5> HIDE DEF setters
          <5> QED
            BY <4>1, <4>2
        <4>4. c = m
          <5> HIDE DEF setters
          <5>1. c <= m /\ m <= c /\ c \in Nat /\ m \in Nat
            BY <4>1, <4>3
          <5> QED
            BY <5>1
        <4>5. Nearest(t, k, a[m]) = own
          BY <3>7, <4>1, <4>2, <4>4 DEF Nearest
        <4> QED
          BY <2>3, <3>6, <3>10, <4>5
      <3> QED
        BY <3>9, <3>10
    <2> QED
      BY <2>4, <2>5
  <1>9. n \in 0..N
    BY <1>1
  <1>10. e[n][k] = Nearest(t, k, a[n])
    BY <1>8, <1>9
  <1> QED
    BY <1>2, <1>4, <1>9, <1>10


LEMMA FilterFields ==
  ASSUME NEW f, NEW g, \A k \in TargetFields : f[k] = g[k]
  PROVE  ToRuleFilter(f) = ToRuleFilter(g)
  <1>1. f["state"] = g["state"] /\ f["kind"] = g["kind"] /\ f["section"] = g["section"]
        /\ f["repo"] = g["repo"] /\ f["path"] = g["path"]
    BY DEF TargetFields
  <1>2. f.state = g.state /\ f.kind = g.kind /\ f.section = g.section
        /\ f.repo = g.repo /\ f.path = g.path
    BY <1>1
  <1> QED
    BY <1>2 DEF ToRuleFilter

LEMMA HomesAre ==
  ASSUME NEW t \in Targets \cup Requests, NEW i
  PROVE  /\ Homes(t, i) \subseteq 1..Len(Nodes(t))
         /\ \A n \in 1..Len(Nodes(t)) :
              n \in Homes(t, i) <=>
                /\ Matches(ToRuleFilter(Effective(t)[n]), i, disk[i])
                /\ MatchesField(ToRuleFilter(Effective(t)[n]).state, disk[i].state)
  <1>1. Homes(t, i) \subseteq 1..Len(Nodes(t))
    BY DEF Homes, Nodes
  <1>2. ASSUME NEW n \in 1..Len(Nodes(t))
        PROVE  n \in Homes(t, i) <=>
                 /\ Matches(ToRuleFilter(Effective(t)[n]), i, disk[i])
                 /\ MatchesField(ToRuleFilter(Effective(t)[n]).state, disk[i].state)
    <2> DEFINE wanted == [k \in TargetFields |-> Wanted(t, n, k)]
    <2>1. n \in 0..Len(Nodes(t))
      BY NodesTyped
    <2>2. \A k \in TargetFields : wanted[k] = Effective(t)[n][k]
      BY <2>1, EffectiveWanted
    <2>3. n \in Homes(t, i) <=> /\ Matches(ToRuleFilter(wanted), i, disk[i])
                               /\ MatchesField(ToRuleFilter(wanted).state, disk[i].state)
      BY DEF Homes, Nodes
    <2> HIDE DEF wanted
    <2>4. ToRuleFilter(wanted) = ToRuleFilter(Effective(t)[n])
      BY <2>2, FilterFields
    <2> QED
      BY <2>3, <2>4
  <1> QED
    BY <1>1, <1>2

\* A target that sets no state asks none of its rules for one.
LEMMA NoStateAsked ==
  ASSUME NEW t \in Targets \cup Requests, ~AsksState(t), NEW n \in 1..Len(Nodes(t))
  PROVE  ToRuleFilter(Effective(t)[n]).state = Unset
  <1>1. n \in 0..Len(Nodes(t)) /\ Len(Nodes(t)) \in Nat
    BY NodesTyped
  <1>2. "state" \in TargetFields
    BY DEF TargetFields
  <1>3. Effective(t)[n]["state"] = Nearest(t, "state", Above(t)[n])
    BY <1>1, <1>2, EffectiveWanted, WantedChosen DEF Above
  <1>4. ASSUME NEW m \in 0..Len(Nodes(t)) PROVE ValueOf(t, "state", m) = Unset
    <2>1. t.filter["state"] = Unset /\ \A j \in 1..Len(t.nodes) : t.nodes[j].filter["state"] = Unset
      BY DEF AsksState
    <2>2. CASE m = 0
      BY <2>1, <2>2 DEF ValueOf
    <2>3. CASE m # 0 /\ t.nodes = <<>>
      <3>1. PICK root : root = [parent |-> 0, filter |-> t.filter]
        OBVIOUS
      <3>2. OrderedNodes(t) = <<root>> /\ root.filter = t.filter
        BY <2>3, <3>1 DEF OrderedNodes
      <3>3. m = 1
        BY <2>3, <3>2 DEF Nodes
      <3>4. OrderedNodes(t)[m].filter = t.filter
        BY <3>2, <3>3
      <3> QED
        BY <2>1, <2>3, <3>4 DEF ValueOf
    <2>4. CASE m # 0 /\ t.nodes # <<>>
      <3>1. OrderedNodes(t) = t.nodes /\ m \in 1..Len(t.nodes)
        BY <1>1, <2>4 DEF OrderedNodes, Nodes
      <3> QED
        BY <2>1, <2>4, <3>1 DEF ValueOf
    <2> QED
      BY <2>2, <2>3, <2>4
  <1>5. Above(t)[n] \subseteq 0..Len(Nodes(t))
    <2>1. Above(t)[n] \subseteq 0..n
      BY <1>1, AboveIs
    <2>2. 0..n \subseteq 0..Len(Nodes(t))
      BY <1>1
    <2> QED
      BY <2>1, <2>2
  <1>6. Nearest(t, "state", Above(t)[n]) = Unset
    BY <1>4, <1>5 DEF Nearest
  <1> QED
    BY <1>3, <1>6 DEF ToRuleFilter

\* What the rows say of the state is right, or nobody asks.
Certain(t, reindex) == Outdated(reindex) = {} \/ ~AsksState(t)

\* The rules of a node are those that have it for a home, in order.
LEMMA NodeRulesAre ==
  ASSUME IndexInv, Opens, NEW reindex \in BOOLEAN, NEW t \in Targets \cup Requests,
         NEW n \in 1..Len(Nodes(t))
  PROVE  LET rules == NodeRules(disk, Scanned(reindex, roots \cup Discovered), t)
         IN  /\ rules[n] \in Seq(Reachable)
             /\ \A j, k \in DOMAIN rules[n] : j < k =>
                  rules[n][j] # rules[n][k] /\ Before(disk, rules[n][j], rules[n][k])
             /\ Certain(t, reindex) =>
                  \A i : i \in Range(rules[n]) <=> i \in Reachable /\ n \in Homes(t, i)
  <1>1. PICK rows : rows = Scanned(reindex, roots \cup Discovered)
    OBVIOUS
  <1>2. PICK f : f = ToRuleFilter(Effective(t)[n])
    OBVIOUS
  <1>3. PICK list : list = List(disk, rows, f)
    OBVIOUS
  <1>4. NodeRules(disk, rows, t)[n] = list
    BY <1>2, <1>3 DEF NodeRules, Nodes
  <1>5. Answers(list, rows, f)
    BY <1>1, <1>3, ListHas
  <1>6. \A i : i \in Range(list) <=>
                 i \in Reachable /\ MatchesField(f.state, rows[i]) /\ Matches(f, i, disk[i])
    BY <1>5 DEF Answers
  <1>7. ASSUME Certain(t, reindex), NEW i
        PROVE  i \in Range(list) <=> i \in Reachable /\ n \in Homes(t, i)
    <2>1. n \in Homes(t, i) <=> Matches(f, i, disk[i]) /\ MatchesField(f.state, disk[i].state)
      BY <1>2, HomesAre
    <2>2. CASE Outdated(reindex) = {} /\ i \in Reachable
      <3>1. i \in Ids
        BY <2>2 DEF Reachable, Readable, OnDisk
      <3>2. rows[i] = disk[i].state
        BY <1>1, <2>2, <3>1, ScannedRows
      <3> QED
        BY <1>6, <2>1, <2>2, <3>2
    <2>3. CASE ~AsksState(t)
      <3>1. f.state = Unset
        BY <1>2, <2>3, NoStateAsked
      <3> QED
        BY <1>6, <2>1, <3>1 DEF MatchesField
    <2> QED
      BY <1>6, <1>7, <2>2, <2>3 DEF Certain
  <1> QED
    BY <1>1, <1>4, <1>5, <1>7 DEF Answers


-----------------------------------------------------------------------------
(* What is written into a generated file. *)
LEMMA CollectedIs ==
  ASSUME IndexInv, Opens, NEW reindex \in BOOLEAN, NEW t \in Targets \cup Requests,
         NEW rules, rules = NodeRules(disk, Scanned(reindex, roots \cup Discovered), t),
         NEW ids, ids = FlattenSeq(rules)
  PROVE  /\ rules \in Seq(Seq(Reachable)) /\ Len(rules) = Len(Nodes(t)) /\ Len(rules) # 0
         /\ ids \in Seq(Reachable) /\ Flattens(ids, rules, Len(rules))
  <1>1. Len(Nodes(t)) \in Nat /\ Len(Nodes(t)) # 0
    BY NodesTyped
  <1>2. \A n \in 1..Len(Nodes(t)) : rules[n] \in Seq(Reachable)
    BY NodeRulesAre
  <1>3. rules = [n \in 1..Len(Nodes(t)) |-> rules[n]]
    BY DEF NodeRules, Nodes
  <1>4. rules \in [1..Len(Nodes(t)) -> Seq(Reachable)]
    BY <1>2, <1>3
  <1>5. rules \in Seq(Seq(Reachable)) /\ Len(rules) = Len(Nodes(t))
    BY <1>1, <1>4, FunctionSeq
  <1> QED
    BY <1>1, <1>5, FlattenPlaces

LEMMA RenderedTyped ==
  ASSUME IndexInv, NEW ids \in Seq(Reachable)
  PROVE  /\ Rendered(ids) \in Text /\ DOMAIN Rendered(ids) = DOMAIN ids
         /\ \A k \in DOMAIN ids : /\ Rendered(ids)[k][1] = ids[k]
                                 /\ Rendered(ids)[k][2] = disk[ids[k]].body
  <1>1. Len(ids) \in Nat /\ DOMAIN ids = 1..Len(ids) /\ \A k \in DOMAIN ids : ids[k] \in Reachable
    BY LenProperties, ElementOfSeq
  <1>2. \A i \in Reachable : i \in Ids /\ disk[i] \in Manifests
    BY EntryTyped
  <1> DEFINE Bodies == {m.body : m \in Manifests}
  <1>3. \A k \in DOMAIN ids : <<ids[k], disk[ids[k]].body>> \in Ids \X Bodies
    BY <1>1, <1>2
  <1>4. Rendered(ids) \in [1..Len(ids) -> Ids \X Bodies]
    BY <1>1, <1>3 DEF Rendered
  <1>5. Rendered(ids) \in Seq(Ids \X Bodies)
    <2> HIDE DEF Bodies
    <2> QED
      BY <1>1, <1>4, SeqDef
  <1> QED
    BY <1>1, <1>5 DEF Text, Rendered

\* A text without duplicates made of the rules of a target is faithful to it.
LEMMA FaithfulText ==
  ASSUME IndexInv, Opens, NEW reindex \in BOOLEAN, NEW t \in Targets \cup Requests,
         Certain(t, reindex),
         NEW rules, rules = NodeRules(disk, Scanned(reindex, roots \cup Discovered), t),
         NEW ids, ids = FlattenSeq(rules), ~DuplicateRule(ids)
  PROVE  Faithful(t, Rendered(ids))
  <1>1. /\ rules \in Seq(Seq(Reachable)) /\ Len(rules) = Len(Nodes(t))
        /\ ids \in Seq(Reachable) /\ Flattens(ids, rules, Len(rules))
    BY CollectedIs
  <1>2. PICK text : text = Rendered(ids)
    OBVIOUS
  <1>3. /\ DOMAIN text = DOMAIN ids
        /\ \A k \in DOMAIN ids : text[k][1] = ids[k] /\ text[k][2] = disk[ids[k]].body
    BY <1>1, <1>2, RenderedTyped
  <1>4. ASSUME NEW n \in 1..Len(rules)
        PROVE  /\ \A i : i \in Range(rules[n]) <=> i \in Reachable /\ n \in Homes(t, i)
               /\ \A j, k \in DOMAIN rules[n] : j < k => Before(disk, rules[n][j], rules[n][k])
    BY <1>1, NodeRulesAre
  <1>5. ASSUME NEW i PROVE Homes(t, i) \subseteq 1..Len(rules)
    BY <1>1, HomesAre
  <1>6. {text[k][1] : k \in DOMAIN text} = {i \in Reachable : Homes(t, i) # {}}
    <2>1. ASSUME NEW i PROVE i \in {text[k][1] : k \in DOMAIN text} <=> i \in Range(ids)
      <3>1. i \in {text[k][1] : k \in DOMAIN text} <=> \E k \in DOMAIN ids : i = text[k][1]
        BY <1>3
      <3>2. i \in Range(ids) <=> \E k \in DOMAIN ids : i = ids[k]
        BY DEF Range
      <3>3. \A k \in DOMAIN ids : text[k][1] = ids[k]
        BY <1>3
      <3> QED
        BY ONLY <3>1, <3>2, <3>3, Zenon
    <2>2. \A i : i \in Range(ids) <=> \E n \in 1..Len(rules) : i \in Range(rules[n])
      BY <1>1 DEF Flattens, Holds
    <2>3. ASSUME NEW i PROVE i \in Range(ids) <=> i \in Reachable /\ Homes(t, i) # {}
      <3>1. Homes(t, i) \subseteq 1..Len(rules)
        BY <1>5
      <3> QED
        BY <1>4, <2>2, <3>1
    <2> QED
      BY <2>1, <2>3
  <1>7. ASSUME NEW k \in DOMAIN ids, NEW m \in DOMAIN ids, k < m
        PROVE  /\ ids[k] # ids[m]
               /\ \E a \in Homes(t, ids[k]), b \in Homes(t, ids[m]) :
                    a < b \/ (a = b /\ Before(disk, ids[k], ids[m]))
    <2> DEFINE Apart == \E a \in Homes(t, ids[k]), b \in Homes(t, ids[m]) :
                          a < b \/ (a = b /\ Before(disk, ids[k], ids[m]))
    <2>1. ids[k] # ids[m]
      <3>1. k # m
        BY <1>1, <1>7, LenProperties
      <3> QED
        BY <3>1 DEF DuplicateRule, IsInjective
    <2>2. Follow(rules, Len(rules), ids[k], ids[m])
      BY <1>1, <1>7 DEF Flattens
    <2>3. PICK a, b \in 1..Len(rules) :
            \/ a < b /\ ids[k] \in Range(rules[a]) /\ ids[m] \in Range(rules[b])
            \/ a = b /\ Precedes(rules[a], ids[k], ids[m])
      BY <2>2 DEF Follow
    <2>4. ASSUME a < b, ids[k] \in Range(rules[a]), ids[m] \in Range(rules[b])
          PROVE  Apart
      BY <1>4, <2>4
    <2>5. ASSUME a = b, Precedes(rules[a], ids[k], ids[m])
          PROVE  Apart
      <3>1. PICK i, j \in DOMAIN rules[a] : i < j /\ ids[k] = rules[a][i] /\ ids[m] = rules[a][j]
        BY <2>5 DEF Precedes
      <3>2. ids[k] \in Range(rules[a]) /\ ids[m] \in Range(rules[a])
        BY <3>1 DEF Range
      <3>3. Before(disk, ids[k], ids[m])
        BY <1>4, <3>1
      <3> QED
        BY <1>4, <2>5, <3>2, <3>3
    <2>6. Apart
      <3> HIDE DEF Apart
      <3> QED
        BY <2>3, <2>4, <2>5
    <2> QED
      BY <2>1, <2>6
  <1>8. Faithful(t, text)
    <2>1. ASSUME NEW k \in DOMAIN text PROVE text[k][2] = disk[text[k][1]].body
      <3>1. k \in DOMAIN ids /\ text[k][1] = ids[k] /\ text[k][2] = disk[ids[k]].body
        BY <1>3
      <3> QED
        BY ONLY <3>1, Zenon
    <2>2. ASSUME NEW k \in DOMAIN text, NEW m \in DOMAIN text, k < m
          PROVE  /\ text[k][1] # text[m][1]
                 /\ \E a \in Homes(t, text[k][1]), b \in Homes(t, text[m][1]) :
                      a < b \/ (a = b /\ Before(disk, text[k][1], text[m][1]))
      <3>1. k \in DOMAIN ids /\ m \in DOMAIN ids /\ text[k][1] = ids[k] /\ text[m][1] = ids[m]
        BY <1>3
      <3>2. /\ ids[k] # ids[m]
            /\ \E a \in Homes(t, ids[k]), b \in Homes(t, ids[m]) :
                 a < b \/ (a = b /\ Before(disk, ids[k], ids[m]))
        BY <1>7, <2>2, <3>1
      <3> QED
        BY <3>1, <3>2
    <2> QED
      BY <1>6, <2>1, <2>2 DEF Faithful
  <1> QED
    BY <1>2, <1>8


\* A request has one node, its own: it collects what list answers with.
LEMMA RequestCollects ==
  ASSUME IndexInv, Opens, NEW reindex \in BOOLEAN, NEW t \in Requests,
         NEW rows, rows = Scanned(reindex, roots \cup Discovered),
         NEW list, list = List(disk, rows, ToRuleFilter(t.filter))
  PROVE  /\ FlattenSeq(NodeRules(disk, rows, t)) = list
         /\ ~DuplicateRule(list) /\ list \in Seq(Reachable)
  <1>1. PICK root : root = [parent |-> 0, filter |-> t.filter]
    OBVIOUS
  <1>2. root.parent = 0 /\ root.filter = t.filter
    BY <1>1
  <1>3. OrderedNodes(t) = <<root>>
    BY <1>1, TargetAssumption DEF OrderedNodes
  <1>4. Len(Nodes(t)) = 1 /\ OrderedNodes(t)[1] = root /\ Parent(t, 1) = 0
    BY <1>2, <1>3 DEF Nodes, Parent
  <1>5. ToRuleFilter(Effective(t)[1]) = ToRuleFilter(t.filter)
    <2>1. 1 \in 1..Len(Nodes(t)) /\ t \in Targets \cup Requests
      BY <1>4
    <2>2. Effective(t)[1] = Merged(t.filter, t.filter)
      BY <1>2, <1>4, <2>1, EffectiveIs
    <2>3. \A k \in TargetFields : Effective(t)[1][k] = t.filter[k]
      BY <2>2 DEF Merged
    <2> QED
      BY <2>3, FilterFields
  <1>6. PICK rules : rules = NodeRules(disk, rows, t)
    OBVIOUS
  <1>7. Answers(list, rows, ToRuleFilter(t.filter))
    BY ListHas
  <1>8. list \in Seq(Reachable) /\ \A j, k \in DOMAIN list : j < k => list[j] # list[k]
    BY <1>7 DEF Answers
  <1>9. rules \in Seq(Seq(Reachable)) /\ Len(rules) = 1 /\ rules[1] = list
    <2>1. rules = [n \in 1..1 |-> list]
      BY <1>4, <1>5, <1>6 DEF NodeRules, Nodes
    <2>2. rules \in [1..1 -> Seq(Reachable)] /\ rules[1] = list
      BY <1>8, <2>1
    <2>3. rules \in Seq(Seq(Reachable)) /\ Len(rules) = 1
      BY <2>2, FunctionSeq
    <2> QED
      BY <2>2, <2>3
  <1>10. FlattenSeq(rules) = list
    <2>1. PICK f \in [1..1 -> Seq(Reachable)] : GathersAll(rules, f) /\ FlattenSeq(rules) = f[1]
      BY <1>9, FlattenGathered
    <2>2. f = [i \in 1..1 |-> IF i = 1 THEN rules[i] ELSE f[i-1] \o rules[i]]
      BY <1>9, <2>1 DEF GathersAll, Gathers
    <2>3. f[1] = rules[1]
      <3>1. 1 \in 1..1
        OBVIOUS
      <3> QED
        BY <2>2, <3>1
    <2> QED
      BY <1>9, <2>1, <2>3
  <1>11. ~DuplicateRule(list)
    <2>1. \A j, k \in DOMAIN list : j < k \/ k < j \/ j = k
      <3>1. Len(list) \in Nat /\ DOMAIN list = 1..Len(list)
        BY <1>8, LenProperties
      <3>2. \A j \in DOMAIN list : j \in Nat
        BY <3>1
      <3> QED
        BY <3>2
    <2>2. ASSUME NEW j \in DOMAIN list, NEW k \in DOMAIN list, list[j] = list[k] PROVE j = k
      <3>1. ~(j < k) /\ ~(k < j)
        BY <1>8, <2>2
      <3> QED
        BY <2>1, <3>1
    <2> QED
      BY ONLY <2>2 DEF DuplicateRule, IsInjective
  <1> QED
    BY <1>6, <1>8, <1>10, <1>11

(***************************************************************************)
(* Generated files.  One that nothing has overtaken is faithful to what it *)
(* was made from.                                                          *)
(***************************************************************************)
MadeFaithfully == \A o \in Outs : made[o] # Absent => Faithful(made[o], output[o])

OutputInv ==
  /\ output \in [Outs -> Text \cup {Absent, Torn}]
  /\ made \in [Outs -> Targets \cup Requests \cup {Absent}]
  /\ MadeFaithfully

LEMMA OutputInit == Init => OutputInv
  BY DEF Init, OutputInv, MadeFaithfully

LEMMA SameRulesFaithful ==
  ASSUME RulesSame, NEW t, NEW text
  PROVE  Faithful(t, text)' <=> Faithful(t, text)
  BY DEF RulesSame, Faithful, Homes

LEMMA OutputKept ==
  ASSUME OutputInv, [Next]_vars, output' = output,
         made' = made \/ made' = [o \in Outs |-> Absent]
  PROVE  OutputInv'
  <1>1. made' \in [Outs -> Targets \cup Requests \cup {Absent}]
    BY DEF OutputInv
  <1>2. ASSUME NEW o \in Outs, made'[o] # Absent PROVE Faithful(made[o], output[o])'
    <2>1. PICK t, text : t = made'[o] /\ text = output'[o]
      OBVIOUS
    <2>2. RulesSame
      BY <1>2, RulesKept
    <2>3. made[o] = t /\ output[o] = text
      BY <1>2, <2>1
    <2>4. Faithful(t, text)
      BY <1>2, <2>1, <2>3 DEF OutputInv, MadeFaithfully
    <2>5. Faithful(t, text)'
      BY <2>2, <2>4, SameRulesFaithful
    <2> QED
      BY <2>1, <2>5
  <1> QED
    BY <1>1, <1>2 DEF OutputInv, MadeFaithfully

\* One file is changed or forgotten.
LEMMA OneOutputKept ==
  ASSUME OutputInv, RulesSame, NEW o \in Outs,
         NEW text \in Text \cup {Absent, Torn}, output' = [output EXCEPT ![o] = text],
         NEW t \in Targets \cup Requests \cup {Absent}, made' = [made EXCEPT ![o] = t],
         t # Absent => Faithful(t, text)
  PROVE  OutputInv'
  <1>1. /\ output' \in [Outs -> Text \cup {Absent, Torn}]
        /\ made' \in [Outs -> Targets \cup Requests \cup {Absent}]
    BY DEF OutputInv
  <1>2. ASSUME NEW q \in Outs, made'[q] # Absent PROVE Faithful(made[q], output[q])'
    <2>1. PICK s, x : s = made'[q] /\ x = output'[q]
      OBVIOUS
    <2>2. IF q = o THEN s = t /\ x = text ELSE s = made[q] /\ x = output[q]
      BY <2>1 DEF OutputInv
    <2>3. Faithful(s, x)
      <3>1. CASE q = o
        BY <1>2, <2>1, <2>2, <3>1
      <3>2. CASE q # o
        BY <1>2, <2>1, <2>2, <3>2 DEF OutputInv, MadeFaithfully
      <3> QED
        BY <3>1, <3>2
    <2>4. Faithful(s, x)'
      BY <2>3, SameRulesFaithful
    <2> QED
      BY <2>1, <2>4
  <1> QED
    BY <1>1, <1>2 DEF OutputInv, MadeFaithfully

\* A generate command writes a faithful text or forgets the file.
LEMMA WriteKeepsOutput ==
  ASSUME IndexInv, OutputInv, NEW reindex \in BOOLEAN, Bootstrap(reindex),
         NEW t \in Targets \cup Requests,
         NEW rules, rules = NodeRules(disk, Scanned(reindex, roots \cup Discovered), t),
         NEW ids, ids = FlattenSeq(rules), ~DuplicateRule(ids),
         McpWriteGeneratedOutput(t, ids)
  PROVE  OutputInv'
  <1>1. Opens /\ stale' = Outdated(reindex) /\ RulesSame
    BY RootsKnown DEF Bootstrap
  <1>2. ids \in Seq(Reachable)
    BY <1>1, CollectedIs
  <1>3. Rendered(ids) \in Text
    BY <1>2, RenderedTyped
  <1>4. t.output \in Outs
    BY TargetAssumption
  <1>5. CASE /\ output' = [output EXCEPT ![t.output] = Rendered(ids)]
             /\ made' = [made EXCEPT ![t.output] =
                           IF stale' = {} \/ ~AsksState(t) THEN t ELSE Absent]
    <2>1. PICK s : s = IF stale' = {} \/ ~AsksState(t) THEN t ELSE Absent
      OBVIOUS
    <2>2. PICK text : text = Rendered(ids)
      OBVIOUS
    <2>3. s # Absent => Certain(t, reindex) /\ s = t
      BY <1>1, <2>1 DEF Certain
    <2>4. s # Absent => Faithful(s, text)
      BY <1>1, <2>2, <2>3, FaithfulText
    <2>5. s \in Targets \cup Requests \cup {Absent} /\ text \in Text \cup {Absent, Torn}
      BY <1>3, <2>1, <2>2
    <2>6. output' = [output EXCEPT ![t.output] = text] /\ made' = [made EXCEPT ![t.output] = s]
      BY <1>5, <2>1, <2>2
    <2> QED
      BY <1>1, <1>4, <2>4, <2>5, <2>6, OneOutputKept
  <1>6. CASE output' = [output EXCEPT ![t.output] = Torn] /\ made' = [made EXCEPT ![t.output] = Absent]
    <2>1. Absent \in Targets \cup Requests \cup {Absent} /\ Torn \in Text \cup {Absent, Torn}
      OBVIOUS
    <2>2. Absent # Absent => Faithful(Absent, Torn)
      OBVIOUS
    <2> QED
      BY <1>1, <1>4, <1>6, <2>1, <2>2, OneOutputKept
  <1> QED
    BY <1>5, <1>6 DEF McpWriteGeneratedOutput


LEMMA GenerateKeepsOutput ==
  ASSUME IndexInv, OutputInv,
         \/ \E s \in Selectors : GenerateTargetCommand(s)
         \/ \E t \in Targets : RuleGenerateTargetTool(t)
         \/ \E t \in Requests : GenerateFileCommand(t) \/ RuleGenerateFileTool(t)
  PROVE  OutputInv'
  <1>1. CliReindex \in BOOLEAN /\ FALSE \in BOOLEAN
    BY DEF CliReindex
  <1>2. ASSUME NEW s, GenerateTargetCommand(s) PROVE OutputInv'
    <2>1. PICK t \in BySelector(s) :
            /\ BootstrapRuleStore
            /\ LET ids == Collected(disk, CliRows, t)
               IN  ~DuplicateRule(ids) /\ WriteGeneratedOutput(t, ids)
      BY <1>2 DEF GenerateTargetCommand
    <2>2. t \in Targets \cup Requests
      BY DEF BySelector
    <2>3. PICK rules : rules = NodeRules(disk, CliRows, t)
      OBVIOUS
    <2>4. PICK ids : ids = FlattenSeq(rules)
      OBVIOUS
    <2>5. /\ Bootstrap(CliReindex)
          /\ rules = NodeRules(disk, Scanned(CliReindex, roots \cup Discovered), t)
          /\ ~DuplicateRule(ids) /\ McpWriteGeneratedOutput(t, ids)
      BY <2>1, <2>3, <2>4 DEF BootstrapRuleStore, CliRows, Collected, WriteGeneratedOutput
    <2> QED
      BY <1>1, <2>2, <2>4, <2>5, WriteKeepsOutput
  <1>3. ASSUME NEW t \in Targets, RuleGenerateTargetTool(t) PROVE OutputInv'
    <2>1. t \in Targets \cup Requests
      OBVIOUS
    <2>2. PICK rules : rules = NodeRules(disk, McpRows, t)
      OBVIOUS
    <2>3. PICK ids : ids = FlattenSeq(rules)
      OBVIOUS
    <2>4. /\ Bootstrap(FALSE)
          /\ rules = NodeRules(disk, Scanned(FALSE, roots \cup Discovered), t)
          /\ ~DuplicateRule(ids) /\ McpWriteGeneratedOutput(t, ids)
      BY <1>3, <2>2, <2>3 DEF RuleGenerateTargetTool, WithStore, McpRows, Collected
    <2> QED
      BY <1>1, <2>1, <2>3, <2>4, WriteKeepsOutput
  <1>4. ASSUME NEW t \in Requests, NEW reindex \in BOOLEAN, Bootstrap(reindex),
               NEW rows, rows = Scanned(reindex, roots \cup Discovered),
               McpWriteGeneratedOutput(t, List(disk, rows, ToRuleFilter(t.filter)))
        PROVE  OutputInv'
    <2>1. PICK list : list = List(disk, rows, ToRuleFilter(t.filter))
      OBVIOUS
    <2>2. PICK rules : rules = NodeRules(disk, rows, t)
      OBVIOUS
    <2>3. Opens
      BY <1>4 DEF Bootstrap
    <2>4. FlattenSeq(rules) = list /\ ~DuplicateRule(list)
      BY <1>4, <2>1, <2>2, <2>3, RequestCollects
    <2>5. t \in Targets \cup Requests /\ McpWriteGeneratedOutput(t, list)
      BY <1>4, <2>1
    <2> QED
      BY <1>4, <2>2, <2>4, <2>5, WriteKeepsOutput
  <1>5. ASSUME NEW t \in Requests, GenerateFileCommand(t) PROVE OutputInv'
    BY <1>1, <1>4, <1>5 DEF GenerateFileCommand, BootstrapRuleStore, CliRows, WriteGeneratedOutput
  <1>6. ASSUME NEW t \in Requests, RuleGenerateFileTool(t) PROVE OutputInv'
    BY <1>1, <1>4, <1>6 DEF RuleGenerateFileTool, WithStore, McpRows
  <1> QED
    BY <1>2, <1>3, <1>5, <1>6

LEMMA OutputStep == IndexInv /\ OutputInv /\ [Next]_vars => OutputInv'
  <1> SUFFICES ASSUME IndexInv, OutputInv, [Next]_vars PROVE OutputInv'
    OBVIOUS
  <1>1. CASE output' = output /\ (made' = made \/ made' = [o \in Outs |-> Absent])
    BY <1>1, OutputKept
  <1>2. ASSUME NEW really, Changed(really), output' = output PROVE OutputInv'
    BY <1>1, <1>2 DEF Changed
  <1>3. CASE OutsideFile
    <2>1. CASE UNCHANGED <<output, made>>
      BY <1>1, <2>1
    <2>2. ASSUME NEW c \in {Absent, Torn}, NEW o \in Outs,
                 output' = [output EXCEPT ![o] = c], made' = [made EXCEPT ![o] = Absent]
          PROVE  OutputInv'
      <3>1. RulesSame
        BY <1>3, RootsKnown DEF OutsideFile
      <3>2. c \in Text \cup {Absent, Torn} /\ Absent \in Targets \cup Requests \cup {Absent}
        OBVIOUS
      <3>3. Absent # Absent => Faithful(Absent, c)
        OBVIOUS
      <3> QED
        BY <2>2, <3>1, <3>2, <3>3, OneOutputKept
    <2>3. \/ UNCHANGED <<output, made>>
          \/ \E c \in {Absent, Torn}, o \in Outs :
               output' = [output EXCEPT ![o] = c] /\ made' = [made EXCEPT ![o] = Absent]
      BY <1>3 DEF OutsideFile
    <2> QED
      BY <2>1, <2>2, <2>3
  <1>4. CASE Commands
    <2>1. CASE Read \/ OpenRefused
      BY <1>1, <2>1 DEF Read, OpenRefused
    <2>2. CASE \E force \in BOOLEAN : ScanCommand(force) \/ RuleScanTool(force)
      BY <1>1, <2>2 DEF ScanCommand, RuleScanTool
    <2>3. ASSUME NEW r \in Roots, AddRootCommand(r) \/ RuleAddRootTool(r) PROVE OutputInv'
      <3>1. Changed(r \notin roots) /\ output' = output
        BY <2>3 DEF AddRootCommand, RuleAddRootTool
      <3> QED
        BY <1>2, <3>1
    <2>4. CASE \/ \E s \in Selectors : GenerateTargetCommand(s)
               \/ \E t \in Targets : RuleGenerateTargetTool(t)
               \/ \E t \in Requests : GenerateFileCommand(t) \/ RuleGenerateFileTool(t)
      BY <2>4, GenerateKeepsOutput
    <2>5. CASE StoreIndexCommand \/ WriteCatalogFile
      BY <1>1, <2>5 DEF StoreIndexCommand, WriteCatalogFile
    <2> QED
      BY <1>4, <2>1, <2>2, <2>3, <2>4, <2>5 DEF Commands
  <1>5. CASE World
    <2>1. ASSUME NEW i, NEW m, Save(i, m) \/ OutsideEdit(i, m) PROVE OutputInv'
      <3>1. Changed(TRUE) /\ output' = output
        BY <2>1 DEF Save, OutsideEdit
      <3> QED
        BY <1>2, <3>1
    <2>2. CASE BootstrapDies \/ StoreIndexStops
      BY <1>1, <2>2 DEF BootstrapDies, StoreIndexStops
    <2>3. CASE IndexLost
      <3>1. Changed(roots' # roots) /\ output' = output
        BY <2>3 DEF IndexLost
      <3> QED
        BY <1>2, <3>1
    <2> QED
      BY <1>3, <1>5, <2>1, <2>2, <2>3 DEF World
  <1>6. CASE UNCHANGED vars
    BY <1>1, <1>6 DEF vars
  <1> QED
    BY <1>4, <1>5, <1>6 DEF Next

LEMMA OutputAlways == Spec => []OutputInv
  <1>1. Init => OutputInv
    BY OutputInit
  <1>2. IndexInv /\ OutputInv /\ [Next]_vars => OutputInv'
    BY OutputStep
  <1> QED
    BY <1>1, <1>2, IndexAlways, PTL DEF Spec

(* A generated file has the rules its target asks for, once each, in order
   and with the bodies of now, from the moment a command wrote it, or a check
   accepted it, until the rules change: for every tree of targets, whatever
   was torn, lost or edited before. *)
THEOREM FilesFaithful == Spec => []OutputFaithful
  <1>1. ASSUME IndexInv, NEW t \in Targets, Opens, Outdated(CliReindex) = {}, OutputMatches(t)
        PROVE  Faithful(t, output[t.output])
    <2>1. PICK rules : rules = NodeRules(disk, CliRows, t)
      OBVIOUS
    <2>2. PICK ids : ids = FlattenSeq(rules)
      OBVIOUS
    <2>3. ~DuplicateRule(ids) /\ output[t.output] = Rendered(ids)
      BY <1>1, <2>1, <2>2 DEF OutputMatches, Collected
    <2>4. /\ CliReindex \in BOOLEAN /\ t \in Targets \cup Requests /\ Certain(t, CliReindex)
          /\ rules = NodeRules(disk, Scanned(CliReindex, roots \cup Discovered), t)
      BY <1>1, <2>1 DEF CliReindex, Certain, CliRows
    <2>5. Faithful(t, Rendered(ids))
      BY <1>1, <2>2, <2>3, <2>4, FaithfulText
    <2> QED
      BY <2>3, <2>5
  <1>2. IndexInv /\ OutputInv => OutputFaithful
    BY <1>1 DEF OutputFaithful, OutputInv, MadeFaithfully
  <1> QED
    BY <1>2, IndexAlways, OutputAlways, PTL

\* Only a command that opened the store makes a file that is relied on.
LEMMA MadeByCommand ==
  ASSUME OutputInv, [Next]_vars, NEW o \in Outs, made'[o] # Absent
  PROVE  output'[o] = output[o] \/ Opens
  <1>1. CASE Commands
    <2>1. CASE Read \/ OpenRefused
      BY <2>1 DEF Read, OpenRefused
    <2>2. CASE \E force \in BOOLEAN : ScanCommand(force) \/ RuleScanTool(force)
      BY <2>2 DEF ScanCommand, RuleScanTool
    <2>3. CASE \E r \in Roots : AddRootCommand(r) \/ RuleAddRootTool(r)
      BY <2>3 DEF AddRootCommand, RuleAddRootTool
    <2>4. CASE \/ \E s \in Selectors : GenerateTargetCommand(s)
               \/ \E t \in Targets : RuleGenerateTargetTool(t)
               \/ \E t \in Requests : GenerateFileCommand(t) \/ RuleGenerateFileTool(t)
      BY <2>4 DEF GenerateTargetCommand, RuleGenerateTargetTool, GenerateFileCommand,
                  RuleGenerateFileTool, BootstrapRuleStore, WithStore, Bootstrap
    <2>5. CASE StoreIndexCommand \/ WriteCatalogFile
      BY <2>5 DEF StoreIndexCommand, WriteCatalogFile
    <2> QED
      BY <1>1, <2>1, <2>2, <2>3, <2>4, <2>5 DEF Commands
  <1>2. CASE OutsideFile
    BY <1>2 DEF OutsideFile, OutputInv
  <1>3. CASE World /\ ~OutsideFile
    BY <1>3 DEF World, Save, OutsideEdit, BootstrapDies, StoreIndexStops, IndexLost
  <1>4. CASE UNCHANGED vars
    BY <1>4 DEF vars
  <1> QED
    BY <1>1, <1>2, <1>3, <1>4 DEF Next

(* A rule leaves a generated file only if its folder is gone, is unreadable
   without a row, is in no registered root, or matches its target no more. *)
THEOREM DropsExplained == Spec => NothingDroppedSilently
  <1> DEFINE Step ==
        \A o \in Outs :
          made'[o] # Absent /\ output[o] \notin {Absent, Torn} =>
            \A k \in DOMAIN output[o] :
              LET i == output[o][k][1]
              IN  \/ \E j \in DOMAIN output'[o] : output'[o][j][1] = i
                  \/ disk[i] = Absent
                  \/ disk[i] = Broken /\ row[i] = Absent
                  \/ RootOf[i] \notin roots'
                  \/ i \in Readable /\ Homes(made'[o], i) = {}
  <1>1. IndexInv /\ OutputInv /\ OutputInv' /\ [Next]_vars => Step
    <2> SUFFICES ASSUME IndexInv, OutputInv, OutputInv', [Next]_vars, NEW o \in Outs,
                        made'[o] # Absent, output[o] \notin {Absent, Torn},
                        NEW k \in DOMAIN output[o]
                 PROVE  LET i == output[o][k][1]
                        IN  \/ \E j \in DOMAIN output'[o] : output'[o][j][1] = i
                            \/ disk[i] = Absent
                            \/ disk[i] = Broken /\ row[i] = Absent
                            \/ RootOf[i] \notin roots'
                            \/ i \in Readable /\ Homes(made'[o], i) = {}
      OBVIOUS
    <2>1. PICK i, t, text : i = output[o][k][1] /\ t = made'[o] /\ text = output'[o]
      OBVIOUS
    <2>2. i \in Ids
      <3>1. output[o] \in Text
        BY DEF OutputInv
      <3>2. output[o][k] \in Ids \X {m.body : m \in Manifests}
        BY <3>1, LenProperties, ElementOfSeq DEF Text
      <3> QED
        BY <2>1, <3>2
    <2>3. RulesSame
      BY RulesKept
    <2>4. Faithful(t, text)
      <3>1. Faithful(t, text)'
        BY <2>1 DEF OutputInv, MadeFaithfully
      <3> QED
        BY <2>3, <3>1, SameRulesFaithful
    <2>5. i \in Reachable /\ Homes(t, i) # {} => \E j \in DOMAIN text : text[j][1] = i
      BY <2>4 DEF Faithful
    <2>6. CASE text = output[o]
      BY <2>1, <2>6
    <2>7. CASE Opens
      <3>1. disk[i] = Broken => row[i] = Absent
        <4>1. disk[i] = Broken => Pruned[i] = Absent
          BY <2>2, <2>7 DEF Opens
        <4>2. Absent # Broken
          BY ManifestAssumption
        <4> QED
          BY <2>2, <4>1, <4>2, Folders
      <3>2. i \in Readable \/ disk[i] = Broken \/ disk[i] = Absent
        BY <2>2, Folders
      <3>3. i \in Readable /\ i \notin Reachable => RootOf[i] \notin roots'
        <4>1. Reachable' = Reachable /\ Readable' = Readable
          BY <2>3 DEF RulesSame, Readable, OnDisk
        <4>2. i \in Reachable' <=> i \in Readable' /\ RootOf[i] \in roots' \cup Discovered'
          BY DEF Reachable
        <4> QED
          BY <4>1, <4>2
      <3> QED
        BY <2>1, <2>5, <3>1, <3>2, <3>3
    <2> QED
      BY <2>1, <2>6, <2>7, MadeByCommand
  <1> QED
    BY <1>1, IndexAlways, OutputAlways, PTL DEF Spec, NothingDroppedSilently


-----------------------------------------------------------------------------
(* A tree of N nodes, depth first; 0 is its root. *)
Tree(N, parent) ==
  /\ \A n \in 1..N : parent[n] \in 0..(n - 1)
  /\ \A n, m \in 1..N : parent[m] < n /\ n < m => parent[m] <= parent[n]

Kids(N, parent, n) == {k \in 1..N : parent[k] = n}

\* p is the first place after what is below n.
Past(N, parent, n, p) ==
  /\ p \in (n + 1)..(N + 1)
  /\ p # N + 1 => parent[p] < n
  /\ \A m \in (n + 1)..(p - 1) : ~(parent[m] < n)

PastOf(N, parent, n) == CHOOSE p : Past(N, parent, n, p)

LEMMA PastIs ==
  ASSUME NEW N \in Nat, NEW parent, NEW n \in 0..N
  PROVE  Past(N, parent, n, PastOf(N, parent, n))
  <1> DEFINE T == {m \in (n + 1)..(N + 1) : m # N + 1 => parent[m] < n}
  <1>1. T \subseteq Nat /\ N + 1 \in T
    OBVIOUS
  <1>2. PICK p \in T : \A m \in T : p <= m
    <2> HIDE DEF T
    <2> QED
      BY <1>1, Least
  <1>3. \A m \in (n + 1)..(p - 1) : ~(parent[m] < n)
    <2> SUFFICES ASSUME NEW m \in (n + 1)..(p - 1), parent[m] < n PROVE FALSE
      OBVIOUS
    <2>1. m \in (n + 1)..(N + 1) /\ ~(p <= m)
      OBVIOUS
    <2>2. m \in T
      BY <2>1
    <2> QED
      BY <1>2, <2>1, <2>2
  <1>4. Past(N, parent, n, p)
    BY <1>3 DEF Past
  <1> QED
    BY <1>4 DEF PastOf

\* A child comes before the end of its parent's part.
LEMMA KidWithin ==
  ASSUME NEW N \in Nat, NEW parent, Tree(N, parent), NEW n \in 0..N,
         NEW c \in Kids(N, parent, n), NEW q, Past(N, parent, n, q)
  PROVE  c \in (n + 1)..N /\ c < q
  <1>1. c \in 1..N /\ parent[c] = n /\ parent[c] \in 0..(c - 1)
    BY DEF Kids, Tree
  <1>2. n < c /\ c \in (n + 1)..N
    BY <1>1
  <1>3. q \in (n + 1)..(N + 1) /\ (q # N + 1 => parent[q] < n)
    BY DEF Past
  <1>4. ASSUME ~(c < q) PROVE FALSE
    <2>1. q \in 1..N /\ parent[q] < n /\ q # c
      BY <1>1, <1>2, <1>3, <1>4
    <2>2. n < q /\ q < c
      BY <1>2, <1>3, <1>4, <2>1
    <2>3. parent[c] <= parent[q]
      BY <1>1, <2>1, <2>2 DEF Tree
    <2>4. parent[q] \in Nat
      BY <2>1 DEF Tree
    <2> QED
      BY <1>1, <2>1, <2>3, <2>4
  <1> QED
    BY <1>2, <1>4

\* What is below a node begins after it, with its first child.
LEMMA FirstKid ==
  ASSUME NEW N \in Nat, NEW parent, Tree(N, parent), NEW n \in 0..N,
         NEW q, Past(N, parent, n, q)
  PROVE  (n + 1 = q /\ Kids(N, parent, n) = {}) \/ n + 1 \in Kids(N, parent, n)
  <1>1. q \in (n + 1)..(N + 1) /\ \A m \in (n + 1)..(q - 1) : ~(parent[m] < n)
    BY DEF Past
  <1>2. CASE n + 1 = q
    <2>1. \A c \in Kids(N, parent, n) : c \in (n + 1)..N /\ c < q
      BY KidWithin
    <2> QED
      BY <1>2, <2>1
  <1>3. CASE n + 1 # q
    <2>1. n + 1 \in (n + 1)..(q - 1) /\ n + 1 \in 1..N
      BY <1>1, <1>3
    <2>2. parent[n + 1] \in 0..(n + 1 - 1) /\ ~(parent[n + 1] < n)
      BY <1>1, <2>1 DEF Tree
    <2>3. parent[n + 1] = n
      BY <2>2
    <2> QED
      BY <2>1, <2>3 DEF Kids
  <1> QED
    BY <1>2, <1>3

\* What is below a child is followed by the next child, or ends its parent's part.
LEMMA NextKid ==
  ASSUME NEW N \in Nat, NEW parent, Tree(N, parent), NEW n \in 0..N,
         NEW q, Past(N, parent, n, q),
         NEW c \in Kids(N, parent, n), NEW p, Past(N, parent, c, p)
  PROVE  /\ \A d \in Kids(N, parent, n) : c < d => p <= d
         /\ \/ p = q /\ \A d \in Kids(N, parent, n) : d <= c
            \/ p \in Kids(N, parent, n)
  <1>1. /\ c \in (n + 1)..N /\ c < q /\ parent[c] = n
        /\ \A d \in Kids(N, parent, n) : d \in (n + 1)..N /\ d < q /\ parent[d] = n
    BY KidWithin DEF Kids
  <1>2. /\ q \in (n + 1)..(N + 1) /\ (q # N + 1 => parent[q] < n)
        /\ \A m \in (n + 1)..(q - 1) : ~(parent[m] < n)
    BY DEF Past
  <1>3. /\ p \in (c + 1)..(N + 1) /\ (p # N + 1 => parent[p] < c)
        /\ \A m \in (c + 1)..(p - 1) : ~(parent[m] < c)
    BY DEF Past
  <1>4. ASSUME NEW d \in Kids(N, parent, n), c < d PROVE p <= d
    <2>1. d \in (c + 1)..N /\ parent[d] < c
      BY <1>1, <1>4
    <2> QED
      BY <1>1, <1>3, <2>1
  <1>5. CASE p = N + 1
    <2>1. q = p
      <3>1. ASSUME q # N + 1 PROVE FALSE
        <4>1. q \in (c + 1)..(p - 1)
          BY <1>1, <1>2, <1>5, <3>1
        <4>2. q \in 1..N
          BY <1>1, <1>2, <3>1
        <4>3. parent[q] < n /\ parent[q] \in Nat
          BY <1>2, <3>1, <4>2 DEF Tree
        <4> QED
          BY <1>1, <1>3, <4>1, <4>3
      <3> QED
        BY <1>5, <3>1
    <2>2. ASSUME NEW d \in Kids(N, parent, n) PROVE d <= c
      BY <1>1, <1>4, <1>5
    <2> QED
      BY <1>4, <2>1, <2>2
  <1>6. CASE p # N + 1
    <2>1. p \in 1..N /\ parent[p] < c /\ c < p /\ c \in 1..N /\ n \in Nat
      BY <1>1, <1>3, <1>6
    <2>2. parent[p] <= n /\ parent[p] \in Nat
      BY <1>1, <2>1 DEF Tree
    <2>3. ASSUME parent[p] = n PROVE p \in Kids(N, parent, n)
      BY <2>1, <2>3 DEF Kids
    <2>4. ASSUME parent[p] # n PROVE p = q /\ \A d \in Kids(N, parent, n) : d <= c
      <3>1. parent[p] < n
        BY <2>1, <2>2, <2>4
      <3>2. q <= p
        <4>1. p \in (n + 1)..N
          BY <1>1, <2>1
        <4> QED
          BY <1>2, <3>1, <4>1
      <3>3. ~(q < p)
        <4> SUFFICES ASSUME q < p PROVE FALSE
          OBVIOUS
        <4>1. q # N + 1 /\ q \in (c + 1)..(p - 1) /\ q \in 1..N
          BY <1>1, <1>2, <2>1
        <4>2. parent[q] < n /\ parent[q] \in Nat
          BY <1>2, <4>1 DEF Tree
        <4> QED
          BY <1>1, <1>3, <4>1, <4>2
      <3>4. ASSUME NEW d \in Kids(N, parent, n) PROVE d <= c
        <4>1. d \in Nat /\ d < q
          BY <1>1
        <4>2. c < d => p <= d
          BY <1>4
        <4>3. c \in Nat /\ p \in Nat /\ q \in Nat
          BY <1>1, <1>2, <2>1
        <4> QED
          BY <3>2, <4>1, <4>2, <4>3
      <3>5. q = p
        BY <1>2, <2>1, <3>2, <3>3
      <3> QED
        BY <3>4, <3>5
    <2> QED
      BY <1>4, <2>3, <2>4
  <1> QED
    BY <1>5, <1>6

\* The children of n in order: the part of each begins where that of the one
\* before ends, the first after n, and the last ends with the part of n.
Edge(N, parent, n, kids, j) == IF j = 0 THEN n + 1 ELSE PastOf(N, parent, kids[j])

LEMMA KidsAbut ==
  ASSUME NEW N \in Nat, NEW parent, Tree(N, parent), NEW n \in 0..N,
         NEW kids, kids = Ascending(Kids(N, parent, n))
  PROVE  /\ kids \in Seq((n + 1)..N)
         /\ Edge(N, parent, n, kids, Len(kids)) = PastOf(N, parent, n)
         /\ \A j \in 1..Len(kids) : Edge(N, parent, n, kids, j - 1) = kids[j]
  <1> DEFINE K == Kids(N, parent, n)
  <1>1. K \subseteq Nat /\ K \subseteq (n + 1)..N /\ IsFiniteSet(K)
    <2>1. K \subseteq (n + 1)..N
      BY PastIs, KidWithin
    <2>2. IsFiniteSet((n + 1)..N)
      BY FS_Interval
    <2>3. K \in SUBSET ((n + 1)..N)
      BY <2>1
    <2>4. IsFiniteSet(K)
      BY <2>2, <2>3, FS_Subset
    <2>5. (n + 1)..N \subseteq Nat
      OBVIOUS
    <2> HIDE DEF K
    <2> QED
      BY <2>1, <2>4, <2>5
  <1>2. /\ kids \in Seq(K) /\ Range(kids) = K
        /\ \A j, k \in DOMAIN kids : j < k => kids[j] < kids[k]
    BY <1>1, AscendingLists
  <1>3. Len(kids) \in Nat /\ DOMAIN kids = 1..Len(kids) /\ \A j \in 1..Len(kids) : kids[j] \in K
    BY <1>2, LenProperties, ElementOfSeq
  <1>4. kids \in Seq((n + 1)..N)
    BY <1>1, <1>3, FunctionSeq, <1>2
  <1>5. PICK q : q = PastOf(N, parent, n) /\ Past(N, parent, n, q)
    BY PastIs
  <1>6. ASSUME NEW j \in 1..Len(kids)
        PROVE  /\ \A d \in K : kids[j] < d => PastOf(N, parent, kids[j]) <= d
               /\ \/ PastOf(N, parent, kids[j]) = q /\ \A d \in K : d <= kids[j]
                  \/ PastOf(N, parent, kids[j]) \in K
               /\ PastOf(N, parent, kids[j]) \in Nat /\ kids[j] < PastOf(N, parent, kids[j])
    <2>1. PICK c, p : c = kids[j] /\ p = PastOf(N, parent, kids[j])
      OBVIOUS
    <2>2. c \in K /\ c \in 0..N /\ c \in Nat
      BY <1>1, <1>3, <2>1
    <2>3. Past(N, parent, c, p)
      BY <2>1, <2>2, PastIs
    <2>4. p \in Nat /\ c < p
      BY <2>2, <2>3 DEF Past
    <2> QED
      BY <1>5, <2>1, <2>2, <2>3, <2>4, NextKid
  <1>7. (n + 1 = q /\ K = {}) \/ n + 1 \in K
    BY <1>5, FirstKid
  <1>8. \A d \in K : d \in Nat /\ n + 1 <= d /\ \E j \in 1..Len(kids) : kids[j] = d
    BY <1>1, <1>2, <1>3 DEF Range
  <1>9. ASSUME NEW j \in 1..Len(kids) PROVE Edge(N, parent, n, kids, j - 1) = kids[j]
    <2>1. CASE j = 1
      <3>1. n + 1 \in K
        BY <1>3, <1>7
      <3>2. PICK i \in 1..Len(kids) : kids[i] = n + 1
        BY <1>8, <3>1
      <3>3. i = 1
        <4>1. i # 1 => kids[1] < kids[i] /\ kids[1] \in K /\ kids[1] \in Nat
          BY <1>2, <1>3, <1>1
        <4> QED
          BY <1>8, <3>2, <4>1
      <3> QED
        BY <2>1, <3>2, <3>3 DEF Edge
    <2>2. CASE j # 1
      <3>1. j - 1 \in 1..Len(kids) /\ j - 1 # 0 /\ j - 1 < j
        BY <1>3, <2>2
      <3>2. PICK c, d, p : c = kids[j - 1] /\ d = kids[j] /\ p = PastOf(N, parent, kids[j - 1])
        OBVIOUS
      <3>3. c < d /\ c \in K /\ d \in K /\ c \in Nat /\ d \in Nat
        BY <1>1, <1>2, <1>3, <3>1, <3>2
      <3>4. p <= d /\ p \in Nat /\ c < p /\ (p \in K \/ \A e \in K : e <= c)
        BY <1>6, <3>1, <3>2, <3>3
      <3>5. p \in K
        BY <3>3, <3>4
      <3>6. PICK i \in 1..Len(kids) : kids[i] = p
        BY <1>8, <3>5
      <3>7. ~(i < j - 1) /\ i # j - 1
        <4>1. i < j - 1 => kids[i] < kids[j - 1]
          BY <1>2, <1>3, <3>1
        <4> QED
          BY <3>2, <3>3, <3>4, <3>6, <4>1
      <3>8. ~(j < i)
        BY <1>2, <1>3, <3>2, <3>3, <3>4, <3>6
      <3>9. i = j
        BY <1>3, <3>7, <3>8
      <3> QED
        BY <3>1, <3>2, <3>6, <3>9 DEF Edge
    <2> QED
      BY <2>1, <2>2
  <1>10. Edge(N, parent, n, kids, Len(kids)) = PastOf(N, parent, n)
    <2>1. CASE Len(kids) = 0
      <3>1. K = {}
        BY <1>8, <2>1
      <3> QED
        BY <1>5, <1>7, <2>1, <3>1 DEF Edge
    <2>2. CASE Len(kids) # 0
      <3>1. Len(kids) \in 1..Len(kids)
        BY <1>3, <2>2
      <3>2. PICK c, p : c = kids[Len(kids)] /\ p = PastOf(N, parent, kids[Len(kids)])
        OBVIOUS
      <3>3. c < p /\ c \in Nat /\ p \in Nat /\ (p = q \/ p \in K)
        BY <1>1, <1>3, <1>6, <3>1, <3>2
      <3>4. p \notin K
        <4> SUFFICES ASSUME p \in K PROVE FALSE
          OBVIOUS
        <4>1. PICK i \in 1..Len(kids) : kids[i] = p
          BY <1>8
        <4>2. i # Len(kids) /\ ~(i < Len(kids))
          <5>1. i < Len(kids) => kids[i] < kids[Len(kids)]
            BY <1>2, <1>3, <3>1
          <5> QED
            BY <3>2, <3>3, <4>1, <5>1
        <4>3. Len(kids) \in Nat /\ i \in 1..Len(kids)
          BY <1>3
        <4>4. PICK l \in Nat : l = Len(kids)
          BY <4>3
        <4> QED
          BY ONLY <4>2, <4>3, <4>4
      <3> QED
        BY <1>5, <2>2, <3>2, <3>3, <3>4 DEF Edge
    <2> QED
      BY <2>1, <2>2
  <1> QED
    BY <1>4, <1>9, <1>10

-----------------------------------------------------------------------------
(* What explain-target shows. *)
\* What is shown of a node and of what is below it, by its recursion.
Tells(t, rules, below) ==
  LET nodes == OrderedNodes(t)
      Children(n) == Ascending({k \in 1..Len(nodes) : nodes[k].parent = n})
  IN  below = [n \in 0..Len(nodes) |->
                 (IF n = 0 THEN <<>> ELSE rules[n])
                   \o FlattenSeq([k \in DOMAIN Children(n) |-> below[Children(n)[k]]])]

LEMMA ExplainedChosen ==
  ASSUME NEW t, NEW rules
  PROVE  Explained(t, rules) = (CHOOSE below : Tells(t, rules, below))[0]
  BY DEF Explained, Tells

\* A node's own and its children's parts make up its part.
LEMMA PartsMeet ==
  ASSUME NEW N \in Nat, NEW parent, Tree(N, parent), NEW n \in 0..N,
         NEW S, NEW seqs \in Seq(Seq(S)), Len(seqs) = N,
         NEW kids, kids = Ascending(Kids(N, parent, n)),
         NEW parts, parts = [k \in DOMAIN kids |->
                               Piece(seqs, kids[k] - 1, PastOf(N, parent, kids[k]) - 1)]
  PROVE  FlattenSeq(parts) = Piece(seqs, n, PastOf(N, parent, n) - 1)
  <1> DEFINE E(j) == Edge(N, parent, n, kids, j)
  <1>1. /\ kids \in Seq((n + 1)..N) /\ E(Len(kids)) = PastOf(N, parent, n)
        /\ \A j \in 1..Len(kids) : E(j - 1) = kids[j]
    BY KidsAbut
  <1>2. /\ Len(kids) \in Nat /\ DOMAIN kids = 1..Len(kids)
        /\ \A j \in 1..Len(kids) : kids[j] \in (n + 1)..N
    BY <1>1, LenProperties, ElementOfSeq
  <1>3. ASSUME NEW j \in 0..Len(kids) PROVE E(j) \in (n + 1)..(N + 1)
    <2>1. CASE j = 0
      BY <2>1 DEF Edge
    <2>2. CASE j # 0
      <3>1. PICK c \in (n + 1)..N : c = kids[j]
        BY <1>2, <2>2
      <3>2. Past(N, parent, c, PastOf(N, parent, c))
        BY <3>1, PastIs
      <3>3. PastOf(N, parent, c) \in (c + 1)..(N + 1)
        BY <3>2 DEF Past
      <3> QED
        BY <2>2, <3>1, <3>3 DEF Edge
    <2> QED
      BY <2>1, <2>2
  <1>4. ASSUME NEW j \in 1..Len(kids)
        PROVE  /\ kids[j] = E(j - 1) /\ E(j) = PastOf(N, parent, kids[j])
               /\ E(j - 1) \in Nat /\ E(j) \in Nat /\ n < E(j - 1) /\ E(j - 1) < E(j) /\ E(j) <= N + 1
    <2>1. j \in 0..Len(kids) /\ j - 1 \in 0..Len(kids) /\ j # 0
      BY <1>2
    <2>2. kids[j] = E(j - 1) /\ E(j) = PastOf(N, parent, kids[j])
      BY <1>1, <2>1 DEF Edge
    <2>3. PICK c \in (n + 1)..N : c = kids[j]
      BY <1>2
    <2>4. Past(N, parent, c, PastOf(N, parent, c))
      BY <2>3, PastIs
    <2>5. PastOf(N, parent, c) \in (c + 1)..(N + 1)
      BY <2>4 DEF Past
    <2> HIDE DEF E
    <2> QED
      BY <2>2, <2>3, <2>5
  <1>5. ASSUME NEW j \in 1..Len(kids)
        PROVE  /\ parts[j] = Piece(seqs, E(j - 1) - 1, E(j) - 1) /\ parts[j] \in Seq(S)
               /\ Piece(seqs, n, E(j - 1) - 1) \o parts[j] = Piece(seqs, n, E(j) - 1)
    <2>1. parts[j] = Piece(seqs, E(j - 1) - 1, E(j) - 1)
      BY <1>2, <1>4
    <2>2. PICK a, b : a = E(j - 1) - 1 /\ b = E(j) - 1
      OBVIOUS
    <2>3. n \in Nat /\ a \in Nat /\ b \in Nat /\ n <= a /\ a <= b /\ b <= Len(seqs)
      <3> HIDE DEF E
      <3> QED
        BY <1>4, <2>2
    <2>4. Piece(seqs, a, b) \in Seq(S)
      <3>1. b <= b
        BY <2>3
      <3> QED
        BY <2>3, <3>1, PiecesMeet
    <2>5. Piece(seqs, n, a) \o Piece(seqs, a, b) = Piece(seqs, n, b)
      BY <2>3, PiecesMeet
    <2> QED
      BY <2>1, <2>2, <2>4, <2>5
  <1>6. parts \in Seq(Seq(S)) /\ Len(parts) = Len(kids)
    <2>1. parts \in [1..Len(kids) -> Seq(S)]
      <3>1. parts = [k \in 1..Len(kids) |-> parts[k]]
        BY <1>2
      <3> QED
        BY <1>5, <3>1
    <2> QED
      BY <1>2, <2>1, FunctionSeq
  <1> DEFINE Told(j) == Piece(parts, 0, j) = Piece(seqs, n, E(j) - 1)
             T == {j \in 0..Len(kids) : ~Told(j)}
  <1>7. T = {}
    <2> SUFFICES ASSUME T # {} PROVE FALSE
      OBVIOUS
    <2> HIDE DEF Told
    <2>1. T \subseteq Nat
      OBVIOUS
    <2>2. PICK j \in T : \A k \in T : j <= k
      <3> HIDE DEF T
      <3> QED
        BY <2>1, Least
    <2>3. j \in 0..Len(kids) /\ ~Told(j)
      OBVIOUS
    <2>4. ASSUME j = 0 PROVE FALSE
      <3>1. Piece(parts, 0, 0) = <<>> /\ Piece(seqs, n, n) = <<>>
        BY PieceNone
      <3>2. E(0) - 1 = n
        BY DEF Edge
      <3> QED
        BY <2>3, <2>4, <3>1, <3>2 DEF Told
    <2>5. ASSUME j # 0 PROVE FALSE
      <3>1. j - 1 \in 0..Len(kids) /\ ~(j <= j - 1) /\ j \in 1..Len(kids)
        BY <1>2, <2>3, <2>5
      <3>2. Told(j - 1)
        BY <2>2, <3>1
      <3>3. 0 \in Nat /\ j \in Nat /\ 0 < j /\ j <= Len(parts)
        BY <1>2, <1>6, <3>1
      <3>4. Piece(parts, 0, j) = Piece(parts, 0, j - 1) \o parts[j]
        <4>1. PICK z, i \in Nat : z = 0 /\ i = j
          BY <3>3
        <4>2. z \in Nat /\ i \in Nat /\ z < i /\ i <= Len(parts)
          BY <3>3, <4>1
        <4>3. Piece(parts, z, i) = Piece(parts, z, i - 1) \o parts[i]
          BY ONLY <1>6, <4>2, PieceMore
        <4> QED
          BY <4>1, <4>3
      <3>5. Piece(seqs, n, E(j - 1) - 1) \o parts[j] = Piece(seqs, n, E(j) - 1)
        BY <1>5, <3>1
      <3> QED
        BY <2>3, <3>2, <3>4, <3>5 DEF Told
    <2> QED
      BY <2>4, <2>5
  <1>8. Len(kids) \in 0..Len(kids)
    BY <1>2
  <1>9. Told(Len(kids))
    <2> HIDE DEF Told
    <2> QED
      BY <1>7, <1>8
  <1>10. Piece(parts, 0, Len(parts)) = FlattenSeq(parts)
    BY <1>6, PieceAll
  <1> QED
    BY <1>1, <1>6, <1>9, <1>10

\* The tree is shown in the order the rules are written.
LEMMA ExplainedIs ==
  ASSUME NEW t \in Targets \cup Requests, NEW S, NEW rules \in Seq(Seq(S)),
         Len(rules) = Len(Nodes(t))
  PROVE  Explained(t, rules) = FlattenSeq(rules)
  <1> DEFINE N == Len(OrderedNodes(t))
             parent == [n \in 1..N |-> OrderedNodes(t)[n].parent]
             Own(n) == IF n = 0 THEN <<>> ELSE rules[n]
             Below(n) == Ascending({m \in 1..N : OrderedNodes(t)[m].parent = n})
             part == [n \in 0..N |->
                        IF n = 0 THEN FlattenSeq(rules)
                        ELSE Piece(rules, n - 1, PastOf(N, parent, n) - 1)]
  <1>1. N \in Nat /\ Len(rules) = N /\ Tree(N, parent)
    BY NodesTyped DEF Nodes, Parent, Tree
  <1>2. ASSUME NEW n \in 0..N PROVE Below(n) = Ascending(Kids(N, parent, n))
    <2>1. {m \in 1..N : OrderedNodes(t)[m].parent = n} = Kids(N, parent, n)
      BY DEF Kids
    <2> QED
      BY <2>1
  <1>3. ASSUME NEW n \in 0..N
        PROVE  /\ \A k \in DOMAIN Below(n) : Below(n)[k] \in (n + 1)..N
               /\ part[n] = Own(n) \o FlattenSeq([k \in DOMAIN Below(n) |-> part[Below(n)[k]]])
    <2>1. PICK kids : kids = Below(n)
      OBVIOUS
    <2>2. kids = Ascending(Kids(N, parent, n))
      BY <1>2, <2>1
    <2>3. kids \in Seq((n + 1)..N)
      <3> HIDE DEF N, parent
      <3> QED
        BY <1>1, <2>2, KidsAbut
    <2>4. \A k \in DOMAIN kids : kids[k] \in (n + 1)..N
      BY <2>3, ElementOfSeq, LenProperties
    <2> DEFINE told == [k \in DOMAIN kids |-> part[kids[k]]]
               parts == [k \in DOMAIN kids |->
                           Piece(rules, kids[k] - 1, PastOf(N, parent, kids[k]) - 1)]
    <2>5. told = parts
      <3>1. ASSUME NEW k \in DOMAIN kids
            PROVE  part[kids[k]] = Piece(rules, kids[k] - 1, PastOf(N, parent, kids[k]) - 1)
        <4>1. PICK c \in (n + 1)..N : c = kids[k]
          BY <2>4
        <4>2. c \in 0..N /\ c # 0
          BY <1>1
        <4>3. part[c] = Piece(rules, c - 1, PastOf(N, parent, c) - 1)
          <5> HIDE DEF N, parent
          <5> QED
            BY <4>2
        <4> QED
          BY <4>1, <4>3
      <3> HIDE DEF part
      <3> QED
        BY <3>1
    <2>6. FlattenSeq(parts) = Piece(rules, n, PastOf(N, parent, n) - 1)
      <3> HIDE DEF N, parent
      <3> QED
        BY <1>1, <2>2, PartsMeet
    <2>7. Past(N, parent, n, PastOf(N, parent, n))
      <3> HIDE DEF N, parent
      <3> QED
        BY <1>1, PastIs
    <2>8. PICK e : e = PastOf(N, parent, n) - 1
      OBVIOUS
    <2>9. e \in n..N /\ (n = 0 => e = N)
      <3>1. PastOf(N, parent, n) \in (n + 1)..(N + 1)
        BY <2>7 DEF Past
      <3>2. ASSUME n = 0, PastOf(N, parent, n) # N + 1 PROVE FALSE
        <4>1. PICK q : q = PastOf(N, parent, n)
          OBVIOUS
        <4>2. q \in 1..N /\ parent[q] < 0
          <5> HIDE DEF N, parent
          <5>1. Past(N, parent, n, q) /\ q # N + 1 /\ n = 0
            BY <2>7, <3>2, <4>1
          <5>2. q \in 1..(N + 1) /\ parent[q] < 0
            BY <5>1 DEF Past
          <5> QED
            BY <1>1, <5>1, <5>2
        <4>3. parent[q] \in Nat
          <5> HIDE DEF N, parent
          <5> QED
            BY <1>1, <4>2 DEF Tree
        <4> QED
          BY <4>2, <4>3
      <3> HIDE DEF N, parent
      <3> QED
        BY <1>1, <2>8, <3>1, <3>2
    <2>10. CASE n = 0
      <3>1. Piece(rules, n, e) = FlattenSeq(rules)
        <4> HIDE DEF N
        <4> QED
          BY <1>1, <2>9, <2>10, PieceAll
      <3>2. FlattenSeq(rules) \in Seq(S)
        <4>1. n <= e /\ e <= e /\ e <= Len(rules) /\ n \in Nat /\ e \in Nat
          <5> HIDE DEF N
          <5> QED
            BY <1>1, <2>9
        <4>2. Piece(rules, n, e) \in Seq(S)
          BY <4>1, PiecesMeet
        <4> QED
          BY <3>1, <4>2
      <3>3. <<>> \o FlattenSeq(rules) = FlattenSeq(rules)
        BY <3>2, ConcatEmptySeq
      <3>4. part[n] = FlattenSeq(rules) /\ Own(n) = <<>>
        BY <2>10
      <3>5. FlattenSeq(told) = FlattenSeq(rules)
        BY <2>5, <2>6, <2>8, <3>1
      <3> HIDE DEF part, Own, Below
      <3> QED
        BY <2>1, <2>4, <3>3, <3>4, <3>5
    <2>11. CASE n # 0
      <3>1. n \in 1..Len(rules) /\ n - 1 \in Nat /\ n \in Nat /\ e \in Nat /\ n - 1 <= n
            /\ n <= e /\ e <= Len(rules)
        <4> HIDE DEF N
        <4> QED
          BY <1>1, <2>9, <2>11
      <3>2. Piece(rules, n - 1, n) \o Piece(rules, n, e) = Piece(rules, n - 1, e)
        BY <3>1, PiecesMeet
      <3>3. Piece(rules, n - 1, n) = rules[n]
        BY <3>1, PieceOne
      <3>4. part[n] = Piece(rules, n - 1, e) /\ Own(n) = rules[n]
        <4> HIDE DEF N, parent
        <4> QED
          BY <2>8, <2>11
      <3>5. FlattenSeq(told) = Piece(rules, n, e)
        BY <2>5, <2>6, <2>8
      <3> HIDE DEF part, Own, Below
      <3> QED
        BY <2>1, <2>4, <3>2, <3>3, <3>4, <3>5
    <2> QED
      BY <2>10, <2>11
  <1>4. Tells(t, rules, part)
    <2>1. part = [n \in 0..N |-> part[n]]
      OBVIOUS
    <2>2. part = [n \in 0..N |-> Own(n) \o FlattenSeq([k \in DOMAIN Below(n) |-> part[Below(n)[k]]])]
      <3> HIDE DEF part, Own, Below, N
      <3> QED
        BY <1>3, <2>1
    <2> HIDE DEF part
    <2> QED
      BY <2>2 DEF Tells
  <1>5. PICK below : below = CHOOSE b : Tells(t, rules, b)
    OBVIOUS
  <1>6. Tells(t, rules, below)
    BY <1>4, <1>5
  <1>7. ASSUME NEW n \in 0..N
        PROVE  below[n] = Own(n) \o FlattenSeq([k \in DOMAIN Below(n) |-> below[Below(n)[k]]])
    <2>1. below = [m \in 0..N |-> Own(m) \o FlattenSeq([k \in DOMAIN Below(m) |-> below[Below(m)[k]]])]
      BY <1>6 DEF Tells
    <2> HIDE DEF Own, Below, N
    <2> QED
      BY <2>1
  <1> HIDE DEF part
  <1> DEFINE T == {d \in 0..N : below[N - d] # part[N - d]}
  <1>8. T = {}
    <2> SUFFICES ASSUME T # {} PROVE FALSE
      OBVIOUS
    <2>1. T \subseteq Nat
      OBVIOUS
    <2>2. PICK d \in T : \A k \in T : d <= k
      <3> HIDE DEF T
      <3> QED
        BY <2>1, Least
    <2>3. d \in 0..N /\ below[N - d] # part[N - d]
      OBVIOUS
    <2>4. PICK n \in 0..N : n = N - d
      BY <1>1, <2>3
    <2>5. ASSUME NEW c \in (n + 1)..N PROVE below[c] = part[c]
      <3>1. N - c \in 0..N /\ ~(d <= N - c) /\ N - (N - c) = c
        <4> HIDE DEF N
        <4> QED
          BY <1>1, <2>3, <2>4
      <3> QED
        BY <2>2, <3>1
    <2>6. \A k \in DOMAIN Below(n) : below[Below(n)[k]] = part[Below(n)[k]]
      <3> HIDE DEF Below
      <3> QED
        BY <1>3, <2>5
    <2>7. [k \in DOMAIN Below(n) |-> below[Below(n)[k]]] = [k \in DOMAIN Below(n) |-> part[Below(n)[k]]]
      <3> HIDE DEF Below
      <3> QED
        BY <2>6
    <2>8. below[n] = part[n]
      <3> HIDE DEF Below, Own
      <3> QED
        BY <1>3, <1>7, <2>7
    <2> QED
      BY <2>3, <2>4, <2>8
  <1>9. below[0] = part[0]
    <2>1. N \in 0..N /\ N - N = 0
      <3> HIDE DEF N
      <3> QED
        BY <1>1
    <2>2. N \notin T
      BY <1>8
    <2> HIDE DEF N
    <2> QED
      BY <2>1, <2>2
  <1>10. part[0] = FlattenSeq(rules)
    <2>1. 0 \in 0..N
      BY <1>1
    <2> QED
      BY <2>1 DEF part
  <1> QED
    BY <1>5, <1>9, <1>10, ExplainedChosen

\* explain-target shows the rules generate-target would write, in their
\* order, and finds a rule of two nodes when it does.
THEOREM ExplainsTruthfully == Spec => []ExplainTruthful
  <1>1. ASSUME IndexInv PROVE ExplainTruthful
    <2> SUFFICES ASSUME Opens, NEW t \in Targets,
                        NEW rules, rules = NodeRules(disk, CliRows, t),
                        NEW ids, ids = Collected(disk, CliRows, t)
                 PROVE  /\ Explained(t, rules) = ids
                        /\ DuplicateRule(ids)
                             <=> \E n, m \in DOMAIN rules :
                                   n < m /\ ToSet(rules[n]) \cap ToSet(rules[m]) # {}
      BY DEF ExplainTruthful
    <2>1. t \in Targets \cup Requests /\ CliReindex \in BOOLEAN
          /\ rules = NodeRules(disk, Scanned(CliReindex, roots \cup Discovered), t)
          /\ ids = FlattenSeq(rules)
      BY DEF CliReindex, CliRows, Collected
    <2>2. /\ rules \in Seq(Seq(Reachable)) /\ Len(rules) = Len(Nodes(t))
          /\ ids \in Seq(Reachable) /\ Flattens(ids, rules, Len(rules))
      BY <1>1, <2>1, CollectedIs
    <2>3. Explained(t, rules) = ids
      BY <2>1, <2>2, ExplainedIs
    <2>4. /\ Len(ids) \in Nat /\ DOMAIN ids = 1..Len(ids)
          /\ Len(rules) \in Nat /\ DOMAIN rules = 1..Len(rules)
      BY <2>2, LenProperties
    <2>5. \A n \in 1..Len(rules) : ToSet(rules[n]) = Range(rules[n])
      BY DEF ToSet, Range
    <2>6. ASSUME NEW n \in DOMAIN rules, NEW m \in DOMAIN rules, n < m,
                 ToSet(rules[n]) \cap ToSet(rules[m]) # {}
          PROVE  DuplicateRule(ids)
      <3>1. PICK x : x \in Range(rules[n]) /\ x \in Range(rules[m])
        BY <2>4, <2>5, <2>6
      <3>2. Precedes(ids, x, x)
        BY <2>2, <2>4, <2>6, <3>1 DEF Flattens
      <3>3. PICK k, l \in DOMAIN ids : k < l /\ ids[k] = x /\ ids[l] = x
        BY <3>2 DEF Precedes
      <3>4. k # l
        BY <2>4, <3>3
      <3> QED
        BY <3>3, <3>4 DEF DuplicateRule, IsInjective
    <2>7. ASSUME DuplicateRule(ids)
          PROVE  \E n, m \in DOMAIN rules :
                   n < m /\ ToSet(rules[n]) \cap ToSet(rules[m]) # {}
      <3>1. PICK i, j \in DOMAIN ids : i # j /\ ids[i] = ids[j]
        BY <2>7 DEF DuplicateRule, IsInjective
      <3>2. PICK x : x = ids[i]
        OBVIOUS
      <3>3. Follow(rules, Len(rules), x, x)
        <4>1. i < j \/ j < i
          BY <2>4, <3>1
        <4> QED
          BY <2>2, <3>1, <3>2, <4>1 DEF Flattens
      <3>4. PICK a, b \in 1..Len(rules) :
              \/ a < b /\ x \in Range(rules[a]) /\ x \in Range(rules[b])
              \/ a = b /\ Precedes(rules[a], x, x)
        BY <3>3 DEF Follow
      <3>5. ~Precedes(rules[a], x, x)
        <4>1. \A k, l \in DOMAIN rules[a] : k < l => rules[a][k] # rules[a][l]
          BY <1>1, <2>1, <2>2, NodeRulesAre
        <4> QED
          BY <4>1 DEF Precedes
      <3>6. x \in ToSet(rules[a]) \cap ToSet(rules[b]) /\ a < b
        BY <2>5, <3>4, <3>5
      <3> QED
        BY <2>4, <3>6
    <2> QED
      BY <2>3, <2>6, <2>7
  <1> QED
    BY <1>1, IndexAlways, PTL

=============================================================================
