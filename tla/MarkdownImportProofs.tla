-------------------------- MODULE MarkdownImportProofs --------------------------
(***************************************************************************)
(* What holds of the import of markdown for every document.                *)
(***************************************************************************)
EXTENDS MarkdownImport, SequenceLemmas

-----------------------------------------------------------------------------
(* Chunks. *)

\* A chunk is a range of lines.
LEMMA ChunkRange ==
  ASSUME lines \in Seq(Line), NEW c \in Chunks
  PROVE  /\ c \in Nat \X Nat /\ c[1] \in Nat /\ c[2] \in Nat
         /\ 1 <= c[1] /\ c[1] <= c[2] /\ c[2] <= Len(lines)
         /\ Len(lines) \in Nat
  <1>1. Len(lines) \in Nat /\ DOMAIN lines = 1..Len(lines)
    BY LenProperties
  <1>2. c \in (DOMAIN lines) \X (DOMAIN lines) /\ c[1] <= c[2]
    BY DEF Chunks
  <1> QED
    BY <1>1, <1>2

\* Of two chunks one ends before the other starts: the line before a chunk is
\* blank, and no line of a chunk is.
LEMMA ChunksApart ==
  ASSUME lines \in Seq(Line), NEW c \in Chunks, NEW d \in Chunks, c[1] < d[1]
  PROVE  c[2] < d[1]
  <1>1. /\ c[1] \in Nat /\ c[2] \in Nat /\ d[1] \in Nat /\ 1 <= c[1]
    BY ChunkRange
  <1>2. IsBlank(d[1] - 1)
    BY <1>1 DEF Chunks
  <1>3. ~(d[1] - 1 \in Span(c))
    BY <1>2 DEF Chunks
  <1>4. ~(c[1] <= d[1] - 1 /\ d[1] - 1 <= c[2])
    <2>1. d[1] - 1 \in Int
      BY <1>1
    <2> QED
      BY <1>1, <1>3, <2>1 DEF Span
  <1> QED
    BY <1>1, <1>4

\* A chunk is determined by where it starts: the line behind it is blank.
LEMMA ChunkByStart ==
  ASSUME lines \in Seq(Line), NEW c \in Chunks, NEW d \in Chunks, c[1] = d[1]
  PROVE  c[2] = d[2]
  <1>1. ASSUME NEW a \in Chunks, NEW b \in Chunks, a[1] = b[1] PROVE ~(a[2] < b[2])
    <2> SUFFICES ASSUME a[2] < b[2] PROVE FALSE
      OBVIOUS
    <2>1. /\ a[1] \in Nat /\ a[2] \in Nat /\ b[1] \in Nat /\ b[2] \in Nat
          /\ a[1] <= a[2] /\ b[2] <= Len(lines) /\ Len(lines) \in Nat
      BY ChunkRange
    <2>2. IsBlank(a[2] + 1)
      BY <2>1 DEF Chunks
    <2>3. a[2] + 1 \in Span(b)
      BY <1>1, <2>1 DEF Span
    <2> QED
      BY <2>2, <2>3 DEF Chunks
  <1>2. ~(c[2] < d[2]) /\ ~(d[2] < c[2])
    BY <1>1
  <1> QED
    BY <1>2, ChunkRange

\* The loop takes up the first chunk it has not read.
LEMMA ChunkFirst ==
  ASSUME lines \in Seq(Line), Unread # {}
  PROVE  /\ Chunk \in Chunks /\ next <= Chunk[1]
         /\ \A c \in Chunks : next <= c[1] => Chunk[1] <= c[1]
  <1> DEFINE starts == {c[1] : c \in Unread}
  <1>1. \A c \in Unread : c \in Chunks /\ c[1] \in Nat /\ c[1] >= next
    BY ChunkRange DEF Unread
  <1>2. starts \subseteq Nat /\ starts # {}
    BY <1>1
  <1>3. PICK m \in starts : \A n \in starts : m <= n
    <2> HIDE DEF starts
    <2> QED
      BY <1>2, Least
  <1>4. PICK c \in Unread : c[1] = m
    OBVIOUS
  <1>5. c \in Unread /\ \A e \in Unread : c[1] <= e[1]
    BY <1>3, <1>4
  <1>6. Chunk \in Unread /\ \A e \in Unread : Chunk[1] <= e[1]
    BY <1>5 DEF Chunk
  <1>7. \A e \in Chunks : next <= e[1] => e \in Unread
    BY ChunkRange DEF Unread
  <1>8. Chunk \in Chunks /\ next <= Chunk[1]
    BY <1>6 DEF Unread
  <1> QED
    BY <1>6, <1>7, <1>8

\* The first heading of a chunk has a level and a title.
LEMMA HeadingFound ==
  ASSUME lines \in Seq(Line), NEW c \in Chunks, HasHeading(c)
  PROVE  HeadingOf(c) \in Heading /\ HeadingLine(c) \in Span(c)
  <1> DEFINE found == {i \in Span(c) : IsHeading(i)}
  <1>1. found # {} /\ found \subseteq Nat
    BY ChunkRange DEF HasHeading, Span
  <1>2. PICK m \in found : \A n \in found : m <= n
    <2> HIDE DEF found
    <2> QED
      BY <1>1, Least
  <1>3. m \in Span(c) /\ IsHeading(m) /\ \A j \in Span(c) : IsHeading(j) => m <= j
    BY <1>2
  <1>4. PICK i : i = CHOOSE k \in Span(c) : IsHeading(k) /\ \A j \in Span(c) : IsHeading(j) => k <= j
    OBVIOUS
  <1>5. i \in Span(c) /\ IsHeading(i)
    BY <1>3, <1>4
  <1>6. i \in 1..Len(lines)
    BY <1>5, ChunkRange DEF Span
  <1>7. lines[i] \in Line
    BY <1>6, ElementOfSeq
  <1>8. HeadingOf(c) = lines[i] /\ HeadingLine(c) = i
    BY <1>4 DEF HeadingOf, HeadingLine
  <1> QED
    BY <1>5, <1>7, <1>8 DEF IsHeading, Line, Blank, Comment, Text

-----------------------------------------------------------------------------
(* Types. *)

Typed ==
  /\ lines \in Seq(Line)
  /\ next \in Nat \ {0}
  /\ path \in Seq(Titles)
  /\ pending \in Chunks \cup {None}
  /\ blocks \in Seq(Block)
  /\ done \in BOOLEAN

LEMMA BlocksTyped ==
  ASSUME Typed
  PROVE  \A j \in DOMAIN blocks :
           blocks[j] \in Block /\ blocks[j].first \in Nat /\ blocks[j].last \in Nat
  <1>1. blocks \in Seq(Block)
    BY DEF Typed
  <1>2. DOMAIN blocks = 1..Len(blocks) /\ \A j \in 1..Len(blocks) : blocks[j] \in Block
    BY <1>1, ElementOfSeq, LenProperties
  <1>3. \A b \in Block : b.first \in Nat /\ b.last \in Nat
    BY DEF Block
  <1> QED
    BY <1>2, <1>3

\* The open headings after a chunk.
LEMMA PathTyped ==
  ASSUME lines \in Seq(Line), path \in Seq(Titles), NEW c \in Chunks
  PROVE  PathAfter(c) \in Seq(Titles)
  <1>1. ASSUME HasHeading(c) PROVE Opened(path, HeadingOf(c)) \in Seq(Titles)
    <2>1. PICK h : h = HeadingOf(c)
      OBVIOUS
    <2>2. h.level \in 1..6 /\ h.title \in Titles
      BY <1>1, <2>1, HeadingFound DEF Heading, Level
    <2>3. Len(path) \in Nat /\ \A i \in 1..Len(path) : path[i] \in Titles
      BY LenProperties, ElementOfSeq
    <2>4. PICK n : n = IF h.level - 1 < Len(path) THEN h.level - 1 ELSE Len(path)
      OBVIOUS
    <2>5. n \in Int /\ \A i \in 1..n : path[i] \in Titles
      BY <2>2, <2>3, <2>4
    <2>6. SubSeq(path, 1, n) \in Seq(Titles)
      BY <2>5, SubSeqProperties
    <2>7. Append(SubSeq(path, 1, n), h.title) \in Seq(Titles)
      BY <2>2, <2>6, AppendProperties
    <2> QED
      BY <2>1, <2>4, <2>7 DEF Opened
  <1> QED
    BY <1>1 DEF PathAfter

LEMMA SectionTyped ==
  ASSUME NEW open \in Seq(Titles)
  PROVE  SectionOf(open) \in Section
  <1>1. open \in Seq(Titles \cup {Default})
    BY SeqMonotonic
  <1>2. <<Default>> \in Seq(Titles \cup {Default})
    OBVIOUS
  <1> QED
    BY <1>1, <1>2 DEF SectionOf, Section

\* A block has the range of the chunk, or from the heading to the end of the
\* chunk, and its text is in that range.
LEMMA BlockFields ==
  ASSUME lines \in Seq(Line), NEW c \in Chunks, NEW open \in Seq(Titles)
  PROVE  LET b == BlockOf(c, open)
         IN  /\ b \in Block /\ b.first = c[1] /\ b.last = c[2]
             /\ b.body = Span(c) /\ b.body \subseteq b.first..b.last
  <1>1. c[1] \in Nat /\ c[2] \in Nat /\ Span(c) \subseteq Nat
    BY ChunkRange DEF Span
  <1>2. SectionOf(open) \in Section
    BY SectionTyped
  <1> QED
    BY <1>1, <1>2 DEF BlockOf, Block, Span

LEMMA MergedFields ==
  ASSUME lines \in Seq(Line), NEW h \in Chunks, NEW c \in Chunks, h[2] < c[1],
         NEW open \in Seq(Titles)
  PROVE  LET b == Merged(h, c, open)
         IN  /\ b \in Block /\ b.first = h[1] /\ b.last = c[2]
             /\ b.body = Span(h) \cup Span(c) /\ b.body \subseteq b.first..b.last
  <1>1. /\ h[1] \in Nat /\ h[2] \in Nat /\ c[1] \in Nat /\ c[2] \in Nat
        /\ h[1] <= h[2] /\ c[1] <= c[2]
    BY ChunkRange
  <1>2. Span(h) \subseteq Nat /\ Span(c) \subseteq Nat
        /\ Span(h) \cup Span(c) \subseteq h[1]..c[2]
    BY <1>1 DEF Span
  <1>3. SectionOf(open) \in Section
    BY SectionTyped
  <1> QED
    BY <1>1, <1>2, <1>3 DEF Merged, Block

-----------------------------------------------------------------------------
(* Where the blocks and the pending heading are. *)

\* Blocks lie one behind the other, the pending heading behind all of them,
\* and the lines that are not read yet behind that.
Ranges ==
  /\ \A j \in DOMAIN blocks :
       /\ blocks[j].first <= blocks[j].last /\ blocks[j].last < next
       /\ blocks[j].body \subseteq blocks[j].first..blocks[j].last
  /\ BlocksApart
  /\ pending # None =>
       pending[2] < next /\ \A j \in DOMAIN blocks : blocks[j].last < pending[1]

\* What is read is read by whole chunks, and its text is in the blocks.
Covered ==
  /\ \A c \in Chunks : c[1] < next => c[2] < next
  /\ \A c \in Chunks : c[1] < next /\ ~IsComment(c) /\ ~IsHeadingOnly(c) =>
       \E j \in DOMAIN blocks : Span(c) \subseteq blocks[j].body
  /\ done => Unread = {}

ImportInv == Typed /\ Ranges /\ Covered

\* What a block added at the end has to satisfy, and what it changes.
LEMMA BlockAdded ==
  ASSUME Typed, Ranges, NEW b \in Block, NEW end \in Nat, next <= end,
         b.first <= b.last, b.last < end, b.body \subseteq b.first..b.last,
         \A j \in DOMAIN blocks : blocks[j].last < b.first,
         blocks' = Append(blocks, b)
  PROVE  /\ blocks' \in Seq(Block)
         /\ \A j \in DOMAIN blocks' :
              /\ blocks'[j].first <= blocks'[j].last /\ blocks'[j].last < end
              /\ blocks'[j].body \subseteq blocks'[j].first..blocks'[j].last
         /\ BlocksApart'
         /\ DOMAIN blocks \subseteq DOMAIN blocks'
         /\ \A j \in DOMAIN blocks : blocks'[j] = blocks[j]
         /\ Len(blocks') \in DOMAIN blocks' /\ blocks'[Len(blocks')] = b
  <1>1. blocks \in Seq(Block) /\ next \in Nat
    BY DEF Typed
  <1>2. /\ blocks' \in Seq(Block) /\ Len(blocks') = Len(blocks) + 1
        /\ \A i \in 1..Len(blocks) : blocks'[i] = blocks[i]
        /\ blocks'[Len(blocks) + 1] = b
    BY <1>1, AppendProperties
  <1>3. /\ Len(blocks) \in Nat /\ DOMAIN blocks = 1..Len(blocks)
        /\ DOMAIN blocks' = 1..(Len(blocks) + 1)
    BY <1>1, <1>2, LenProperties
  <1>4. \A j \in DOMAIN blocks' : j \in DOMAIN blocks \/ (j = Len(blocks) + 1 /\ blocks'[j] = b)
    BY <1>2, <1>3
  <1>5. \A j \in DOMAIN blocks : blocks'[j] = blocks[j] /\ blocks[j] \in Block
    BY <1>1, <1>2, <1>3, ElementOfSeq
  <1>6. ASSUME NEW j \in DOMAIN blocks'
        PROVE  /\ blocks'[j].first <= blocks'[j].last /\ blocks'[j].last < end
               /\ blocks'[j].body \subseteq blocks'[j].first..blocks'[j].last
    <2>1. CASE j \in DOMAIN blocks
      <3>1. blocks[j].last \in Nat /\ blocks[j].last < next
        BY <1>5, <2>1 DEF Block, Ranges
      <3>2. blocks[j].last < end
        BY <1>1, <3>1
      <3> QED
        BY <1>5, <2>1, <3>2 DEF Ranges
    <2>2. CASE blocks'[j] = b
      BY <2>2
    <2> QED
      BY <1>4, <2>1, <2>2
  <1>7. ASSUME NEW i \in DOMAIN blocks', NEW j \in DOMAIN blocks', i < j
        PROVE  blocks'[i].last < blocks'[j].first
    <2>1. i \in DOMAIN blocks
      BY <1>3, <1>7
    <2>2. CASE j \in DOMAIN blocks
      BY <1>5, <1>7, <2>1, <2>2 DEF Ranges, BlocksApart
    <2>3. CASE blocks'[j] = b
      BY <1>5, <2>1, <2>3
    <2> QED
      BY <1>4, <2>2, <2>3
  <1>8. BlocksApart'
    BY <1>7 DEF BlocksApart
  <1>9. Len(blocks') \in DOMAIN blocks' /\ blocks'[Len(blocks')] = b
    BY <1>2, <1>3
  <1> QED
    BY <1>2, <1>3, <1>5, <1>6, <1>8, <1>9

\* Reading a chunk: nothing is behind it and before the next line.
LEMMA ChunkRead ==
  ASSUME ImportInv, HasChunk, Advance
  PROVE  /\ Chunk \in Chunks /\ next <= Chunk[1] /\ Chunk[1] <= Chunk[2]
         /\ Chunk[1] \in Nat /\ Chunk[2] \in Nat
         /\ lines' = lines /\ lines' \in Seq(Line) /\ Chunks' = Chunks /\ done' = done /\ ~done
         /\ next' = Chunk[2] + 1 /\ next' \in Nat \ {0} /\ next < next'
         /\ \A c \in Chunks : c[1] < next' => c[2] < next' /\ (c[1] < next \/ c = Chunk)
  <1>1. lines \in Seq(Line) /\ next \in Nat
    BY DEF ImportInv, Typed
  <1>2. /\ Chunk \in Chunks /\ next <= Chunk[1]
        /\ \A c \in Chunks : next <= c[1] => Chunk[1] <= c[1]
    BY <1>1, ChunkFirst DEF HasChunk
  <1>3. Chunk[1] \in Nat /\ Chunk[2] \in Nat /\ 1 <= Chunk[1] /\ Chunk[1] <= Chunk[2]
    BY <1>1, <1>2, ChunkRange
  <1>4. next' = Chunk[2] + 1 /\ lines' = lines /\ done' = done
    BY DEF Advance
  <1>5. Chunks' = Chunks
    BY <1>4 DEF Chunks, Span, IsBlank
  <1>6. PICK k : k = Chunk
    OBVIOUS
  <1>7. ASSUME NEW c \in Chunks, c[1] < next'
        PROVE  c[2] < next' /\ (c[1] < next \/ c = k)
    <2>1. c[1] \in Nat /\ c[2] \in Nat
      BY <1>1, ChunkRange
    <2>2. CASE c[1] < next
      <3>1. c[2] < next
        BY <2>2 DEF ImportInv, Covered
      <3> QED
        BY <1>1, <1>2, <1>3, <1>4, <2>1, <2>2, <3>1
    <2>3. CASE next <= c[1]
      <3>1. k[1] <= c[1] /\ ~(k[2] < c[1])
        BY <1>2, <1>3, <1>4, <1>6, <1>7, <2>1, <2>3
      <3>2. ~(k[1] < c[1])
        BY <1>1, <1>2, <1>6, <3>1, ChunksApart
      <3>3. k[1] = c[1]
        BY <1>3, <1>6, <2>1, <3>1, <3>2
      <3>4. k[2] = c[2]
        BY <1>1, <1>2, <1>6, <3>3, ChunkByStart
      <3>5. c \in Nat \X Nat /\ k \in Nat \X Nat
        BY <1>1, <1>2, <1>6, ChunkRange
      <3>6. c = k
        BY <3>3, <3>4, <3>5
      <3> QED
        BY <1>3, <1>4, <1>6, <2>1, <3>4, <3>6
    <2> QED
      BY <1>1, <2>1, <2>2, <2>3
  <1> QED
    BY <1>1, <1>2, <1>3, <1>4, <1>5, <1>6, <1>7 DEF HasChunk

\* The coverage after a chunk, if its own text is covered.
LEMMA CoverageKept ==
  ASSUME ImportInv, HasChunk, Advance,
         DOMAIN blocks \subseteq DOMAIN blocks',
         \A j \in DOMAIN blocks : blocks'[j] = blocks[j],
         IsComment(Chunk) \/ IsHeadingOnly(Chunk)
           \/ \E j \in DOMAIN blocks' : Span(Chunk) \subseteq blocks'[j].body
  PROVE  Covered'
  <1>1. /\ Chunks' = Chunks /\ lines' = lines /\ done' = FALSE
        /\ \A c \in Chunks : c[1] < next' => c[2] < next' /\ (c[1] < next \/ c = Chunk)
    BY ChunkRead
  <1>2. ASSUME NEW c \in Chunks, c[1] < next', ~IsComment(c), ~IsHeadingOnly(c)
        PROVE  \E j \in DOMAIN blocks' : Span(c) \subseteq blocks'[j].body
    <2>1. CASE c[1] < next
      <3>1. PICK j \in DOMAIN blocks : Span(c) \subseteq blocks[j].body
        BY <1>2, <2>1 DEF ImportInv, Covered
      <3> QED
        BY <3>1
    <2>2. CASE c = Chunk
      BY <1>2, <2>2
    <2> QED
      BY <1>1, <1>2, <2>1, <2>2
  <1>3. \A c : IsComment(c)' = IsComment(c) /\ IsHeadingOnly(c)' = IsHeadingOnly(c)
               /\ Span(c)' = Span(c)
    BY <1>1 DEF IsComment, IsHeadingOnly, IsHeading, Span
  <1> QED
    BY <1>1, <1>2, <1>3 DEF Covered

\* Reading a chunk without making a block of it.
LEMMA NoBlockAdded ==
  ASSUME ImportInv, HasChunk, Advance, UNCHANGED blocks,
         IsComment(Chunk) \/ IsHeadingOnly(Chunk),
         path' \in Seq(Titles), pending' = pending \/ pending' = Chunk
  PROVE  ImportInv'
  <1>1. /\ Chunk \in Chunks /\ next <= Chunk[1] /\ Chunk[1] \in Nat /\ Chunk[2] \in Nat
        /\ lines' \in Seq(Line) /\ Chunks' = Chunks /\ done' = FALSE
        /\ next' = Chunk[2] + 1 /\ next' \in Nat \ {0} /\ next < next' /\ next \in Nat
    BY ChunkRead DEF ImportInv, Typed
  <1>2. Typed'
    BY <1>1 DEF ImportInv, Typed
  <1>3. Covered'
    BY CoverageKept
  <1>4. \A j \in DOMAIN blocks : blocks[j] \in Block /\ blocks[j].last \in Nat
    BY BlocksTyped DEF ImportInv
  <1>5. \A j \in DOMAIN blocks : blocks[j].last < next
    BY DEF ImportInv, Ranges
  <1>6. \A j \in DOMAIN blocks : blocks[j].last < next' /\ blocks[j].last < Chunk[1]
    BY <1>1, <1>4, <1>5
  <1>7. ASSUME pending' # None
        PROVE  pending'[2] < next' /\ \A j \in DOMAIN blocks : blocks[j].last < pending'[1]
    <2>1. CASE pending' = Chunk
      BY <1>1, <1>6, <2>1
    <2>2. CASE pending' = pending
      <3>1. pending \in Chunks /\ pending[2] < next
            /\ \A j \in DOMAIN blocks : blocks[j].last < pending[1]
        BY <1>7, <2>2 DEF ImportInv, Typed, Ranges
      <3>2. pending[2] \in Nat
        BY <3>1, ChunkRange DEF ImportInv, Typed
      <3> QED
        BY <1>1, <2>2, <3>1, <3>2
    <2> QED
      BY <2>1, <2>2
  <1>8. BlocksApart'
    BY DEF ImportInv, Ranges, BlocksApart
  <1>9. Ranges'
    BY <1>6, <1>7, <1>8 DEF ImportInv, Ranges
  <1> QED
    BY <1>2, <1>3, <1>9 DEF ImportInv

\* Making a block of a chunk and the heading that waits for it.
LEMMA EmitKeeps ==
  ASSUME ImportInv, Emit
  PROVE  ImportInv'
  <1>1. /\ HasChunk /\ Advance /\ path' = PathAfter(Chunk) /\ pending' = None
        /\ blocks' = Append(blocks, IF pending = None THEN BlockOf(Chunk, path')
                                    ELSE Merged(pending, Chunk, path'))
    BY DEF Emit
  <1>2. /\ Chunk \in Chunks /\ next <= Chunk[1] /\ Chunk[1] \in Nat /\ Chunk[2] \in Nat
        /\ Chunk[1] <= Chunk[2]
        /\ lines' \in Seq(Line) /\ Chunks' = Chunks /\ done' = FALSE
        /\ next' = Chunk[2] + 1 /\ next' \in Nat \ {0} /\ next < next' /\ next \in Nat
        /\ lines \in Seq(Line)
    BY <1>1, ChunkRead DEF ImportInv, Typed
  <1>3. path' \in Seq(Titles)
    BY <1>1, <1>2, PathTyped DEF ImportInv, Typed
  <1>4. \A j \in DOMAIN blocks :
          /\ blocks[j].last \in Nat /\ blocks[j].last < next
          /\ pending # None => blocks[j].last < pending[1]
    BY BlocksTyped DEF ImportInv, Ranges
  <1>5. PICK c : c = Chunk
    OBVIOUS
  <1>6. PICK open : open = path'
    OBVIOUS
  <1>7. PICK b : b = IF pending = None THEN BlockOf(c, open) ELSE Merged(pending, c, open)
    OBVIOUS
  <1>8. /\ b \in Block /\ b.first <= b.last /\ b.last = c[2]
        /\ b.body \subseteq b.first..b.last /\ Span(c) \subseteq b.body
        /\ \A j \in DOMAIN blocks : blocks[j].last < b.first
    <2>1. CASE pending = None
      <3>1. b = BlockOf(c, open)
        BY <1>7, <2>1
      <3>2. /\ b \in Block /\ b.first = c[1] /\ b.last = c[2]
            /\ b.body = Span(c) /\ b.body \subseteq b.first..b.last
        BY <1>2, <1>3, <1>5, <1>6, <3>1, BlockFields
      <3>3. \A j \in DOMAIN blocks : blocks[j].last < c[1]
        BY <1>2, <1>4, <1>5
      <3> QED
        BY <1>2, <1>5, <3>2, <3>3
    <2>2. CASE pending # None
      <3>1. PICK h : h = pending
        OBVIOUS
      <3>2. h \in Chunks /\ h[2] < next
        BY <2>2, <3>1 DEF ImportInv, Typed, Ranges
      <3>3. h[1] \in Nat /\ h[2] \in Nat /\ h[1] <= h[2]
        BY <1>2, <3>2, ChunkRange
      <3>4. h[2] < c[1] /\ h[1] <= c[2]
        BY <1>2, <1>5, <3>2, <3>3
      <3>5. b = Merged(h, c, open)
        BY <1>7, <2>2, <3>1
      <3>6. /\ b \in Block /\ b.first = h[1] /\ b.last = c[2]
            /\ b.body = Span(h) \cup Span(c) /\ b.body \subseteq b.first..b.last
        BY <1>2, <1>3, <1>5, <1>6, <3>2, <3>4, <3>5, MergedFields
      <3> QED
        BY <1>4, <2>2, <3>1, <3>4, <3>6
    <2> QED
      BY <2>1, <2>2
  <1>9. PICK end : end = next'
    OBVIOUS
  <1>10. end \in Nat /\ next <= end /\ b.last < end
    BY <1>2, <1>5, <1>8, <1>9
  <1>11. blocks' = Append(blocks, b)
    BY <1>1, <1>5, <1>6, <1>7
  <1>12. /\ blocks' \in Seq(Block)
         /\ \A j \in DOMAIN blocks' :
              /\ blocks'[j].first <= blocks'[j].last /\ blocks'[j].last < end
              /\ blocks'[j].body \subseteq blocks'[j].first..blocks'[j].last
         /\ BlocksApart'
         /\ DOMAIN blocks \subseteq DOMAIN blocks'
         /\ \A j \in DOMAIN blocks : blocks'[j] = blocks[j]
         /\ Len(blocks') \in DOMAIN blocks' /\ blocks'[Len(blocks')] = b
    BY <1>8, <1>10, <1>11, BlockAdded DEF ImportInv
  <1>13. Covered'
    <2>1. \E j \in DOMAIN blocks' : Span(Chunk) \subseteq blocks'[j].body
      BY <1>5, <1>8, <1>12
    <2> QED
      BY <1>1, <1>12, <2>1, CoverageKept
  <1>14. Typed' /\ Ranges'
    BY <1>1, <1>2, <1>3, <1>9, <1>12 DEF Typed, Ranges
  <1> QED
    BY <1>13, <1>14 DEF ImportInv

\* The end of the document.
LEMMA FinishKeeps ==
  ASSUME ImportInv, Finish
  PROVE  ImportInv'
  <1>1. /\ ~done /\ Unread = {} /\ done' = TRUE /\ pending' = None
        /\ blocks' = IF pending = None THEN blocks ELSE Append(blocks, BlockOf(pending, path))
        /\ UNCHANGED <<lines, next, path>>
    BY DEF Finish
  <1>2. /\ Chunks' = Chunks /\ Unread' = {}
        /\ \A c : IsComment(c)' = IsComment(c) /\ IsHeadingOnly(c)' = IsHeadingOnly(c)
                  /\ Span(c)' = Span(c)
    BY <1>1 DEF Chunks, Unread, IsComment, IsHeadingOnly, IsHeading, IsBlank, Span
  <1>3. CASE pending = None
    <2>1. blocks' = blocks
      BY <1>1, <1>3
    <2>2. Typed'
      BY <1>1, <1>2, <2>1 DEF ImportInv, Typed
    <2>3. Ranges'
      BY <1>1, <2>1 DEF ImportInv, Ranges, BlocksApart
    <2>4. Covered'
      BY <1>1, <1>2, <2>1 DEF ImportInv, Covered
    <2> QED
      BY <2>2, <2>3, <2>4 DEF ImportInv
  <1>4. CASE pending # None
    <2>1. PICK h : h = pending
      OBVIOUS
    <2>2. PICK open : open = path
      OBVIOUS
    <2>3. PICK b : b = BlockOf(h, open)
      OBVIOUS
    <2>4. PICK end : end = next
      OBVIOUS
    <2>5. /\ h \in Chunks /\ h[2] < next /\ open \in Seq(Titles) /\ lines \in Seq(Line)
          /\ end \in Nat /\ next <= end /\ h[2] < end
          /\ \A j \in DOMAIN blocks : blocks[j].last < h[1]
      BY <1>4, <2>1, <2>2, <2>4 DEF ImportInv, Typed, Ranges
    <2>6. /\ b \in Block /\ b.first = h[1] /\ b.last = h[2]
          /\ b.body \subseteq b.first..b.last
      BY <2>3, <2>5, BlockFields
    <2>7. b.first <= b.last /\ b.last < end /\ \A j \in DOMAIN blocks : blocks[j].last < b.first
      BY <2>5, <2>6, ChunkRange
    <2>8. blocks' = Append(blocks, b)
      BY <1>1, <1>4, <2>1, <2>2, <2>3
    <2>9. /\ blocks' \in Seq(Block)
          /\ \A j \in DOMAIN blocks' :
               /\ blocks'[j].first <= blocks'[j].last /\ blocks'[j].last < end
               /\ blocks'[j].body \subseteq blocks'[j].first..blocks'[j].last
          /\ BlocksApart'
          /\ DOMAIN blocks \subseteq DOMAIN blocks'
          /\ \A j \in DOMAIN blocks : blocks'[j] = blocks[j]
      BY <2>5, <2>6, <2>7, <2>8, BlockAdded DEF ImportInv
    <2>10. Typed' /\ Ranges'
      BY <1>1, <1>2, <2>4, <2>9 DEF ImportInv, Typed, Ranges
    <2>11. ASSUME NEW c \in Chunks, c[1] < next, ~IsComment(c), ~IsHeadingOnly(c)
           PROVE  \E j \in DOMAIN blocks' : Span(c) \subseteq blocks'[j].body
      <3>1. PICK j \in DOMAIN blocks : Span(c) \subseteq blocks[j].body
        BY <2>11 DEF ImportInv, Covered
      <3> QED
        BY <2>9, <3>1
    <2>12. Covered'
      BY <1>1, <1>2, <2>11 DEF ImportInv, Covered
    <2> QED
      BY <2>10, <2>12 DEF ImportInv
  <1> QED
    BY <1>3, <1>4

LEMMA ImportNext ==
  ASSUME ImportInv, [Next]_vars
  PROVE  ImportInv'
  <1>1. CASE UNCHANGED vars
    <2>1. UNCHANGED <<lines, next, path, pending, blocks, done>>
      BY <1>1 DEF vars
    <2> QED
      BY <2>1 DEF ImportInv, Typed, Ranges, Covered, BlocksApart, Chunks, Unread,
                  IsComment, IsHeadingOnly, IsHeading, IsBlank, Span
  <1>2. CASE SkipComment
    <2>1. HasChunk /\ Advance /\ IsComment(Chunk) /\ UNCHANGED <<path, pending, blocks>>
      BY <1>2 DEF SkipComment
    <2> QED
      BY <2>1, NoBlockAdded DEF ImportInv, Typed
  <1>3. CASE TakeHeading
    <2>1. HasChunk /\ Advance /\ IsHeadingOnly(Chunk) /\ path' = PathAfter(Chunk)
          /\ pending' = Chunk /\ UNCHANGED blocks
      BY <1>3 DEF TakeHeading
    <2>2. path' \in Seq(Titles)
      BY <2>1, ChunkRead, PathTyped DEF ImportInv, Typed
    <2> QED
      BY <2>1, <2>2, NoBlockAdded
  <1>4. CASE Emit
    BY <1>4, EmitKeeps
  <1>5. CASE Finish
    BY <1>5, FinishKeeps
  <1> QED
    BY <1>1, <1>2, <1>3, <1>4, <1>5 DEF Next, Read

LEMMA ImportInit ==
  ASSUME Init
  PROVE  ImportInv
  <1>1. lines \in Seq(Line) /\ next = 1 /\ path = <<>> /\ pending = None /\ blocks = <<>> /\ ~done
        /\ done \in BOOLEAN
    BY DocumentAssumption DEF Init
  <1>2. <<>> \in Seq(Titles) /\ <<>> \in Seq(Block) /\ DOMAIN blocks = {}
    BY <1>1, EmptySeq
  <1>3. Typed /\ Ranges
    BY <1>1, <1>2 DEF Typed, Ranges, BlocksApart
  <1>4. \A c \in Chunks : ~(c[1] < next)
    BY <1>1, ChunkRange
  <1>5. Covered
    BY <1>1, <1>4 DEF Covered
  <1> QED
    BY <1>3, <1>5 DEF ImportInv

\* The invariant holds at every step of every import.
LEMMA ImportInvariant == Spec => []ImportInv
  <1>1. Init => ImportInv
    BY ImportInit
  <1>2. ImportInv /\ [Next]_vars => ImportInv'
    BY ImportNext
  <1> QED
    BY <1>1, <1>2, PTL DEF Spec

(* The blocks of every document come in its order and claim disjoint ranges of
   it: no two blocks of one import have one slug. *)
THEOREM RangesDisjoint == Spec => []BlocksApart
  <1>1. ImportInv => BlocksApart
    BY DEF ImportInv, Ranges
  <1> QED
    BY <1>1, ImportInvariant, PTL

(* Every line of every document that is in a chunk with text ends up in a
   block, none in two, each in the range the block names as its place. *)
THEOREM EveryTextKept == Spec => []TextKept
  <1>1. ASSUME ImportInv PROVE TextKept
    <2>1. \A j \in DOMAIN blocks :
            /\ blocks[j].first \in Nat /\ blocks[j].last \in Nat
            /\ blocks[j].body \subseteq blocks[j].first..blocks[j].last
      BY <1>1, BlocksTyped DEF ImportInv, Ranges
    <2>2. ASSUME NEW i, NEW j \in In(i), NEW k \in In(i) PROVE j = k
      <3>1. /\ j \in DOMAIN blocks /\ k \in DOMAIN blocks
            /\ i \in blocks[j].first..blocks[j].last
            /\ i \in blocks[k].first..blocks[k].last
        BY <2>1, <2>2 DEF In
      <3>2. ~(blocks[j].last < blocks[k].first) /\ ~(blocks[k].last < blocks[j].first)
        BY <2>1, <3>1
      <3>3. ~(j < k) /\ ~(k < j)
        BY <1>1, <3>1, <3>2 DEF ImportInv, Ranges, BlocksApart
      <3>4. j \in Nat /\ k \in Nat
        BY <1>1, <3>1, LenProperties DEF ImportInv, Typed
      <3> QED
        BY <3>3, <3>4
    <2>3. ASSUME NEW i PROVE Cardinality(In(i)) <= 1
      <3>1. CASE In(i) = {}
        BY <3>1, FS_EmptySet
      <3>2. CASE In(i) # {}
        <4>1. PICK j \in In(i) : In(i) = {j}
          BY <2>2, <3>2
        <4>2. Cardinality({j}) = 1
          BY FS_Singleton
        <4> QED
          BY <4>1, <4>2
      <3> QED
        BY <3>1, <3>2
    <2>4. \A i : \A j \in In(i) : i \in blocks[j].first..blocks[j].last
      BY <2>1 DEF In
    <2>5. ASSUME done, NEW c \in Chunks, ~IsComment(c), ~IsHeadingOnly(c), NEW i \in Span(c)
          PROVE  In(i) # {}
      <3>1. c[1] < next
        <4>1. c[1] \in Nat /\ next \in Nat
          BY <1>1, ChunkRange DEF ImportInv, Typed
        <4>2. ~(c[1] >= next)
          BY <1>1, <2>5 DEF ImportInv, Covered, Unread
        <4> QED
          BY <4>1, <4>2
      <3>2. PICK j \in DOMAIN blocks : Span(c) \subseteq blocks[j].body
        BY <1>1, <2>5, <3>1 DEF ImportInv, Covered
      <3> QED
        BY <2>5, <3>2 DEF In
    <2> QED
      BY <2>3, <2>4, <2>5 DEF TextKept
  <1> QED
    BY <1>1, ImportInvariant, PTL


-----------------------------------------------------------------------------
(* Sections.  The headings are a set of lines, each behind those read      *)
(* before it.                                                              *)
OpenOf(H) == {i \in H : \A j \in H : j > i => lines[j].level > lines[i].level}

OutlineOf(H) ==
  \A i \in H :
    \/ lines[i].level = 1
    \/ \E j \in H :
         /\ j < i /\ lines[j].level = lines[i].level - 1
         /\ \A k \in H : j < k /\ k < i => lines[k].level > lines[j].level

\* p has the title of each open heading in the place of its level.
Nested(p, H) ==
  OutlineOf(H) =>
    /\ DOMAIN p = {lines[i].level : i \in OpenOf(H)}
    /\ \A i \in OpenOf(H) : p[lines[i].level] = lines[i].title

\* What a path is after a heading that closes those of its level and below.
LEMMA OpenedIs ==
  ASSUME NEW p \in Seq(Titles), NEW h \in Heading, h.level - 1 <= Len(p)
  PROVE  /\ DOMAIN Opened(p, h) = 1..h.level
         /\ Opened(p, h)[h.level] = h.title
         /\ \A m \in 1..(h.level - 1) : Opened(p, h)[m] = p[m]
  <1>1. h.level \in 1..6 /\ h.title \in Titles
    BY DEF Heading, Level
  <1>2. Len(p) \in Nat /\ \A i \in 1..Len(p) : p[i] \in Titles
    BY LenProperties, ElementOfSeq
  <1>3. PICK n : n = h.level - 1
    OBVIOUS
  <1>4. n \in Int /\ n \in Nat /\ 1 \in Int /\ n <= Len(p) /\ n + 1 = h.level
    BY <1>1, <1>3
  <1>5. \A i \in 1..n : p[i] \in Titles
    BY <1>2, <1>4
  <1>6. PICK s : s = SubSeq(p, 1, n)
    OBVIOUS
  <1>7. s \in Seq(Titles) /\ Len(s) = n /\ \A i \in 1..n : s[i] = p[i]
    <2>1. /\ s \in Seq(Titles) /\ Len(s) = IF 1 <= n THEN n - 1 + 1 ELSE 0
          /\ \A i \in 1..(n - 1 + 1) : s[i] = p[1 + i - 1]
      BY <1>4, <1>5, <1>6, SubSeqProperties
    <2> QED
      BY <1>4, <2>1
  <1>8. PICK r : r = Append(s, h.title)
    OBVIOUS
  <1>9. /\ r \in Seq(Titles) /\ Len(r) = n + 1 /\ r[n + 1] = h.title
        /\ \A i \in 1..n : r[i] = s[i]
    BY <1>1, <1>7, <1>8, AppendProperties
  <1>10. DOMAIN r = 1..h.level
    BY <1>4, <1>9, LenProperties
  <1>11. Opened(p, h) = r
    <2>1. (IF h.level - 1 < Len(p) THEN h.level - 1 ELSE Len(p)) = n
      BY <1>2, <1>3, <1>4
    <2> QED
      BY <1>6, <1>8, <2>1 DEF Opened
  <1> QED
    BY <1>3, <1>4, <1>7, <1>9, <1>10, <1>11

LEMMA HeadingAdded ==
  ASSUME NEW H, NEW i \in Nat, \A j \in H : j \in Nat /\ j < i /\ lines[j] \in Heading,
         lines[i] \in Heading, NEW p \in Seq(Titles), Nested(p, H)
  PROVE  Nested(Opened(p, lines[i]), H \cup {i})
  <1> DEFINE G == H \cup {i}
  <1> SUFFICES ASSUME OutlineOf(G)
               PROVE  /\ DOMAIN Opened(p, lines[i]) = {lines[j].level : j \in OpenOf(G)}
                      /\ \A j \in OpenOf(G) : Opened(p, lines[i])[lines[j].level] = lines[j].title
    BY DEF Nested
  <1>1. PICK l : l = lines[i].level
    OBVIOUS
  <1>2. l \in 1..6 /\ \A j \in H : lines[j].level \in 1..6
    BY <1>1 DEF Heading, Level
  <1>3. OutlineOf(H)
    <2> SUFFICES ASSUME NEW j \in H
                 PROVE  \/ lines[j].level = 1
                        \/ \E k \in H :
                             /\ k < j /\ lines[k].level = lines[j].level - 1
                             /\ \A m \in H : k < m /\ m < j => lines[m].level > lines[k].level
      BY DEF OutlineOf
    <2>1. CASE lines[j].level = 1
      BY <2>1
    <2>2. CASE lines[j].level # 1
      <3>1. PICK k \in G : /\ k < j /\ lines[k].level = lines[j].level - 1
                           /\ \A m \in G : k < m /\ m < j => lines[m].level > lines[k].level
        BY <2>2 DEF OutlineOf
      <3>2. k \in H
        BY <3>1
      <3> QED
        BY <3>1, <3>2
    <2> QED
      BY <2>1, <2>2
  <1>4. /\ DOMAIN p = {lines[j].level : j \in OpenOf(H)}
        /\ \A j \in OpenOf(H) : p[lines[j].level] = lines[j].title
    BY <1>3 DEF Nested
  <1>5. ASSUME NEW j
        PROVE  j \in OpenOf(G) <=> j = i \/ (j \in OpenOf(H) /\ lines[j].level < l)
    <2>1. ASSUME j = i PROVE j \in OpenOf(G)
      <3>1. \A k \in G : ~(k > i)
        OBVIOUS
      <3> QED
        BY <2>1, <3>1 DEF OpenOf
    <2>2. ASSUME j # i, j \in OpenOf(G) PROVE j \in OpenOf(H) /\ lines[j].level < l
      <3>1. j \in H /\ i > j
        BY <2>2 DEF OpenOf
      <3>2. \A k \in G : k > j => lines[k].level > lines[j].level
        BY <2>2 DEF OpenOf
      <3>3. lines[i].level > lines[j].level
        BY <3>1, <3>2
      <3> QED
        BY <1>1, <1>2, <3>1, <3>2, <3>3 DEF OpenOf
    <2>3. ASSUME j \in OpenOf(H), lines[j].level < l PROVE j \in OpenOf(G)
      <3>1. j \in H /\ \A k \in H : k > j => lines[k].level > lines[j].level
        BY <2>3 DEF OpenOf
      <3>2. lines[i].level > lines[j].level
        BY <1>1, <1>2, <2>3, <3>1
      <3> QED
        BY <3>1, <3>2 DEF OpenOf
    <2> QED
      BY <2>1, <2>2, <2>3
  <1>6. Len(p) \in Nat /\ DOMAIN p = 1..Len(p)
    BY LenProperties
  <1>7. l - 1 <= Len(p)
    <2>1. CASE l = 1
      BY <1>6, <2>1
    <2>2. CASE l # 1
      <3>1. PICK k \in G : /\ k < i /\ lines[k].level = l - 1
                           /\ \A m \in G : k < m /\ m < i => lines[m].level > lines[k].level
        BY <1>1, <2>2 DEF OutlineOf
      <3>2. k \in H /\ \A m \in H : m > k => lines[m].level > lines[k].level
        BY <3>1
      <3>3. k \in OpenOf(H)
        BY <3>2 DEF OpenOf
      <3>4. l - 1 \in DOMAIN p
        BY <1>4, <3>1, <3>3
      <3> QED
        BY <1>6, <3>4
    <2> QED
      BY <2>1, <2>2
  <1>8. PICK r : r = Opened(p, lines[i])
    OBVIOUS
  <1>9. DOMAIN r = 1..l /\ r[l] = lines[i].title /\ \A m \in 1..(l - 1) : r[m] = p[m]
    BY <1>1, <1>7, <1>8, OpenedIs
  <1>10. \A j \in OpenOf(H) : lines[j].level \in 1..6 /\ lines[j].level \in DOMAIN p
    BY <1>2, <1>4 DEF OpenOf
  <1>11. ASSUME NEW m PROVE m \in 1..l <=> \E j \in OpenOf(G) : m = lines[j].level
    <2>1. ASSUME m \in 1..l, m # l PROVE \E j \in OpenOf(G) : m = lines[j].level
      <3>1. m \in DOMAIN p /\ m < l
        BY <1>2, <1>6, <1>7, <2>1
      <3>2. PICK j \in OpenOf(H) : m = lines[j].level
        BY <1>4, <3>1
      <3> QED
        BY <1>5, <3>1, <3>2
    <2>2. l \in 1..l /\ i \in OpenOf(G)
      <3>1. l \in 1..l
        BY <1>2
      <3>2. i \in OpenOf(G)
        <4> HIDE DEF G
        <4> QED
          BY <1>5, Zenon
      <3> QED
        BY <3>1, <3>2
    <2>3. ASSUME NEW j \in OpenOf(G) PROVE lines[j].level \in 1..l
      <3>1. j = i \/ (j \in OpenOf(H) /\ lines[j].level < l)
        BY <1>5
      <3>2. CASE j = i
        BY <1>1, <2>2, <3>2
      <3>3. CASE j # i
        <4>1. PICK k : k = lines[j].level
          OBVIOUS
        <4>2. k \in 1..6 /\ k < l
          BY <1>10, <3>1, <3>3, <4>1
        <4> QED
          BY <1>2, <4>1, <4>2
      <3> QED
        BY <3>2, <3>3
    <2>4. ASSUME m = l PROVE \E j \in OpenOf(G) : m = lines[j].level
      BY <1>1, <2>2, <2>4
    <2> HIDE DEF G
    <2> QED
      BY <2>1, <2>3, <2>4
  <1>12. ASSUME NEW j \in OpenOf(G) PROVE r[lines[j].level] = lines[j].title
    <2>1. CASE j = i
      BY <1>1, <1>9, <2>1
    <2>2. CASE j # i
      <3>1. j \in OpenOf(H) /\ lines[j].level < l
        BY <1>5, <2>2
      <3>2. lines[j].level \in 1..(l - 1)
        BY <1>2, <1>10, <3>1
      <3> QED
        BY <1>4, <1>9, <3>1, <3>2
    <2> QED
      BY <2>1, <2>2
  <1> QED
    BY <1>8, <1>9, <1>11, <1>12

\* The first headings of the chunks that begin before line n.
HeadingsTo(n) == {HeadingLine(e) : e \in {g \in Chunks : g[1] < n /\ HasHeading(g)}}

\* A section is that of chunk c.
SectionAt(section, c) ==
  Outline(c) =>
    IF Open(c) = {} THEN section = <<Default>>
    ELSE /\ DOMAIN section = {lines[i].level : i \in Open(c)}
         /\ \A i \in Open(c) : section[lines[i].level] = lines[i].title

\* The path is that of the headings read, and no heading was read since the
\* one that waits.
SectionInv ==
  /\ Nested(path, HeadingsTo(next))
  /\ pending # None => HeadingsTo(next) = Headings(pending)
  /\ \A j \in DOMAIN blocks : \A c \in Chunks :
       c[2] = blocks[j].last => SectionAt(blocks[j].section, c)

\* What is said of chunks depends on the document alone.
LEMMA SameDocument ==
  ASSUME lines' = lines
  PROVE  /\ Chunks' = Chunks
         /\ \A n : HeadingsTo(n)' = HeadingsTo(n)
         /\ \A c : Headings(c)' = Headings(c) /\ HeadingOf(c)' = HeadingOf(c)
         /\ \A p, H : Nested(p, H)' = Nested(p, H)
         /\ \A s, c : SectionAt(s, c)' = SectionAt(s, c)
  <1>1. Chunks' = Chunks
    BY DEF Chunks, Span, IsBlank
  <1>2. \A c : /\ HasHeading(c)' = HasHeading(c) /\ HeadingLine(c)' = HeadingLine(c)
               /\ HeadingOf(c)' = HeadingOf(c)
    BY DEF HasHeading, HeadingLine, HeadingOf, IsHeading, Span
  <1>3. \A n : HeadingsTo(n)' = HeadingsTo(n)
    BY <1>1, <1>2 DEF HeadingsTo
  <1>4. \A c : Headings(c)' = Headings(c)
    BY <1>1, <1>2 DEF Headings
  <1>5. \A p, H : Nested(p, H)' = Nested(p, H)
    BY DEF Nested, OpenOf, OutlineOf
  <1>6. \A c : Open(c)' = Open(c) /\ Outline(c)' = Outline(c)
    BY <1>4 DEF Open, Outline
  <1>7. \A s, c : SectionAt(s, c)' = SectionAt(s, c)
    BY <1>6 DEF SectionAt
  <1> QED
    BY <1>1, <1>2, <1>3, <1>4, <1>5, <1>7

\* The headings of a line: on the document, and of a level and a title.
LEMMA HeadingsRead ==
  ASSUME ImportInv, NEW j \in HeadingsTo(next)
  PROVE  j \in Nat /\ j < next /\ lines[j] \in Heading
  <1>1. PICK e \in Chunks : e[1] < next /\ HasHeading(e) /\ j = HeadingLine(e)
    BY DEF HeadingsTo
  <1>2. e[2] < next
    BY <1>1 DEF ImportInv, Covered
  <1>3. e[1] \in Nat /\ e[2] \in Nat /\ next \in Nat /\ lines \in Seq(Line)
    BY ChunkRange DEF ImportInv, Typed
  <1>4. HeadingOf(e) \in Heading /\ j \in Span(e) /\ HeadingOf(e) = lines[j]
    BY <1>1, <1>3, HeadingFound DEF HeadingOf
  <1> QED
    BY <1>2, <1>3, <1>4 DEF Span

\* The path after the chunk that is read is that of its headings.
LEMMA PathKept ==
  ASSUME ImportInv, SectionInv, HasChunk, Advance
  PROVE  /\ Headings(Chunk) = HeadingsTo(next')
         /\ Nested(PathAfter(Chunk), HeadingsTo(next'))
         /\ ~HasHeading(Chunk) => HeadingsTo(next') = HeadingsTo(next)
  <1>1. PICK c : c = Chunk
    OBVIOUS
  <1>2. PICK end : end = next'
    OBVIOUS
  <1>3. /\ c \in Chunks /\ next <= c[1] /\ c[1] <= c[2] /\ c[1] \in Nat /\ c[2] \in Nat
        /\ next \in Nat /\ end = c[2] + 1 /\ lines \in Seq(Line) /\ path \in Seq(Titles)
        /\ \A g \in Chunks : g[1] < end => g[1] < next \/ g = c
    BY <1>1, <1>2, ChunkRead DEF ImportInv, Typed
  <1>4. ASSUME NEW g \in Chunks
        PROVE  /\ g[1] < end <=> g[1] < next \/ g = c
               /\ g[1] < end <=> g[1] <= c[1]
    <2>1. g[1] \in Nat
      BY <1>3, ChunkRange
    <2> QED
      BY <1>3, <2>1
  <1>5. Headings(c) = HeadingsTo(end)
    BY <1>4 DEF Headings, HeadingsTo
  <1>6. HeadingsTo(end) = HeadingsTo(next) \cup (IF HasHeading(c) THEN {HeadingLine(c)} ELSE {})
    BY <1>3, <1>4 DEF HeadingsTo
  <1>7. Nested(path, HeadingsTo(next))
    BY DEF SectionInv
  <1>8. CASE HasHeading(c)
    <2>1. PICK i : i = HeadingLine(c)
      OBVIOUS
    <2>2. HeadingOf(c) \in Heading /\ HeadingOf(c) = lines[i] /\ i \in Span(c)
      BY <1>3, <1>8, <2>1, HeadingFound DEF HeadingOf
    <2>3. i \in Nat /\ next <= i
      BY <1>3, <2>2 DEF Span
    <2>4. PICK H : H = HeadingsTo(next)
      OBVIOUS
    <2>5. \A j \in H : j \in Nat /\ j < i /\ lines[j] \in Heading
      <3> SUFFICES ASSUME NEW j \in H PROVE j \in Nat /\ j < i /\ lines[j] \in Heading
        OBVIOUS
      <3>1. j \in Nat /\ j < next /\ lines[j] \in Heading
        BY <2>4, HeadingsRead
      <3> QED
        BY <1>3, <2>3, <3>1
    <2>6. Nested(Opened(path, lines[i]), H \cup {i})
      BY <1>3, <1>7, <2>2, <2>3, <2>4, <2>5, HeadingAdded
    <2>7. PathAfter(c) = Opened(path, lines[i])
      BY <1>8, <2>2 DEF PathAfter
    <2> QED
      BY <1>1, <1>2, <1>5, <1>6, <1>8, <2>1, <2>4, <2>6, <2>7
  <1>9. CASE ~HasHeading(c)
    <2>1. PathAfter(c) = path
      BY <1>9 DEF PathAfter
    <2>2. HeadingsTo(end) = HeadingsTo(next)
      BY <1>6, <1>9
    <2> QED
      BY <1>1, <1>2, <1>5, <1>7, <2>1, <2>2
  <1> QED
    BY <1>8, <1>9

\* The section of a path is that of the chunk it belongs to.
LEMMA SectionOfPath ==
  ASSUME NEW p \in Seq(Titles), NEW c \in Chunks, Nested(p, Headings(c))
  PROVE  SectionAt(SectionOf(p), c)
  <1> SUFFICES ASSUME Outline(c)
               PROVE  IF Open(c) = {} THEN SectionOf(p) = <<Default>>
                      ELSE /\ DOMAIN SectionOf(p) = {lines[i].level : i \in Open(c)}
                           /\ \A i \in Open(c) : SectionOf(p)[lines[i].level] = lines[i].title
    BY DEF SectionAt
  <1>1. OutlineOf(Headings(c)) /\ OpenOf(Headings(c)) = Open(c)
    BY DEF Outline, OutlineOf, Open, OpenOf
  <1>2. /\ DOMAIN p = {lines[i].level : i \in Open(c)}
        /\ \A i \in Open(c) : p[lines[i].level] = lines[i].title
    BY <1>1 DEF Nested
  <1>3. DOMAIN p = 1..Len(p) /\ Len(p) \in Nat /\ (p = <<>> <=> Len(p) = 0)
    BY LenProperties, EmptySeq
  <1>4. CASE Open(c) = {}
    <2>1. DOMAIN p = {}
      BY <1>2, <1>4
    <2>2. p = <<>>
      BY <1>3, <2>1
    <2> QED
      BY <1>4, <2>2 DEF SectionOf
  <1>5. CASE Open(c) # {}
    <2>1. p # <<>>
      <3>1. PICK i : i \in Open(c)
        BY <1>5
      <3>2. lines[i].level \in DOMAIN p
        BY <1>2, <3>1
      <3> QED
        BY <1>3, <3>2
    <2>2. SectionOf(p) = p
      BY <2>1 DEF SectionOf
    <2> QED
      BY <1>2, <1>5, <2>2
  <1> QED
    BY <1>4, <1>5

\* A chunk is determined by where it ends.
LEMMA ChunkByEnd ==
  ASSUME lines \in Seq(Line), NEW c \in Chunks, NEW d \in Chunks, c[2] = d[2]
  PROVE  c = d
  <1>1. /\ c \in Nat \X Nat /\ d \in Nat \X Nat /\ c[1] \in Nat /\ d[1] \in Nat
        /\ c[1] <= c[2] /\ d[1] <= d[2] /\ c[2] \in Nat
    BY ChunkRange
  <1>2. ~(c[1] < d[1])
    <2>1. c[1] < d[1] => c[2] < d[1]
      BY ChunksApart
    <2> QED
      BY <1>1, <2>1
  <1>3. ~(d[1] < c[1])
    <2>1. d[1] < c[1] => d[2] < c[1]
      BY ChunksApart
    <2> QED
      BY <1>1, <2>1
  <1>4. c[1] = d[1]
    BY <1>1, <1>2, <1>3
  <1> QED
    BY <1>1, <1>4

\* A block added with the section of its last chunk.
LEMMA SectionAdded ==
  ASSUME Typed, SectionInv, lines' = lines, NEW c \in Chunks, NEW b \in Block,
         b.last = c[2], SectionAt(b.section, c), blocks' = Append(blocks, b)
  PROVE  \A j \in DOMAIN blocks' : \A d \in Chunks :
           d[2] = blocks'[j].last => SectionAt(blocks'[j].section, d)
  <1>1. blocks \in Seq(Block) /\ lines \in Seq(Line)
    BY DEF Typed
  <1>2. /\ blocks' \in Seq(Block) /\ Len(blocks') = Len(blocks) + 1
        /\ \A i \in 1..Len(blocks) : blocks'[i] = blocks[i]
        /\ blocks'[Len(blocks) + 1] = b
    BY <1>1, AppendProperties
  <1>3. /\ Len(blocks) \in Nat /\ DOMAIN blocks = 1..Len(blocks)
        /\ DOMAIN blocks' = 1..(Len(blocks) + 1)
    BY <1>1, <1>2, LenProperties
  <1> SUFFICES ASSUME NEW j \in DOMAIN blocks', NEW d \in Chunks, d[2] = blocks'[j].last
               PROVE  SectionAt(blocks'[j].section, d)
    OBVIOUS
  <1>4. CASE j \in DOMAIN blocks
    <2>1. blocks'[j] = blocks[j]
      BY <1>2, <1>3, <1>4
    <2> QED
      BY <1>4, <2>1 DEF SectionInv
  <1>5. CASE j \notin DOMAIN blocks
    <2>1. j = Len(blocks) + 1
      BY <1>3, <1>5
    <2>2. blocks'[j] = b
      BY <1>2, <2>1
    <2>3. d = c
      BY <1>1, <2>2, ChunkByEnd
    <2> QED
      BY <2>2, <2>3
  <1> QED
    BY <1>4, <1>5

\* Putting together what a step leaves of the sections.
LEMMA SectionsKept ==
  ASSUME lines' = lines, NEW end, end = next', NEW p, p = path', Nested(p, HeadingsTo(end)),
         NEW waits, waits = pending', waits # None => HeadingsTo(end) = Headings(waits),
         \A j \in DOMAIN blocks' : \A c \in Chunks :
           c[2] = blocks'[j].last => SectionAt(blocks'[j].section, c)
  PROVE  SectionInv'
  <1>1. /\ Chunks' = Chunks
        /\ \A n : HeadingsTo(n)' = HeadingsTo(n)
        /\ \A c : Headings(c)' = Headings(c)
        /\ \A q, H : Nested(q, H)' = Nested(q, H)
        /\ \A s, c : SectionAt(s, c)' = SectionAt(s, c)
    BY SameDocument
  <1>2. Nested(path, HeadingsTo(next))'
    BY <1>1
  <1>3. (pending # None => HeadingsTo(next) = Headings(pending))'
    BY <1>1
  <1>4. (\A j \in DOMAIN blocks : \A c \in Chunks :
           c[2] = blocks[j].last => SectionAt(blocks[j].section, c))'
    BY <1>1
  <1> QED
    BY <1>2, <1>3, <1>4 DEF SectionInv

LEMMA SectionInit == Init => SectionInv
  <1> SUFFICES ASSUME Init PROVE SectionInv
    OBVIOUS
  <1>1. ImportInv /\ lines \in Seq(Line) /\ next = 1 /\ path = <<>> /\ pending = None /\ blocks = <<>>
    BY ImportInit DEF Init, ImportInv, Typed
  <1>2. \A c \in Chunks : ~(c[1] < 1)
    BY <1>1, ChunkRange
  <1>3. HeadingsTo(1) = {}
    BY <1>2 DEF HeadingsTo
  <1>4. PICK none : none = HeadingsTo(1)
    OBVIOUS
  <1>5. DOMAIN path = {} /\ OpenOf(none) = {} /\ DOMAIN blocks = {}
    BY <1>1, <1>3, <1>4 DEF OpenOf
  <1>6. Nested(path, none)
    BY <1>5 DEF Nested
  <1> QED
    BY <1>1, <1>4, <1>5, <1>6 DEF SectionInv

LEMMA SectionStep ==
  ASSUME ImportInv, SectionInv, [Next]_vars
  PROVE  SectionInv'
  <1> DEFINE Sections == \A j \in DOMAIN blocks : \A c \in Chunks :
                           c[2] = blocks[j].last => SectionAt(blocks[j].section, c)
  <1>1. /\ Nested(path, HeadingsTo(next)) /\ Sections
        /\ pending # None => HeadingsTo(next) = Headings(pending)
    BY DEF SectionInv
  <1>2. Typed /\ lines \in Seq(Line) /\ path \in Seq(Titles) /\ pending \in Chunks \cup {None}
    BY DEF ImportInv, Typed
  <1>3. PICK end, p, waits : end = next' /\ p = path' /\ waits = pending'
    OBVIOUS
  <1>4. CASE UNCHANGED vars
    <2>1. /\ lines' = lines /\ end = next /\ p = path /\ waits = pending /\ blocks' = blocks
      BY <1>3, <1>4 DEF vars
    <2> QED
      BY <1>1, <1>3, <2>1, SectionsKept
  <1>5. CASE SkipComment
    <2>1. /\ HasChunk /\ Advance /\ IsComment(Chunk)
          /\ p = path /\ waits = pending /\ blocks' = blocks
      BY <1>3, <1>5 DEF SkipComment
    <2>2. ~HasHeading(Chunk)
      BY <2>1 DEF IsComment, HasHeading, IsHeading
    <2>3. PathAfter(Chunk) = path
      BY <2>2 DEF PathAfter
    <2>4. Nested(path, HeadingsTo(end)) /\ HeadingsTo(end) = HeadingsTo(next)
      BY <1>3, <2>1, <2>2, <2>3, PathKept
    <2>5. lines' = lines
      BY <2>1 DEF Advance
    <2> QED
      BY <1>1, <1>3, <2>1, <2>4, <2>5, SectionsKept
  <1>6. CASE TakeHeading
    <2>1. /\ HasChunk /\ Advance /\ p = PathAfter(Chunk) /\ waits = Chunk /\ blocks' = blocks
      BY <1>3, <1>6 DEF TakeHeading
    <2>2. Nested(p, HeadingsTo(end)) /\ HeadingsTo(end) = Headings(waits)
      BY <1>3, <2>1, PathKept
    <2>3. lines' = lines
      BY <2>1 DEF Advance
    <2> QED
      BY <1>1, <1>3, <2>1, <2>2, <2>3, SectionsKept
  <1>7. CASE Emit
    <2>1. /\ HasChunk /\ Advance /\ p = PathAfter(Chunk) /\ waits = None
          /\ blocks' = Append(blocks, IF pending = None THEN BlockOf(Chunk, p)
                                      ELSE Merged(pending, Chunk, p))
      BY <1>3, <1>7 DEF Emit
    <2>2. Nested(p, HeadingsTo(end)) /\ HeadingsTo(end) = Headings(Chunk)
      BY <1>3, <2>1, PathKept
    <2>3. lines' = lines
      BY <2>1 DEF Advance
    <2>4. PICK c : c = Chunk
      OBVIOUS
    <2>5. c \in Chunks /\ next <= c[1] /\ c[1] \in Nat /\ next \in Nat
      BY <2>1, <2>4, ChunkRead DEF ImportInv, Typed
    <2>6. p \in Seq(Titles)
      BY <1>2, <2>1, <2>4, <2>5, PathTyped
    <2>7. SectionAt(SectionOf(p), c)
      BY <2>2, <2>4, <2>5, <2>6, SectionOfPath
    <2>8. PICK b : b = IF pending = None THEN BlockOf(c, p) ELSE Merged(pending, c, p)
      OBVIOUS
    <2>9. b \in Block /\ b.last = c[2] /\ b.section = SectionOf(p)
      <3>1. CASE pending = None
        <4>1. b = BlockOf(c, p)
          BY <2>8, <3>1
        <4> QED
          BY <1>2, <2>5, <2>6, <4>1, BlockFields DEF BlockOf
      <3>2. CASE pending # None
        <4>1. PICK h : h = pending
          OBVIOUS
        <4>2. h \in Chunks /\ h[2] < next
          BY <1>2, <3>2, <4>1 DEF ImportInv, Ranges
        <4>3. h[2] < c[1]
          BY <1>2, <2>5, <4>2, ChunkRange
        <4>4. b = Merged(h, c, p)
          BY <2>8, <3>2, <4>1
        <4> QED
          BY <1>2, <2>5, <2>6, <4>2, <4>3, <4>4, MergedFields DEF Merged
      <3> QED
        BY <3>1, <3>2
    <2>10. blocks' = Append(blocks, b)
      BY <2>1, <2>4, <2>8
    <2>11. \A j \in DOMAIN blocks' : \A d \in Chunks :
             d[2] = blocks'[j].last => SectionAt(blocks'[j].section, d)
      BY <1>2, <2>3, <2>5, <2>7, <2>9, <2>10, SectionAdded
    <2> QED
      BY <1>3, <2>1, <2>2, <2>3, <2>11, SectionsKept
  <1>8. CASE Finish
    <2>1. /\ waits = None /\ end = next /\ p = path /\ lines' = lines
          /\ blocks' = IF pending = None THEN blocks ELSE Append(blocks, BlockOf(pending, path))
      BY <1>3, <1>8 DEF Finish
    <2>2. CASE pending = None
      BY <1>1, <1>3, <2>1, <2>2, SectionsKept
    <2>3. CASE pending # None
      <3>1. PICK h, q : h = pending /\ q = path
        OBVIOUS
      <3>2. h \in Chunks /\ q \in Seq(Titles) /\ Nested(q, Headings(h))
        BY <1>1, <1>2, <2>3, <3>1
      <3>3. SectionAt(SectionOf(q), h)
        BY <3>2, SectionOfPath
      <3>4. PICK b : b = BlockOf(h, q)
        OBVIOUS
      <3>5. b \in Block /\ b.last = h[2] /\ b.section = SectionOf(q)
        BY <1>2, <3>2, <3>4, BlockFields DEF BlockOf
      <3>6. blocks' = Append(blocks, b)
        BY <2>1, <2>3, <3>1, <3>4
      <3>7. \A j \in DOMAIN blocks' : \A d \in Chunks :
              d[2] = blocks'[j].last => SectionAt(blocks'[j].section, d)
        BY <1>2, <2>1, <3>2, <3>3, <3>5, <3>6, SectionAdded
      <3> QED
        BY <1>1, <1>3, <2>1, <3>7, SectionsKept
    <2> QED
      BY <2>2, <2>3
  <1> QED
    BY <1>4, <1>5, <1>6, <1>7, <1>8 DEF Next, Read

(* In every document, a block whose headings so far are a proper outline has
   for its section the headings open at its text, each at its level. *)
THEOREM SectionsOutlined == Spec => []SectionsNested
  <1>1. Init => SectionInv
    BY SectionInit
  <1>2. ImportInv /\ SectionInv /\ [Next]_vars => SectionInv'
    BY SectionStep
  <1>3. ASSUME SectionInv PROVE SectionsNested
    <2> SUFFICES ASSUME NEW b \in Range(blocks), NEW c \in Chunks, c[2] = b.last, Outline(c)
                 PROVE  IF Open(c) = {} THEN b.section = <<Default>>
                        ELSE /\ DOMAIN b.section = {lines[i].level : i \in Open(c)}
                             /\ \A i \in Open(c) : b.section[lines[i].level] = lines[i].title
      BY DEF SectionsNested
    <2>1. PICK j \in DOMAIN blocks : b = blocks[j]
      BY DEF Range
    <2>2. SectionAt(b.section, c)
      BY <1>3, <2>1 DEF SectionInv
    <2> QED
      BY <2>2 DEF SectionAt
  <1> QED
    BY <1>1, <1>2, <1>3, ImportInvariant, PTL DEF Spec

=============================================================================
