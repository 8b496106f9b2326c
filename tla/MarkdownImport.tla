---------------------------- MODULE MarkdownImport ----------------------------
(***************************************************************************)
(* import_markdown_blocks: splits a markdown document into the blocks that *)
(* import-file turns into rules.  Chunks are the maximal runs of lines that *)
(* are not blank; a chunk of headings waits for the text it is a heading   *)
(* of; the open headings make the section, and section and first line make *)
(* the slug of a block.                                                    *)
(*                                                                         *)
(* A line is what the functions of import.rs tell of it: blank, a comment  *)
(* of a generated file, a heading with its level and title, or text.       *)
(***************************************************************************)
EXTENDS Naturals, FiniteSets, Sequences, SequencesExt

CONSTANTS
  Titles,       \* normalized heading titles
  Default,      \* the section of text before the first heading
  None,         \* no chunk
  Documents     \* the documents that are imported

Blank   == [kind |-> "blank"]
Comment == [kind |-> "comment"]
Text    == [kind |-> "text"]
Level   == 1..6
Heading == [kind : {"heading"}, level : Level, title : Titles]
Line    == {Blank, Comment, Text} \cup Heading

ASSUME DocumentAssumption ==
  /\ Documents \subseteq Seq(Line)
  /\ Default \notin Titles /\ None \notin Nat \X Nat

VARIABLES
  lines,     \* the document: never changes
  next,      \* the first line that is not read yet
  path,      \* heading_path: titles of the open headings
  pending,   \* pending_heading: a chunk <<first, last>>, or None
  blocks,    \* the blocks so far
  done       \* the document is read

vars == <<lines, next, path, pending, blocks, done>>

-----------------------------------------------------------------------------
Section == Seq(Titles \cup {Default})
Block == [section : Section, first : Nat, last : Nat, body : SUBSET Nat]

IsBlank(i) == lines[i].kind = "blank"
IsHeading(i) == lines[i].kind = "heading"

\* The lines of a chunk.
Span(c) == c[1]..c[2]

\* markdown_chunks: the chunks of the document.
Chunks ==
  { c \in (DOMAIN lines) \X (DOMAIN lines) :
      /\ c[1] <= c[2]
      /\ \A i \in Span(c) : ~IsBlank(i)
      /\ c[1] > 1 => IsBlank(c[1] - 1)
      /\ c[2] < Len(lines) => IsBlank(c[2] + 1) }

Unread == {c \in Chunks : c[1] >= next}

\* The chunk the loop takes up.
Chunk == CHOOSE c \in Unread : \A e \in Unread : c[1] <= e[1]

\* is_generated_comment_chunk
IsComment(c) == \A i \in Span(c) : lines[i].kind = "comment"

HasHeading(c) == \E i \in Span(c) : IsHeading(i)

\* extract_heading_info: the first heading of the chunk counts.
HeadingLine(c) ==
  CHOOSE i \in Span(c) : IsHeading(i) /\ \A j \in Span(c) : IsHeading(j) => i <= j

HeadingOf(c) == lines[HeadingLine(c)]

IsHeadingOnly(c) == \A i \in Span(c) : IsHeading(i)

\* Mutant: the heading of the same level stays open.
KeepingSibling(open, heading) ==
  Append(SubSeq(open, 1, IF heading.level < Len(open) THEN heading.level ELSE Len(open)),
         heading.title)

\* update_heading_path: truncate does nothing to a shorter path.
Opened(open, heading) ==
  Append(SubSeq(open, 1, IF heading.level - 1 < Len(open)
                         THEN heading.level - 1 ELSE Len(open)),
         heading.title)

PathAfter(c) == IF HasHeading(c) THEN Opened(path, HeadingOf(c)) ELSE path

SectionOf(open) == IF open = <<>> THEN <<Default>> ELSE open

\* A block of one chunk, or of a pending heading and the chunk it waited for.
BlockOf(c, open) ==
  [section |-> SectionOf(open), first |-> c[1], last |-> c[2], body |-> Span(c)]

\* Mutant: the source location is that of the text.
MergedAtText(heading, c, open) ==
  [section |-> SectionOf(open), first |-> c[1], last |-> c[2],
   body |-> Span(heading) \cup Span(c)]

Merged(heading, c, open) ==
  [section |-> SectionOf(open), first |-> heading[1], last |-> c[2],
   body |-> Span(heading) \cup Span(c)]

-----------------------------------------------------------------------------
Init ==
  /\ lines \in Documents
  /\ next = 1
  /\ path = <<>>
  /\ pending = None
  /\ blocks = <<>>
  /\ done = FALSE

HasChunk == ~done /\ Unread # {}

Advance == next' = Chunk[2] + 1 /\ UNCHANGED <<lines, done>>

SkipComment ==
  /\ HasChunk /\ IsComment(Chunk)
  /\ Advance
  /\ UNCHANGED <<path, pending, blocks>>

\* A chunk of headings replaces the pending one.
TakeHeading ==
  /\ HasChunk /\ ~IsComment(Chunk) /\ IsHeadingOnly(Chunk)
  /\ path' = PathAfter(Chunk)
  /\ pending' = Chunk
  /\ Advance
  /\ UNCHANGED blocks

\* Mutant: the pending heading is not taken, so it heads every later block.
EmitKeepingHeading ==
  /\ HasChunk /\ ~IsComment(Chunk) /\ ~IsHeadingOnly(Chunk)
  /\ path' = PathAfter(Chunk)
  /\ blocks' = Append(blocks, IF pending = None THEN BlockOf(Chunk, path')
                              ELSE Merged(pending, Chunk, path'))
  /\ Advance
  /\ UNCHANGED pending

Emit ==
  /\ HasChunk /\ ~IsComment(Chunk) /\ ~IsHeadingOnly(Chunk)
  /\ path' = PathAfter(Chunk)
  /\ blocks' = Append(blocks, IF pending = None THEN BlockOf(Chunk, path')
                              ELSE Merged(pending, Chunk, path'))
  /\ pending' = None
  /\ Advance

\* The end of the document: a heading without text is a block of its own.
Finish ==
  /\ ~done /\ Unread = {}
  /\ done' = TRUE
  /\ blocks' = IF pending = None THEN blocks
               ELSE Append(blocks, BlockOf(pending, path))
  /\ pending' = None
  /\ UNCHANGED <<lines, next, path>>

Read == SkipComment \/ TakeHeading \/ Emit \/ Finish

Next == Read \/ (done /\ UNCHANGED vars)

Spec == Init /\ [][Next]_vars

-----------------------------------------------------------------------------
(* Blocks come in the order of the document and claim disjoint ranges of it,
   so no two of them have one slug: a slug ends in the block's first line, and
   importing a file never makes one of its blocks overwrite another. *)
BlocksApart ==
  \A i, j \in DOMAIN blocks : i < j => blocks[i].last < blocks[j].first

In(i) == {j \in DOMAIN blocks : i \in blocks[j].body}

(* Text is never lost or doubled: every line of a chunk that is not made of
   headings or comments alone ends up in a block, no line ends up in two, and
   the block names the line's place in the source.  Headings may be lost: one
   that is followed by another before any text leaves only its slug. *)
TextKept ==
  /\ \A i \in DOMAIN lines : Cardinality(In(i)) <= 1
  /\ \A i \in DOMAIN lines : \A j \in In(i) :
       i \in blocks[j].first..blocks[j].last
  /\ done => \A c \in Chunks :
       ~IsComment(c) /\ ~IsHeadingOnly(c) => \A i \in Span(c) : In(i) # {}

\* The first headings of the chunks up to c, by line.
Headings(c) ==
  {HeadingLine(e) : e \in {g \in Chunks : g[1] <= c[1] /\ HasHeading(g)}}

\* A heading is open at c until one of its level or above follows.
Open(c) ==
  {i \in Headings(c) : \A j \in Headings(c) : j > i => lines[j].level > lines[i].level}

\* No level is skipped on the way down: the document is a proper outline.
Outline(c) ==
  \A i \in Headings(c) :
    \/ lines[i].level = 1
    \/ \E j \in Headings(c) :
         /\ j < i /\ lines[j].level = lines[i].level - 1
         /\ \A k \in Headings(c) : j < k /\ k < i => lines[k].level > lines[j].level

(* In a document that is a proper outline, the section of a block is the list
   of the headings that are open at its text, each in the place of its level
   and no place left out, whatever came before them. *)
SectionsNested ==
  \A b \in Range(blocks) : \A c \in Chunks :
    c[2] = b.last /\ Outline(c) =>
      IF Open(c) = {} THEN b.section = <<Default>>
      ELSE /\ DOMAIN b.section = {lines[i].level : i \in Open(c)}
           /\ \A i \in Open(c) : b.section[lines[i].level] = lines[i].title

=============================================================================
