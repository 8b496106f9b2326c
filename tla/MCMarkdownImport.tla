--------------------------- MODULE MCMarkdownImport ---------------------------
(* MarkdownImport on all documents of up to four lines, and on those of nine
   lines in which every second one is blank. *)
EXTENDS MarkdownImport, TLC

CONSTANTS u, v

Heads == {[kind |-> "heading", level |-> 1, title |-> u],
          [kind |-> "heading", level |-> 1, title |-> v],
          [kind |-> "heading", level |-> 2, title |-> u],
          [kind |-> "heading", level |-> 2, title |-> v],
          [kind |-> "heading", level |-> 3, title |-> v]}

SomeLines == {Blank, Comment, Text} \cup Heads

Dense == UNION {[1..n -> SomeLines] : n \in 0..4}

\* One line per chunk.
Spaced ==
  { [i \in 1..9 |-> IF i % 2 = 0 THEN Blank ELSE s[(i + 1) \div 2]] :
      s \in [1..5 -> SomeLines \ {Blank}] }

SmallDocuments == Dense \cup Spaced
===============================================================================
