----------------------------- MODULE MCReverseSync -----------------------------
(* ReverseSync on three rules, one of them a spec document, and files of up to
   three entries. *)
EXTENDS ReverseSync, TLC

CONSTANTS i1, i2, i3, b1, b2

E(i, b) == [id |-> i, body |-> b]

\* One and two entries in any combination, and three that name a rule twice.
SmallFiles ==
  { <<E(i, b)>> : i \in Ids, b \in Bodies }
  \cup { <<E(i, b), E(j, c)>> : i, j \in Ids \ SpecDocs, b, c \in Bodies }
  \cup { <<E(i1, b), E(i2, c), E(i1, b2)>> : b, c \in Bodies }
================================================================================
