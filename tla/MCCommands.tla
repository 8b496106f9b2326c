------------------------------ MODULE MCCommands ------------------------------
(* Commands on a small library: documents of one and two blocks, requests that
   write text, move the state, rename, and do not parse. *)
EXTENDS Commands, TLC

CONSTANTS s1, s2

MCBlock(s, b) == [slug |-> s, body |-> b]

MCDocuments ==
  { <<MCBlock(s1, b)>> : b \in Bodies }
  \cup { <<MCBlock(s1, b), MCBlock(s2, c)>> : b, c \in Bodies }

MCRequest(s, t, b, bad) ==
  [patch |-> [slug |-> s, state |-> t, body |-> b], malformed |-> bad]

MCRequests ==
  { MCRequest(Keep, "reviewed", b, FALSE) : b \in Bodies }
  \cup { MCRequest(s2, Keep, Keep, FALSE) }
  \cup { MCRequest(Keep, Keep, b, TRUE) : b \in Bodies }

NoPatches == {}

RuleEntriesOnly == {RuleEntry}

Interchangeable == Permutations(Ids) \cup Permutations(Bodies)
=============================================================================
