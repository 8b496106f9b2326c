----------------------------- MODULE MCRuleStore -----------------------------
(* RuleStore on small instances: two or three rules, two slugs. *)
EXTENDS RuleStore, TLC

MCPatch(s, t, b) == [slug |-> s, state |-> t, body |-> b]

\* Requests that rename or change the state, never both at once; one of them
\* also carries a new body, the way import-file patches do.
SeparatePatches ==
  { MCPatch(s, Keep, Keep) : s \in Slugs }
  \cup { MCPatch(Keep, t, Keep) : t \in {"draft", "reviewed", "adopted"} }
  \cup { MCPatch(s, Keep, b) : s \in Slugs, b \in Bodies }

\* Also requests that rename and change the state in one call.
CombinedPatches ==
  SeparatePatches \cup { MCPatch(s, "adopted", Keep) : s \in Slugs }

\* One rename and one state change, enough for two processes to collide.
SharedPatches == { MCPatch(s, Keep, Keep) : s \in Slugs } \cup { MCPatch(Keep, "reviewed", Keep) }

RuleEntriesOnly == {RuleEntry}

Interchangeable == Permutations(Ids) \cup Permutations(Bodies)
=============================================================================
