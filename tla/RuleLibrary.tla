----------------------------- MODULE RuleLibrary -----------------------------
(***************************************************************************)
(* What a rule store is to the one who uses it: a map from ids to rules,   *)
(* in which no slug occurs twice, and on which every call works as one     *)
(* step.  A call is accepted only when the map allows it; it then takes    *)
(* effect once before it is answered, or it fails, has no effect, and      *)
(* something has gone wrong (failures).                                    *)
(*                                                                         *)
(* The promise is made while the store can be trusted.  It may lose that   *)
(* trust at any time, but never by changing a rule without a failure, and  *)
(* gains it again with the rules there are, if their slugs differ.         *)
(***************************************************************************)
EXTENDS Naturals

CONSTANTS
  Ids,          \* what rules are found by
  Rules,        \* rules: records of a type, a slug, a state and a body
  None,         \* no rule; no call
  Keep,         \* a field a request leaves alone
  Transitions,  \* pairs of states update may lead from and to
  Requests      \* the calls: records of a name, an id, a rule and a patch

VARIABLES
  rules,        \* [Ids -> Rules \cup {None}]
  request,      \* the call in progress, or None
  phase,        \* "idle", "asked", or "done": it has taken effect
  trusted,      \* whether the promise is made
  failures      \* how often something has gone wrong

vars == <<rules, request, phase, trusted, failures>>

SlugFree(slug, i) == \A j \in Ids \ {i} : rules[j] # None => rules[j].slug # slug

Distinct == \A i \in Ids : rules[i] # None => SlugFree(rules[i].slug, i)

Init ==
  /\ rules = [i \in Ids |-> None]
  /\ request = None /\ phase = "idle"
  /\ trusted = TRUE /\ failures = 0

Creates(r) ==
  /\ r.name \in {"create", "upsert_new"}
  /\ rules[r.id] = None
  /\ SlugFree(r.rule.slug, r.id)
  /\ r.rule.type = (IF r.name = "create" THEN "rule-entry" ELSE "generated-target")
  /\ r.rule.state = (IF r.name = "create" THEN "draft" ELSE "active")

Updates(r) ==
  /\ r.name = "update"
  /\ rules[r.id] # None /\ rules[r.id].type = "rule-entry"
  /\ r.patch.slug # Keep => SlugFree(r.patch.slug, r.id)
  /\ r.patch.state # Keep => <<rules[r.id].state, r.patch.state>> \in Transitions

Rewrites(r) ==
  /\ rules[r.id] # None
  /\ \/ r.name = "update_body" /\ rules[r.id].type = "rule-entry"
     \/ /\ r.name = "upsert_existing" /\ rules[r.id].type = "generated-target"
        /\ rules[r.id].state = "active"

Deletes(r) == r.name = "delete" /\ rules[r.id] # None

Allowed(r) == Creates(r) \/ Updates(r) \/ Rewrites(r) \/ Deletes(r)

\* What the call makes of its rule.
Outcome(r) ==
  CASE r.name \in {"create", "upsert_new"} -> r.rule
    [] r.name = "delete" -> None
    [] OTHER ->
         [rules[r.id] EXCEPT !.slug  = IF r.patch.slug  = Keep THEN @ ELSE r.patch.slug,
                             !.state = IF r.patch.state = Keep THEN @ ELSE r.patch.state,
                             !.body  = IF r.patch.body  = Keep THEN @ ELSE r.patch.body]

Accept ==
  /\ trusted /\ phase = "idle"
  /\ request' \in Requests /\ Allowed(request')
  /\ phase' = "asked"
  /\ UNCHANGED <<rules, trusted, failures>>

Perform ==
  /\ trusted /\ phase = "asked"
  /\ rules' = [rules EXCEPT ![request.id] = Outcome(request)]
  /\ phase' = "done"
  /\ UNCHANGED <<request, trusted, failures>>

Answer ==
  /\ trusted /\ phase = "done"
  /\ request' = None /\ phase' = "idle"
  /\ UNCHANGED <<rules, trusted, failures>>

\* Nothing of the call has happened.
Fail ==
  /\ trusted /\ phase # "done"
  /\ request' = None /\ phase' = "idle" /\ failures' = failures + 1
  /\ UNCHANGED <<rules, trusted>>

\* Anything may have happened to the rules, but not without a failure.
Distrust ==
  /\ trusted' = FALSE
  /\ rules' \in [Ids -> Rules \cup {None}]
  /\ failures' \in {failures, failures + 1}
  /\ trusted /\ failures' = failures => rules' = rules
  /\ request' \in Requests \cup {None} /\ phase' \in {"idle", "asked", "done"}

Restore ==
  /\ ~trusted /\ trusted' = TRUE
  /\ Distinct
  /\ request' = None /\ phase' = "idle"
  /\ UNCHANGED <<rules, failures>>

Next == Accept \/ Perform \/ Answer \/ Fail \/ Distrust \/ Restore

Spec == Init /\ [][Next]_vars
=============================================================================
