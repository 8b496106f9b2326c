------------------------------ MODULE MCOutputs ------------------------------
(* Outputs on small instances: three rules in the main root, one in a nested *)
(* root, one in a root somebody registers, and targets with nested nodes.     *)
EXTENDS Outputs

CONSTANTS r1, r2, r3, r4, r5, main, nested, other, agents, sec, lib, own, p, b1, b2, b3, outA, outB

Slugs == [i \in Ids |-> CASE i = r1 -> 2 [] i = r2 -> 1 [] i = r3 -> 3 [] i = r4 -> 4 [] OTHER -> 5]
Places == [i \in Ids |-> CASE i = r2 -> nested [] i = r3 -> other [] OTHER -> main]
\* Two of the three bodies begin alike.
Summaries == [b \in {b1, b2, b3} |-> IF b = b2 THEN "second" ELSE "first"]
Groups == [i \in Ids |-> IF i = r3 THEN "other" ELSE "shared"]

Plain == [state |-> "draft", kind |-> agents, section |-> sec, repos |-> {lib},
          paths |-> {}, order |-> 1, body |-> b1,
          helpful |-> 0, mixed |-> 0, unhelpful |-> 0, open |-> 0]
Rated == [Plain EXCEPT !.state = "reviewed", !.body = b2, !.unhelpful = 1,
                       !.open = 1, !.paths = {p}]
Moved == [Plain EXCEPT !.section = Unset, !.repos = {own}, !.paths = {p}, !.order = 0,
                       !.body = b3]
Contents == {Plain, Rated, Moved}

Disk(a, b, c) == [i \in Ids |-> CASE i = r2 -> b [] i = r3 -> c [] OTHER -> a]
OneStart == {Disk(Plain, Moved, Rated)}
TwoRankings == {<<r1, r2, r3, r4, r5>>, <<r5, r4, r3, r2, r1>>}

Nothing == [k \in TargetFields |-> Unset]
ForLib == [Nothing EXCEPT !.repo = lib, !.kind = agents]

Node(parent, filter) == [parent |-> parent, filter |-> filter]
Asking(field, v) == [Nothing EXCEPT ![field] = v]
\* A flat target; one with nodes below nodes, each asking for a state; and
\* one whose two nodes may want the same rule.
Flat == [name |-> "flat", output |-> outA, filter |-> ForLib, nodes |-> <<>>]
Tree == [name |-> "tree", output |-> outB,
         filter |-> [ForLib EXCEPT !.state = "draft"],
         nodes |-> <<Node(0, Asking("section", sec)),
                     Node(1, [Asking("path", p) EXCEPT !.state = "reviewed"]),
                     Node(0, [Asking("path", p) EXCEPT !.repo = own])>>]
Both == [name |-> "both", output |-> outB, filter |-> ForLib,
         nodes |-> <<Node(0, Asking("path", p)),
                     Node(0, Asking("state", "reviewed"))>>]
AllTargets == {Flat, Tree, Both}
AllRequests == {[Flat EXCEPT !.name = "file", !.filter.path = p]}

Everything == ToRuleFilter(Nothing)
AllFilters == {Everything, [Everything EXCEPT !.state = "reviewed"],
               [Everything EXCEPT !.path = p], [Everything EXCEPT !.slug = 1],
               [Everything EXCEPT !.low = TRUE, !.unresolved = TRUE]}
=============================================================================
