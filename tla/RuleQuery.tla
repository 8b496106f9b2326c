------------------------------ MODULE RuleQuery ------------------------------
(***************************************************************************)
(* How the rules of a store are selected: the filters of list and search   *)
(* (crates/rule-api/src/store), the render targets whose nodes inherit     *)
(* filters from each other, and the rules a target collects.               *)
(*                                                                         *)
(* The manifests are on disk; the rows of the index carry a copy of the    *)
(* state, and list asks that copy while every other field is read from the *)
(* manifest.  Both are parameters here: Outputs supplies them.             *)
(***************************************************************************)
EXTENDS Naturals, FiniteSets, Sequences, SequencesExt

CONSTANTS
  Ids,       \* entity UUIDs
  SlugOf,    \* [Ids -> Nat]: the slugs, numbered in their order
  Absent,    \* no folder, no row, no file
  Unset      \* a field a filter leaves open

ASSUME SlugAssumption ==
  /\ IsFiniteSet(Ids)
  /\ SlugOf \in [Ids -> Nat]
  /\ \A i, j \in Ids : SlugOf[i] = SlugOf[j] => i = j

\* The counts record_feedback keeps in a manifest.
LowFeedback(m) == m.mixed > 0 \/ m.unhelpful > 0
Unresolved(m) == m.open > 0

MatchesField(wanted, actual) == wanted \in {Unset, actual}
MatchesScope(wanted, scopes) == wanted = Unset \/ wanted \in scopes

\* RuleFilter.matches: every field but the state.
Matches(f, i, m) ==
  /\ MatchesField(f.kind, m.kind)
  /\ MatchesField(f.section, m.section)
  /\ MatchesScope(f.repo, m.repos)
  /\ MatchesScope(f.path, m.paths)
  /\ MatchesField(f.slug, SlugOf[i])
  /\ MatchesField(f.low, LowFeedback(m))
  /\ MatchesField(f.unresolved, Unresolved(m))

\* A finite set in a strict order, which is given as a set of pairs: the k-th
\* element is the one that comes after k - 1 others.
InOrder(S, order) ==
  [k \in 1..Cardinality(S) |->
     CHOOSE x \in S : Cardinality({y \in S : <<y, x>> \in order}) = k - 1]

Ascending(S) == InOrder(S, {p \in S \X S : p[1] < p[2]})

\* SelectSeq: what a sequence has of a set.
Among(s, S) ==
  LET places == Ascending({n \in DOMAIN s : s[n] \in S})
  IN  [k \in DOMAIN places |-> s[places[k]]]

\* sort_by_key: order key, then slug.
Before(disk, i, j) ==
  \/ disk[i].order < disk[j].order
  \/ disk[i].order = disk[j].order /\ SlugOf[i] < SlugOf[j]

\* No two rules share a key, so the order SQLite lists the rows in is lost.
Sorted(disk, ids) ==
  InOrder(ids, {p \in ids \X ids : Before(disk, p[1], p[2])})

\* Mutant: the state is not asked for at all.
ListAnyState(disk, row, f) ==
  Sorted(disk, {i \in Ids : row[i] # Absent /\ Matches(f, i, disk[i])})

\* list: the state is asked of the row.
List(disk, row, f) ==
  Sorted(disk, {i \in Ids : /\ row[i] # Absent
                            /\ MatchesField(f.state, row[i])
                            /\ Matches(f, i, disk[i])})

FirstOf(s, n) == SubSeq(s, 1, IF n < Len(s) THEN n ELSE Len(s))

\* Mutant: no more candidates are fetched than results are wanted.
CandidatesOfLimit(ranked, limit) == FirstOf(ranked, limit)

Candidates(ranked, limit) == FirstOf(ranked, 4 * limit)

\* search: best candidates first, the state of the filter ignored.
Search(disk, row, ranked, f, limit) ==
  FirstOf(Among(Candidates(ranked, limit),
                {i \in Ids : row[i] # Absent /\ Matches(f, i, disk[i])}), limit)

-----------------------------------------------------------------------------
(***************************************************************************)
(* Render targets.  The node tree is a sequence in depth-first order, each *)
(* node with the index of its parent, 0 for the target itself.             *)
(***************************************************************************)
TargetFields == {"state", "kind", "section", "repo", "path"}

ToRuleFilter(f) ==
  [slug |-> Unset, low |-> Unset, unresolved |-> Unset, state |-> f.state,
   kind |-> f.kind, section |-> f.section, repo |-> f.repo, path |-> f.path]

\* Mutant: a node has only what it sets itself.
ChildOnly(parent, child) == [k \in TargetFields |-> child[k]]

Merged(parent, child) ==
  [k \in TargetFields |-> IF child[k] = Unset THEN parent[k] ELSE child[k]]

OrderedNodes(t) ==
  IF t.nodes = <<>> THEN <<[parent |-> 0, filter |-> t.filter]>> ELSE t.nodes

Effective(t) ==
  LET nodes == OrderedNodes(t)
      filter[n \in 0..Len(nodes)] ==
        IF n = 0 THEN t.filter
        ELSE Merged(filter[nodes[n].parent], nodes[n].filter)
  IN  filter

\* The rules of each node; they must be disjoint.
NodeRules(disk, row, t) ==
  LET filter == Effective(t)
  IN  [n \in 1..Len(OrderedNodes(t)) |->
         List(disk, row, ToRuleFilter(filter[n]))]

Collected(disk, row, t) == FlattenSeq(NodeRules(disk, row, t))

\* Mutant: nobody remembers which rules were seen.
NeverDuplicate(ids) == ids \in {<<>>}

\* DuplicateRenderRule: some rule is in two nodes.
DuplicateRule(ids) == ~IsInjective(ids)

\* explain_target: the rules of each node, in the order of the printed tree:
\* a node's own before those of its children.
Explained(t, rules) ==
  LET nodes == OrderedNodes(t)
      Children(n) == Ascending({k \in 1..Len(nodes) : nodes[k].parent = n})
      below[n \in 0..Len(nodes)] ==
        (IF n = 0 THEN <<>> ELSE rules[n])
          \o FlattenSeq([k \in DOMAIN Children(n) |-> below[Children(n)[k]]])
  IN  below[0]
=============================================================================
