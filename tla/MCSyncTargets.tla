---------------------------- MODULE MCSyncTargets ----------------------------
(* SyncTargets on small instances: two targets, two outputs. *)
EXTENDS SyncTargets, TLC

\* Every target has a slug of its own.
CONSTANTS n1, n2, s1, s2
OwnSlugs == [n \in Names |-> IF n = n1 THEN s1 ELSE s2]

AllKinds == Kind
=============================================================================
