------------------------------- MODULE RuleBatch -------------------------------
(***************************************************************************)
(* What "rule sync-rules" promises: the bodies of one generated file become *)
(* the bodies of the rules they name, all of them or, when the command      *)
(* fails, none.  The promise is made to a user who is alone: nothing else   *)
(* writes the rules and the command is not interrupted.                     *)
(***************************************************************************)
CONSTANTS
  Ids,       \* rules
  Bodies,    \* their bodies, and what stands for a deleted rule
  Requests,  \* the files, as sets of pairs of a rule and a body
  None       \* no command in progress

VARIABLES
  rules,     \* [Ids -> Bodies]
  request,   \* the file of the command in progress, or None
  alone      \* whether the promise is made: never changes

vars == <<rules, request, alone>>

Init ==
  /\ rules \in [Ids -> Bodies]
  /\ request = None
  /\ alone \in BOOLEAN

Submit ==
  /\ request = None
  /\ request' \in Requests
  /\ UNCHANGED <<rules, alone>>

\* Every rule the file names has a body the file gives it.
Commit ==
  /\ request # None
  /\ request' = None
  /\ rules' \in [Ids -> Bodies]
  /\ \A i \in Ids :
       LET given == {e[2] : e \in {r \in request : r[1] = i}}
       IN  IF given = {} THEN rules'[i] = rules[i] ELSE rules'[i] \in given
  /\ UNCHANGED alone

Abort ==
  /\ request # None
  /\ request' = None
  /\ UNCHANGED <<rules, alone>>

\* Nothing is promised.
Unpromised ==
  /\ ~alone
  /\ rules' \in [Ids -> Bodies]
  /\ request' \in Requests \cup {None}
  /\ UNCHANGED alone

Next == Submit \/ Commit \/ Abort \/ Unpromised

Spec == Init /\ [][Next]_vars
================================================================================
