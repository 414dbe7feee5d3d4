----------------------------- MODULE MCBackground -----------------------------
(* Values for the constants of Background, for TLC. *)
EXTENDS Background

CONSTANTS a, b

\* The bounds go to one side or the other: status and marks share no state but
\* the operations of the sidebar, which either meets.
MCBudgets == {
  [change |-> 2, activity |-> 0, operation |-> 0, failure |-> 0, reconcile |-> FALSE],
  [change |-> 1, activity |-> 0, operation |-> 2, failure |-> 0, reconcile |-> FALSE],
  [change |-> 1, activity |-> 0, operation |-> 1, failure |-> 1, reconcile |-> FALSE],
  [change |-> 0, activity |-> 0, operation |-> 2, failure |-> 1, reconcile |-> FALSE],
  [change |-> 0, activity |-> 3, operation |-> 0, failure |-> 0, reconcile |-> TRUE],
  [change |-> 0, activity |-> 2, operation |-> 0, failure |-> 1, reconcile |-> TRUE],
  [change |-> 0, activity |-> 2, operation |-> 1, failure |-> 0, reconcile |-> TRUE],
  [change |-> 0, activity |-> 1, operation |-> 1, failure |-> 1, reconcile |-> TRUE]}

NothingLeft == {None}
===============================================================================
