---------------------------- MODULE MCTaskSpace ----------------------------
(* Instances of TaskSpace for TLC. *)
EXTENDS TaskSpace, TLC

CONSTANTS w1, w2, w3, p1, p2, t1, t2

MCSymmetry == Permutations(Slot)

\* Bound: an operation of the sidebar starts while one workspace is listed, if two
\* exist from the beginning nothing fails, and after a click on a pane that had left
\* nothing fails either and an operation of the sidebar leaves one workspace.
MCBound ==
  /\ \A k \in Slot : task[k] # None /\ task[k].kind = "reload" => Cardinality(listed) < 2
  /\ Cardinality(listed) = 2 /\ reloads = 0 => faults = 0
  /\ strays # {} => faults = 0 /\ (reloads = 0 \/ Cardinality(listed) = 1)
=============================================================================
