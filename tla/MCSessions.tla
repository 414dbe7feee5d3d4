------------------------------ MODULE MCSessions ------------------------------
(* Bounds on the runs of Sessions, for TLC. *)
EXTENDS Sessions, FiniteSets

Troubles == {k \in 1..4 :
  \/ k = 1 /\ opener.at # "none"
  \/ k = 2 /\ closed
  \/ k = 3 /\ faults > 0
  \/ k = 4 /\ renamed}

\* A program ends by itself.
Ending == running' # running /\ doomed' = doomed /\ faults' = faults

\* A pane without a live terminal meets one trouble at a time: somebody else's
\* client, its own end, a failure, a rename, or a program that ends; and two
\* inputs if it meets none.  What this forbids are steps that are not fair.
OneTrouble ==
  \/ live
  \/ /\ Cardinality(Troubles') <= 1
     /\ Ending => Troubles = {}
     /\ Troubles' # Troubles => ~meddled
     /\ typed' <= 1 \/ (Troubles' = {} /\ ~Ending)
=============================================================================
