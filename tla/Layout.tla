-------------------------------- MODULE Layout --------------------------------
(***************************************************************************)
(* The layout of a workspace's task space (octty-core, layout.rs) and the  *)
(* moves of the focus between panes (octty-app, input.rs).                 *)
(*                                                                         *)
(* add_pane is the only operation that creates a column and puts one pane  *)
(* into it; nothing puts a pane into an existing column, and no column is  *)
(* pinned.  center_column_ids, columns and panes are therefore one         *)
(* sequence of panes.  Of a pane's payload only session_id is kept, the    *)
(* name of the daemon session of a terminal; widths and heights are not.   *)
(***************************************************************************)
EXTENDS Naturals, Sequences, SequencesExt, Subsequences

CONSTANTS
  Workspace, \* workspace identifiers
  Pane,      \* pane identifiers, unique by next_id's counter
  None       \* no workspace, pane, session or snapshot

\* stable_retach_session_name hashes the workspace and the pane.
Shell == Workspace \X Pane

Snapshot ==
  [ws : Workspace, columns : Seq(Pane), focus : Pane \cup {None},
   session : [Pane -> Shell \cup {None}]]

\* None is the None of every Option.
ASSUME NoneAssumption == None \notin Workspace \cup Pane \cup Shell \cup Snapshot

Panes(s) == ToSet(s.columns)

EmptyLayout(w) ==
  [ws |-> w, columns |-> <<>>, focus |-> None, session |-> [p \in Pane |-> None]]

AddToLayout(s, p) == [s EXCEPT !.columns = Append(@, p), !.focus = p]

Without(columns, p) == Pick(columns, {i \in DOMAIN columns : columns[i] # p})

\* Slip: the focus stays on the removed pane.
RemoveKeepingFocus(s, p) == [s EXCEPT !.columns = Without(@, p)]

\* remove_pane, for a pane of the snapshot: a removed focus goes to the first
\* pane that is left.
RemoveFromLayout(s, p) ==
  LET left == Without(s.columns, p)
  IN [s EXCEPT !.columns = left,
               !.focus = IF @ # p THEN @ ELSE IF left = <<>> THEN None ELSE left[1],
               !.session[p] = None]

\* pane_navigation_target: the pane one column to the left or to the right of
\* the focus, or of the first pane when nothing has it.
NavigationTargets(s) ==
  IF s.columns = <<>> THEN {}
  ELSE LET from == IF s.focus = None THEN s.columns[1] ELSE s.focus
       IN {s.columns[j] : j \in {j \in DOMAIN s.columns :
             \E i \in DOMAIN s.columns : s.columns[i] = from /\ (j = i + 1 \/ i = j + 1)}}

\* What the operations keep: a pane has one column, and the focus is on a pane
\* whenever there is one, or on one of the strays.
Sound(s, strays) ==
  /\ \A i, j \in DOMAIN s.columns : s.columns[i] = s.columns[j] => i = j
  /\ s.focus \notin strays =>
       IF s.columns = <<>> THEN s.focus = None ELSE s.focus \in Panes(s)
===============================================================================
