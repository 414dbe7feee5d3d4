------------------------------ MODULE Background ------------------------------
(***************************************************************************)
(* The background work of the application for a workspace: its status and  *)
(* the marks of its pane, and the operations of the sidebar that reload or *)
(* rename it under both of them (octty-app: app_core.rs 580 to 671,        *)
(* bootstrap.rs; octty-store: workspaces.rs).                              *)
(*                                                                         *)
(* Handlers run on the main thread, one at a time; tasks make one          *)
(* statement of the store or one call of JJ or the daemon at a time.  One  *)
(* project root; None is another of its workspaces.                        *)
(***************************************************************************)
EXTENDS WorkspaceRefresh, PaneActivity, FiniteSets

CONSTANTS
  First,   \* the identifier at the start
  OpSlot,  \* bound: operations of the sidebar in flight
  Budgets  \* bounds to choose from

\* How often files change, a terminal or its user acts, the sidebar is used and
\* something fails, and whether the marks are reconciled at all.
Budget ==
  [change : Nat, activity : Nat, operation : Nat, failure : Nat, reconcile : BOOLEAN]

ASSUME BackgroundAssumption == First \in Id /\ Budgets \subseteq Budget

VARIABLES
  jj,      \* the name of the working copy in JJ, external
  ops,     \* the operations of the sidebar in flight
  budget,  \* what of the bounds is left
  renamed, \* history: identifiers whose rows were renamed away, and not to since
  ghost    \* history: of those, the ones that something has kept or brought back

sideVars == <<jj, ops, renamed, ghost>>
vars == <<refreshVars, activityVars, sideVars, budget>>

NoOp == [kind |-> "none"]
Task == [kind : {"rename", "reload"},
         step : {"check", "jj", "store", "discover", "write", "rows", "layout", "marks", "apply"},
         from : Id, to : Id, want : Id \cup {None}, list : [Id -> Nat \cup {None}],
         layout : BOOLEAN, marks : Marks]

Spend(what) == budget[what] > 0 /\ budget' = [budget EXCEPT ![what] = @ - 1]
OnlyWorkspace(i, status) == [j \in Id |-> IF j = i THEN status ELSE None]

Init ==
  /\ RefreshInit(First) /\ ActivityInit(First)
  /\ jj = First /\ ops = [k \in OpSlot |-> NoOp] /\ budget \in Budgets
  /\ renamed = {} /\ ghost = {}

On(k, step) == ops[k] # NoOp /\ ops[k].step = step
Goes(k, step) == ops' = [ops EXCEPT ![k].step = step]
\* The slots are alike: a free one will do.
Start(k, kind, step, from, to) ==
  /\ ops[k] = NoOp /\ k = (CHOOSE l \in OpSlot : ops[l] = NoOp)
  /\ listed[from] # None /\ Spend("operation")
  /\ ops' = [ops EXCEPT ![k] =
       [kind |-> kind, step |-> step, from |-> from, to |-> to, want |-> active,
        list |-> [i \in Id |-> None], layout |-> FALSE, marks |-> Nothing]]

-----------------------------------------------------------------------------
(* run_workspace_rename_operation and rename_workspace_and_reload; nothing  *)
(* keeps another operation from starting meanwhile.                        *)

\* suspend_workspace_status_refresh, then the task.
RenameStart(k, from, to) ==
  /\ to # from /\ Start(k, "rename", "check", from, to)
  /\ suspended' = suspended \cup {from}
  /\ due' = [due EXCEPT ![from] = "none"]
  /\ timer' = timer \ {from}
  /\ watched' = watched \ {from}
  /\ excused' = (excused \/ due[from] # "none")
  /\ UNCHANGED <<changes, listed, stored, events, fresh, asleep, refresh,
                 activityVars, jj, renamed, ghost>>

\* The store has the workspace, and none with the new name.
RenameCheck(k) ==
  /\ On(k, "check") /\ stored[ops[k].from] # None /\ stored[ops[k].to] = None
  /\ Goes(k, "jj")
  /\ UNCHANGED <<refreshVars, activityVars, jj, budget, renamed, ghost>>

RenameJJ(k) ==
  /\ On(k, "jj") /\ Goes(k, "store")
  /\ jj' = ops[k].to
  /\ renamed' = renamed \ {ops[k].to}
  /\ UNCHANGED <<refreshVars, activityVars, budget, ghost>>

\* Rows of both names collide in a table where the name is a key.
Clash(op) ==
  \/ stored[op.from] # None /\ stored[op.to] # None
  \/ rows[op.from] # None /\ rows[op.to] # None
  \/ {op.from, op.to} \subseteq panes

Carried(f, op) ==
  IF f[op.from] = None THEN f ELSE [f EXCEPT ![op.to] = f[op.from], ![op.from] = None]

\* Who may still write the row of the old name: a refresh in flight, or one that
\* may start because another rename has resumed it, or another operation that
\* has found or will find the old name.
Kept(k, i) ==
  \/ InFlight(i) \/ i \notin suspended \/ jj = i
  \/ \E l \in OpSlot \ {k} : ops[l] # NoOp /\ ops[l].list[i] # None

\* One transaction moves the rows of every table. A row that comes to the name of
\* a closed pane escaped its deletion by an earlier rename.
RenameStore(k) ==
  LET op == ops[k] IN
  /\ On(k, "store") /\ ~Clash(op) /\ Goes(k, "discover")
  /\ stored' = Carried(stored, op) /\ rows' = Carried(rows, op)
  /\ panes' = IF op.from \in panes THEN (panes \ {op.from}) \cup {op.to} ELSE panes
  /\ renamed' = (renamed \ {op.to}) \cup {op.from}
  /\ ghost' = IF Kept(k, op.from) THEN ghost \cup {op.from} ELSE ghost \ {op.from}
  /\ late' = IF rows[op.from] = None THEN late ELSE late \cup (closed \cap {op.to})
  /\ UNCHANGED <<changes, listed, watched, events, due, timer, fresh, asleep, suspended,
                 refresh, excused, mem, pending, persist, recon, active, shown, live, jobs,
                 shells, since, closed, lost, jj, budget>>

-----------------------------------------------------------------------------
(* load_bootstrap_from_store, after a rename or any other operation.       *)

ReloadStart(k, i) ==
  /\ Start(k, "reload", "discover", i, i)
  /\ UNCHANGED <<refreshVars, activityVars, jj, renamed, ghost>>

\* JJ lists the workspace under the name it has there, with its status; a status
\* that cannot be read is left at its default, and if JJ cannot list, the
\* workspaces are those of the store.
LoadStatus(k) ==
  /\ On(k, "discover")
  /\ \/ /\ ops' = [ops EXCEPT ![k].step = "write", ![k].list = OnlyWorkspace(jj, changes)]
        /\ UNCHANGED budget
     \/ /\ ops' = [ops EXCEPT ![k].step = "write", ![k].list = OnlyWorkspace(jj, 0)]
        /\ Spend("failure")
     \/ Goes(k, "rows") /\ Spend("failure")
  /\ UNCHANGED <<refreshVars, activityVars, jj, renamed, ghost>>

\* upsert_workspace
LoadWrite(k) ==
  /\ On(k, "write") /\ Goes(k, "layout")
  /\ stored' = [i \in Id |-> IF ops[k].list[i] = None THEN stored[i] ELSE ops[k].list[i]]
  /\ UNCHANGED <<changes, listed, watched, events, due, timer, fresh, asleep, suspended,
                 refresh, excused, activityVars, jj, budget, renamed, ghost>>

LoadRows(k) ==
  /\ On(k, "rows")
  /\ ops' = [ops EXCEPT ![k].step = "layout", ![k].list = stored]
  /\ UNCHANGED <<refreshVars, activityVars, jj, budget, renamed, ghost>>

\* What was active when the operation started, under its new name if it is the
\* one renamed, or the first of the list; None is another workspace.
Wanted(op) == IF op.want = op.from THEN op.to ELSE op.want
Choice(op) ==
  IF Wanted(op) = None \/ op.list[Wanted(op)] # None THEN {Wanted(op)}
  ELSE {i \in Id : op.list[i] # None} \cup {None}

LoadLayout(k) ==
  /\ On(k, "layout")
  /\ \E i \in Choice(ops[k]) :
       ops' = [ops EXCEPT ![k].step = "marks", ![k].want = i, ![k].layout = i \in panes]
  /\ UNCHANGED <<refreshVars, activityVars, jj, budget, renamed, ghost>>

LoadMarks(k) ==
  /\ On(k, "marks")
  /\ ops' = [ops EXCEPT ![k].step = "apply", ![k].marks = rows]
  /\ UNCHANGED <<refreshVars, activityVars, jj, budget, renamed, ghost>>

\* An operation fails: the name is taken or the workspace is not there, or JJ or
\* the store fails at any step, also after the rename was committed.  A rename
\* resumes the refresh of the name it started from, and the watchers of what is
\* listed, the old name if so, are created again.
Refused(k) ==
  \/ On(k, "check") /\ (stored[ops[k].from] = None \/ stored[ops[k].to] # None)
  \/ On(k, "store") /\ Clash(ops[k])

Fails(k) ==
  LET op == ops[k] IN
  /\ ops' = [ops EXCEPT ![k] = NoOp]
  /\ IF op.kind = "rename"
     THEN /\ suspended' = suspended \ {op.from}
          /\ watched' = Listed
          /\ ghost' = ghost \cup (renamed \cap Listed \cap {op.from})
     ELSE UNCHANGED <<suspended, watched, ghost>>
  /\ lost' = IF op.kind = "rename" /\ op.step \notin {"check", "jj", "store"} THEN Id ELSE lost
  /\ UNCHANGED <<changes, listed, stored, events, due, timer, fresh, asleep, refresh, excused,
                 mem, pending, persist, recon, active, shown, live, jobs, rows, panes, shells,
                 since, closed, late, jj, renamed>>

OperationRefused(k) == Refused(k) /\ Fails(k) /\ UNCHANGED budget
OperationFails(k) == ops[k] # NoOp /\ ops[k].step # "apply" /\ Spend("failure") /\ Fails(k)

-----------------------------------------------------------------------------
(* apply_bootstrap                                                         *)

\* rekey_workspace_runtime_state: what is kept under one name moves to another.
Rekeyed(f, op) == IF op.to = op.from THEN f ELSE Carried(f, op)
RekeyedSet(S, op) == IF op.from \in S THEN (S \ {op.from}) \cup {op.to} ELSE S

\* A closed pane has the new name too, and what may bring it back under it.
AlsoClosed(op) == IF op.from \in closed THEN {op.to} \ closed ELSE {}
OnItsWay(i) == rows[i] # None \/ persist.batch[i] # None \/ recon.step # "rest"

Apply(k) ==
  LET op == ops[k]
      here == IF op.layout THEN {op.want} ELSE {}
      kept == Rekeyed(pending, op)
      last == [since EXCEPT ![op.to] = since[op.from]]
  IN
  /\ On(k, "apply") /\ ops' = [ops EXCEPT ![k] = NoOp]
  /\ active' = op.want /\ shown' = IF op.layout THEN "pane" ELSE "none"
  /\ live' = RekeyedSet(live, op) \cup here
  /\ shells' = shells \cup (here \ RekeyedSet(live, op))
  /\ mem' = [i \in Id |-> IF i \in here THEN "seen" ELSE op.marks[i]]
  /\ pending' = [i \in Id |-> IF i \in here THEN "seen" ELSE kept[i]]
  /\ persist' = IF here # {} /\ persist.step = "idle"
                THEN [persist EXCEPT !.step = "sleep"] ELSE persist
  /\ since' = [i \in Id |-> IF i \in here THEN "seen" ELSE last[i]]
  /\ closed' = (closed \cup AlsoClosed(op)) \ live'
  /\ late' = late \cup {i \in closed' : op.marks[i] # None \/ kept[i] # None}
                  \cup {i \in AlsoClosed(op) : OnItsWay(i)}
  /\ lost' = IF op.kind = "rename" /\ Mark(op.marks[op.to]) # last[op.to] THEN Id
             ELSE lost \cup {i \in Id \ shells : Mark(op.marks[i]) # last[i]}
  /\ listed' = op.list
  /\ excused' = Excuse(op.list)
  /\ watched' = {i \in Id : op.list[i] # None}
  /\ suspended' = IF op.kind = "rename" THEN suspended \ {op.from, op.to} ELSE suspended
  /\ UNCHANGED <<changes, stored, events, due, timer, fresh, asleep, refresh, recon, jobs,
                 rows, panes, jj, budget, renamed, ghost>>

Operation(k) ==
  \/ RenameCheck(k) \/ RenameJJ(k) \/ RenameStore(k) \/ OperationRefused(k)
  \/ LoadStatus(k) \/ LoadWrite(k) \/ LoadRows(k) \/ LoadLayout(k) \/ LoadMarks(k) \/ Apply(k)

-----------------------------------------------------------------------------
Rest == UNCHANGED sideVars

Next ==
  \/ Change /\ Spend("change") /\ Rest /\ UNCHANGED activityVars
  \/ RefreshStep /\ Rest /\ UNCHANGED <<activityVars, budget>>
  \/ RefreshFails /\ Spend("failure") /\ Rest /\ UNCHANGED activityVars
  \/ \E i \in Id : ActivityEvent(i) /\ Spend("activity") /\ Rest /\ UNCHANGED refreshVars
  \/ \E i \in Listed \cup {None} : Open(i) /\ Spend("activity") /\ Rest /\ UNCHANGED refreshVars
  \/ ActivityStep /\ Rest /\ UNCHANGED <<refreshVars, budget>>
  \/ ReconStart /\ budget.reconcile /\ Rest /\ UNCHANGED <<refreshVars, budget>>
  \/ ActivityFails /\ Spend("failure") /\ Rest /\ UNCHANGED refreshVars
  \/ \E k \in OpSlot :
       \/ \E i, j \in Id : RenameStart(k, i, j)
       \/ \E i \in Id : ReloadStart(k, i)
       \/ Operation(k) \/ OperationFails(k)

Spec == Init /\ [][Next]_vars

\* Tasks, timers and frames go on; nobody has to change a file, to use a
\* terminal or the sidebar, and nothing has to fail.
FairSpec ==
  /\ Spec
  /\ WF_vars(Watch /\ Rest /\ UNCHANGED <<activityVars, budget>>)
  /\ WF_vars(Receive /\ Rest /\ UNCHANGED <<activityVars, budget>>)
  /\ \A i \in Id :
       /\ WF_vars(Poll(i) /\ Rest /\ UNCHANGED <<activityVars, budget>>)
       /\ WF_vars(Elapse(i) /\ Rest /\ UNCHANGED <<activityVars, budget>>)
       /\ WF_vars(Wake(i) /\ Rest /\ UNCHANGED <<activityVars, budget>>)
       /\ WF_vars(PersistWrite(i) /\ Rest /\ UNCHANGED <<refreshVars, budget>>)
       /\ WF_vars(ReconWrite(i) /\ Rest /\ UNCHANGED <<refreshVars, budget>>)
  /\ \A t \in Slot :
       WF_vars((ReadStatus(t) \/ WriteStatus(t) \/ ShowStatus(t)) /\ Rest
                 /\ UNCHANGED <<activityVars, budget>>)
  /\ WF_vars((PersistTake \/ PersistDone) /\ Rest /\ UNCHANGED <<refreshVars, budget>>)
  /\ WF_vars(((ReconStart /\ budget.reconcile) \/ ReconRows \/ ReconLayouts \/ ReconShow)
               /\ Rest /\ UNCHANGED <<refreshVars, budget>>)
  /\ WF_vars((ReadLayout \/ Opened) /\ Rest /\ UNCHANGED <<refreshVars, budget>>)
  /\ \A k \in OpSlot : WF_vars(Operation(k))

-----------------------------------------------------------------------------
(* Properties.                                                             *)

TypeOK ==
  /\ RefreshOK /\ ActivityOK
  /\ jj \in Id /\ ops \in [OpSlot -> Task \cup {NoOp}]
  /\ budget \in Budget
  /\ renamed \subseteq Id /\ ghost \subseteq Id

\* In the end the sidebar shows every change of the working copy, through
\* watchers that are replaced, events that are put off and refreshes that
\* pass each other, unless a change fell into a rename, an older status was
\* shown after a newer one, or JJ or the store failed
\* (app_workspace_status.rs 71 to 184).
StatusSettles == \A i \in Id : <>[](listed[i] # None /\ ~excused => listed[i] = changes)

\* A workspace that was renamed is not written back under its old name: no refresh
\* that is due starts, and no reload that starts later finds it (app_workspace_status.rs
\* 141, 187; app_core.rs 594).  What writes it back is a refresh or an operation that
\* was in flight for the old name when the rename was committed, or a rename that
\* fails after its commit or beside another one and resumes the old name.
GoneStaysGone == \A i \in renamed \ ghost : stored[i] = None

\* In the end the marks of a pane that is not on the screen are those of what
\* happened since it was seen, through records, writes, reconciliations and
\* reloads that overlap, unless a write failed or was itself overwritten, a
\* rename failed after its commit or met marks on their way, or a reload found
\* older ones for a session that has kept an earlier name (app_activity.rs 113
\* to 214).
MarksSettle ==
  \A i \in Id : <>[](i \in live /\ ~Focused(i) /\ i \notin lost => Mark(mem[i]) = since[i])

\* The activity of a pane that was closed on the screen is gone, under every name
\* that its workspace has had since and until it is shown again, unless a write or a
\* reconciliation was under way that knew the pane, a reload has brought it back, the
\* last frame was clicked, or a rename came before the deletion of its row
\* (app_activity.rs 85 to 90).
ClosedIsForgotten ==
  \A i \in closed \ late :
    /\ mem[i] = None /\ pending[i] = None
    /\ <<"row", i>> \notin jobs => rows[i] = None
=============================================================================
