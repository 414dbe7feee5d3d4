------------------------------- MODULE TaskSpace -------------------------------
(***************************************************************************)
(* The task spaces of the desktop application: the workspaces in the       *)
(* sidebar, the layout on the screen, its terminals, and the asynchronous  *)
(* tasks that load, save, rename and forget them through the store         *)
(* (octty-app: app_core.rs, app_panes.rs, app_live_terminals.rs,           *)
(* bootstrap.rs, terminal_lifecycle.rs; octty-store: snapshots.rs,         *)
(* workspaces.rs).                                                         *)
(*                                                                         *)
(* Handlers run on the main thread, one at a time: each is one action.     *)
(* What they spawn runs on the tokio runtime, one statement of the store   *)
(* or one call of jj or the daemon at a time, in any order among tasks;    *)
(* its result is applied by another step of the main thread.               *)
(*                                                                         *)
(* A start of the application is Init: whatever an earlier run left in     *)
(* the store and in the daemon, and the bootstrap in flight.               *)
(***************************************************************************)
EXTENDS Layout, FiniteSets, TLC, Functions

CONSTANTS
  Default,    \* the workspace named "default", which cannot be forgotten
  Existing,   \* bound: workspaces that may exist when the application starts
  Stored,     \* panes that an earlier run may have left in a layout
  Terminal,   \* panes that are terminals
  Slot,       \* bound: tasks in flight
  MaxPending, \* bound: inputs waiting to be flushed
  MaxReloads, \* bound: navigation operations
  MaxFaults   \* bound: failures of terminals to start, of the store and of JJ

ASSUME TaskSpaceAssumption ==
  /\ Existing \subseteq Workspace /\ Default \in Workspace
  /\ Stored \subseteq Pane /\ Terminal \subseteq Pane
  /\ MaxPending \in Nat /\ MaxReloads \in Nat /\ MaxFaults \in Nat

VARIABLES
  \* OcttyApp
  listed,    \* workspaces
  active,    \* active_workspace_index
  shown,     \* active_snapshot
  live,      \* live_terminals: the session each key's terminal is attached to
  failed,    \* failed_live_terminals
  pending,   \* pending_terminal_inputs
  flushing,  \* terminal_flush_active
  \* tasks in flight
  task,      \* store tasks, by slot
  kills,     \* sessions for which kill_terminal_session runs
  \* outside the application
  jj,        \* workspaces JJ knows
  rows,      \* table workspaces
  disk,      \* table workspace_snapshots
  shells,    \* sessions of the daemon
  \* history
  used,      \* panes ever created
  strays,    \* panes that were clicked on after they had left the layout
  closed,    \* panes closed by the user or by the exit of their terminal
  reloads,   \* navigation operations started
  disturbed, \* whether operations on a workspace overlapped or a write failed
  faulty,    \* workspaces that failed to load
  faults     \* failures

app == <<listed, active, shown, live, failed, pending, flushing>>
world == <<jj, rows, disk, shells>>
history == <<used, strays, closed, reloads, disturbed, faulty, faults>>
vars == <<app, task, kills, world, history>>

Key == Workspace \X Pane
Input == [ws : Workspace, snap : Snapshot, pane : Pane]

\* The tasks, by what they do.
Loads == [kind : {"load"}, step : {"read", "create", "apply"}, ws : Workspace,
          snap : Snapshot \cup {None}]
Saves == [kind : {"save"}, snap : Snapshot]
Exits == [kind : {"exit"}, step : {"read", "write"}, ws : Workspace, pane : Terminal,
          snap : Snapshot \cup {None}]
Flushes == [kind : {"flush"}, step : {"wait", "send", "save"}, batch : Seq(Input),
            done : Seq(Snapshot)]
Reloads == [kind : {"reload"}, op : {"start", "reload", "create", "rename", "forget"},
            step : {"check", "jj", "delete", "row", "copy", "commit", "list", "upsert",
                    "read", "create", "apply"},
            ws : Workspace \cup {None}, to : Workspace \cup {None},
            want : Workspace \cup {None}, list : SUBSET Workspace,
            snap : Snapshot \cup {None}]

Tasks == Loads \cup Saves \cup Exits \cup Flushes \cup Reloads

ASSUME TaskAssumption == None \notin Tasks

LoadTask(w) == [kind |-> "load", step |-> "read", ws |-> w, snap |-> None]
SaveTask(s) == [kind |-> "save", snap |-> s]
ExitTask(w, p) == [kind |-> "exit", step |-> "read", ws |-> w, pane |-> p, snap |-> None]
FlushTask == [kind |-> "flush", step |-> "wait", batch |-> <<>>, done |-> <<>>]
ReloadTask(op, step, w, to, want) ==
  [kind |-> "reload", op |-> op, step |-> step, ws |-> w, to |-> to,
   want |-> want, list |-> {}, snap |-> None]

At(k, kind, step) == task[k] # None /\ task[k].kind = kind /\ task[k].step = step
Start(k, t) == task[k] = None /\ task' = [task EXCEPT ![k] = t]
Finish(k) == task' = [task EXCEPT ![k] = None]
Fault == faults < MaxFaults /\ faults' = faults + 1

-----------------------------------------------------------------------------
(* Which tasks are about a workspace's layout, for the history.  A reload  *)
(* replaces whatever is on the screen when it ends.                        *)

Touches(t) ==
  IF t = None THEN {}
  ELSE CASE t.kind \in {"load", "exit"} -> {t.ws}
         [] t.kind = "save" -> {t.snap.ws}
         [] t.kind = "flush" -> {t.batch[i].snap.ws : i \in DOMAIN t.batch}
         [] t.kind = "reload" -> Workspace

Busy(w) ==
  \/ \E k \in Slot : w \in Touches(task[k])
  \/ \E i \in DOMAIN pending : pending[i].snap.ws = w

\* The layout of these workspaces is read or changed now.
Use(W) == disturbed' = (disturbed \/ \E w \in W : Busy(w))

-----------------------------------------------------------------------------
(* Live terminals.                                                         *)

Terminals(s) == Panes(s) \cap Terminal

\* ensure_live_terminals_for_active_snapshot gives every terminal a session...
Adopt(w, s) ==
  [s EXCEPT !.session = [p \in Pane |->
     IF p \in Terminals(s) /\ @[p] = None THEN <<w, p>> ELSE @[p]]]

\* ...and starts the terminals that neither run nor failed before.  Starting
\* one opens or creates the session of its name.
EnsureLive(w, s, lives, fails) ==
  LET missing == {<<w, p>> : p \in {p \in Terminals(s) :
                                lives[<<w, p>>] = None /\ <<w, p>> \notin fails}}
  IN \E bad \in SUBSET missing :
       /\ faults' = faults + Cardinality(bad) /\ faults' <= MaxFaults
       /\ live' = [key \in Key |-> IF key \in missing \ bad THEN key ELSE lives[key]]
       /\ failed' = fails \cup bad
       /\ shells' = shells \cup (missing \ bad)

Running(w, s, lives) == {p \in Terminals(s) : lives[<<w, p>>] # None}

\* sync_active_workspace_terminal_snapshots: the terminals in got have output,
\* and their panes take over the session it comes from.
Sync(w, s, got, lives) ==
  [s EXCEPT !.session = [p \in Pane |-> IF p \in got THEN lives[<<w, p>>] ELSE @[p]]]

\* A loaded snapshot goes on the screen.
Present(w, s, lives, fails) ==
  /\ EnsureLive(w, s, lives, fails)
  /\ \E got \in SUBSET Running(w, s, lives) : shown' = Sync(w, Adopt(w, s), got, lives)

\* Slip: a row that is there stays.
PutNew(s) ==
  [w \in DOMAIN disk \cup {s.ws} |-> IF w \in DOMAIN disk THEN disk[w] ELSE s]

\* save_snapshot: insert or replace the row of the snapshot's own workspace.
Put(s) == [w \in DOMAIN disk \cup {s.ws} |-> IF w = s.ws THEN s ELSE disk[w]]
Drop(w) == Restrict(disk, DOMAIN disk \ {w})

-----------------------------------------------------------------------------
(* Init: main() runs the bootstrap before the window opens.                *)

\* What an earlier run left: layouts of at most one pane, and the sessions of
\* some of their terminals, under the names it gave them.
Left(w, p) == [EmptyLayout(w) EXCEPT
  !.columns = <<p>>, !.focus = p, !.session[p] = IF p \in Terminal THEN <<w, p>> ELSE None]

Init ==
  /\ listed = {} /\ active = None /\ shown = None
  /\ live = [key \in Key |-> None] /\ failed = {}
  /\ pending = <<>> /\ flushing = FALSE
  /\ \E k \in Slot : task = [j \in Slot |->
       IF j = k THEN ReloadTask("start", "list", None, None, None) ELSE None]
  /\ kills = {}
  /\ jj \in (SUBSET Existing) \ {{}} /\ rows = jj
  /\ \E W \in SUBSET rows : \E panes \in [W -> Stored] :
       /\ \A v, w \in W : panes[v] = panes[w] => v = w
       /\ disk = [w \in W |-> Left(w, panes[w])]
       /\ shells \in SUBSET {<<w, panes[w]>> : w \in {w \in W : panes[w] \in Terminal}}
  /\ used = Stored /\ strays = {} /\ closed = {} /\ reloads = 0
  /\ disturbed = FALSE /\ faulty = {} /\ faults = 0

-----------------------------------------------------------------------------
(* Opening a workspace.                                                    *)

\* Slip: no load is started while another is in flight.
OpenWorkspaceOnce(w, k) ==
  /\ w \in listed /\ active # w
  /\ active' = w /\ shown' = None
  /\ IF \E j \in Slot : task[j] # None /\ task[j].kind = "load"
     THEN UNCHANGED task ELSE Start(k, LoadTask(w))
  /\ Use({w})
  /\ UNCHANGED <<listed, live, failed, pending, flushing, kills, world,
                 used, strays, closed, reloads, faulty, faults>>

\* open_workspace, also by navigate_workspace.
OpenWorkspace(w, k) ==
  /\ w \in listed /\ active # w
  /\ Start(k, LoadTask(w))
  /\ active' = w /\ shown' = None
  /\ Use({w})
  /\ UNCHANGED <<listed, live, failed, pending, flushing, kills, world,
                 used, strays, closed, reloads, faulty, faults>>

\* Slip: a workspace opens with an empty layout.
LoadReadNothing(k) ==
  /\ At(k, "load", "read")
  /\ task' = [task EXCEPT ![k].step = "create", ![k].snap = EmptyLayout(task[k].ws)]
  /\ UNCHANGED <<app, kills, world, history>>

\* load_workspace_snapshot: the row, or an empty layout...
LoadRead(k) ==
  /\ At(k, "load", "read")
  /\ LET w == task[k].ws
     IN task' = [task EXCEPT
          ![k].step = IF w \in DOMAIN disk THEN "apply" ELSE "create",
          ![k].snap = IF w \in DOMAIN disk THEN disk[w] ELSE EmptyLayout(w)]
  /\ UNCHANGED <<app, kills, world, history>>

\* ...that is saved first.
LoadCreate(k) ==
  /\ At(k, "load", "create")
  /\ task' = [task EXCEPT ![k].step = "apply"]
  /\ disk' = Put(task[k].snap)
  /\ UNCHANGED <<app, kills, jj, rows, shells, history>>

\* Slip: the result is applied whatever workspace is active by now.
LoadApplyAlways(k) ==
  /\ At(k, "load", "apply")
  /\ Finish(k)
  /\ active # None
  /\ Present(active, task[k].snap, live, failed)
  /\ UNCHANGED <<listed, active, pending, flushing, kills, jj, rows, disk, used, strays, closed,
                 reloads, disturbed, faulty>>

LoadApply(k) ==
  /\ At(k, "load", "apply")
  /\ Finish(k)
  /\ IF active = task[k].ws THEN Present(active, task[k].snap, live, failed)
     ELSE UNCHANGED <<shown, live, failed, shells, faults>>
  /\ UNCHANGED <<listed, active, pending, flushing, kills, jj, rows, disk, used, strays, closed,
                 reloads, disturbed, faulty>>

\* The store fails: an error is shown and nothing is opened.
LoadFail(k) ==
  /\ Fault /\ (At(k, "load", "read") \/ At(k, "load", "create"))
  /\ Finish(k)
  /\ faulty' = faulty \cup {task[k].ws} /\ disturbed' = TRUE
  /\ UNCHANGED <<app, kills, world, used, strays, closed, reloads>>

-----------------------------------------------------------------------------
(* Panes.                                                                  *)

\* add_pane and add_terminal_pane, then add_pane_state.
AddPane(p, k) ==
  /\ active # None /\ p \notin used
  /\ LET base == IF shown = None THEN EmptyLayout(active) ELSE shown
         s == Adopt(active, AddToLayout(base, p))
     IN /\ Start(k, SaveTask(s))
        /\ shown' = s
        /\ EnsureLive(active, s, live, failed)
  /\ used' = used \cup {p}
  /\ Use({active})
  /\ UNCHANGED <<listed, active, pending, flushing, kills, jj, rows, disk,
                 strays, closed, reloads, faulty>>

\* The focus moves and the layout is saved.
Focus(p, k) ==
  /\ shown' = [shown EXCEPT !.focus = p]
  /\ Start(k, SaveTask([shown EXCEPT !.focus = p]))
  /\ strays' = strays \cup ({p} \ Panes(shown))
  /\ Use({shown.ws})
  /\ UNCHANGED <<listed, active, live, failed, pending, flushing, kills, world,
                 used, closed, reloads, faulty, faults>>

\* select_pane, by a click on a pane of the last frame, which is not looked up: it
\* may have left the layout since, or the layout the screen. (Any pane there ever
\* was stands for those of that frame.)
SelectPane(p, k) == shown # None /\ p \in used /\ Focus(p, k)

NavigatePane(k) ==
  shown # None /\ \E p \in NavigationTargets(shown) : p # shown.focus /\ Focus(p, k)

\* activate_terminal_key: a click in a terminal moves the focus without a save.
ActivateTerminal(p) ==
  /\ shown # None /\ active = shown.ws /\ p \in Terminals(shown)
  /\ shown' = [shown EXCEPT !.focus = p]
  /\ UNCHANGED <<listed, active, live, failed, pending, flushing, task, kills, world, history>>

\* The focused pane leaves the layout; the session of its terminal is killed.
\* For a focus on no pane of the layout an error is shown.
CloseActivePane(k) ==
  /\ shown # None /\ shown.focus \in Panes(shown)
  /\ LET p == shown.focus
         key == <<shown.ws, p>>
         s == RemoveFromLayout(shown, p)
     IN /\ Start(k, SaveTask(s))
        /\ shown' = Adopt(active, s)
        /\ EnsureLive(active, s, [live EXCEPT ![key] = None], failed)
        /\ kills' = kills \cup
             ({IF live[key] # None THEN live[key] ELSE shown.session[p]} \ {None})
        /\ closed' = closed \cup {p}
  /\ Use({shown.ws})
  /\ UNCHANGED <<listed, active, pending, flushing, jj, rows, disk,
                 used, strays, reloads, faulty>>

\* save_workspace_snapshot.
SaveRun(k) ==
  /\ task[k] # None /\ task[k].kind = "save"
  /\ disk' = Put(task[k].snap)
  /\ Finish(k)
  /\ UNCHANGED <<app, kills, jj, rows, shells, history>>

SaveFail(k) ==
  /\ Fault /\ task[k] # None /\ task[k].kind = "save"
  /\ Finish(k)
  /\ disturbed' = TRUE
  /\ UNCHANGED <<app, kills, world, used, strays, closed, reloads, faulty>>

\* kill_terminal_session.
KillRun(s) ==
  /\ s \in kills
  /\ kills' = kills \ {s} /\ shells' = shells \ {s}
  /\ UNCHANGED <<app, task, jj, rows, disk, history>>

\* It fails, or is refused: the session lives on.
KillFail(s) ==
  /\ s \in kills /\ Fault
  /\ kills' = kills \ {s}
  /\ UNCHANGED <<app, task, world, used, strays, closed, reloads, disturbed, faulty>>

-----------------------------------------------------------------------------
(* The output and the end of terminals.                                    *)

\* drain_live_terminal_snapshots: output of a terminal on the screen.
DrainOutput(p) ==
  /\ active # None /\ shown # None
  /\ p \in Running(active, shown, live)
  /\ shown' = [shown EXCEPT !.session[p] = live[<<active, p>>]]
  /\ UNCHANGED <<listed, active, live, failed, pending, flushing, task, kills, world, history>>

\* close_exited_live_terminal_panes.  The terminal's process ended because the
\* shell did or because another client took the session over.  The pane leaves
\* the layout on the screen, or the stored one.
TerminalExit(w, p, k) ==
  /\ active # None /\ live[<<w, p>>] # None
  /\ shells' \in {shells, shells \ {live[<<w, p>>]}}
  /\ live' = [live EXCEPT ![<<w, p>>] = None] /\ failed' = failed \ {<<w, p>>}
  /\ IF shown # None /\ shown.ws = w /\ p \in Panes(shown)
     THEN /\ shown' = RemoveFromLayout(shown, p)
          /\ Start(k, SaveTask(RemoveFromLayout(shown, p)))
     ELSE Start(k, ExitTask(w, p)) /\ UNCHANGED shown
  /\ closed' = closed \cup {p}
  /\ Use({w})
  /\ UNCHANGED <<listed, active, pending, flushing, kills, jj, rows, disk,
                 used, strays, reloads, faulty, faults>>

\* Slip: the stored layout is left as it is.
ExitReadOnly(k) ==
  /\ At(k, "exit", "read")
  /\ Finish(k)
  /\ UNCHANGED <<app, kills, world, history>>

\* close_exited_stored_terminal_pane: the row is read...
ExitRead(k) ==
  /\ At(k, "exit", "read")
  /\ LET t == task[k]
     IN IF t.ws \in DOMAIN disk /\ t.pane \in Panes(disk[t.ws])
        THEN task' = [task EXCEPT ![k] =
               [t EXCEPT !.step = "write", !.snap = RemoveFromLayout(disk[t.ws], t.pane)]]
        ELSE Finish(k)
  /\ UNCHANGED <<app, kills, world, history>>

\* ...and written without the pane.
ExitWrite(k) ==
  /\ At(k, "exit", "write")
  /\ disk' = Put(task[k].snap)
  /\ Finish(k)
  /\ UNCHANGED <<app, kills, jj, rows, shells, history>>

ExitFail(k) ==
  /\ Fault /\ (At(k, "exit", "read") \/ At(k, "exit", "write"))
  /\ Finish(k)
  /\ disturbed' = TRUE
  /\ UNCHANGED <<app, kills, world, used, strays, closed, reloads, faulty>>

-----------------------------------------------------------------------------
(* Input to a terminal that did not start: it is queued with a copy of the *)
(* layout and flushed to the daemon and to the store.                      *)

\* active_terminal_pane_id: the focus, or a terminal when it is not on one.
InputPanes(s) == IF s.focus \in Terminals(s) THEN {s.focus} ELSE Terminals(s)

\* send_input_to_active_terminal, to a live terminal.
TypeLive(p) ==
  /\ active # None /\ shown # None /\ p \in InputPanes(shown) /\ live[<<active, p>>] # None
  /\ shown' = [shown EXCEPT !.focus = p]
  /\ UNCHANGED <<listed, active, live, failed, pending, flushing, task, kills, world, history>>

\* The same to one that is not live, and schedule_terminal_flush.
TypeQueued(p, k) ==
  /\ active # None /\ shown # None /\ p \in InputPanes(shown) /\ live[<<active, p>>] = None
  /\ Len(pending) < MaxPending
  /\ shown' = [shown EXCEPT !.focus = p]
  /\ pending' = Append(pending,
       [ws |-> active, snap |-> [shown EXCEPT !.focus = p], pane |-> p])
  /\ IF flushing THEN UNCHANGED task ELSE Start(k, FlushTask)
  /\ flushing' = TRUE
  /\ Use({shown.ws})
  /\ UNCHANGED <<listed, active, live, failed, kills, world,
                 used, strays, closed, reloads, faulty, faults>>

FlushTake(k) ==
  /\ At(k, "flush", "wait")
  /\ IF pending = <<>> THEN flushing' = FALSE /\ Finish(k)
     ELSE /\ task' = [task EXCEPT ![k] =
               [task[k] EXCEPT !.step = "send", !.batch = pending, !.done = <<>>]]
          /\ UNCHANGED flushing
  /\ pending' = <<>>
  /\ UNCHANGED <<listed, active, shown, live, failed, kills, world, history>>

\* flush_terminal_inputs, up to the captures: what is not there is created
\* under its stable name, by the input or by capture_retach_pane.
FlushSend(k) ==
  /\ At(k, "flush", "send")
  /\ LET batch == task[k].batch
     IN shells' = shells \cup {<<batch[i].ws, batch[i].pane>> : i \in DOMAIN batch}
  /\ task' = [task EXCEPT ![k].step = "save"]
  /\ UNCHANGED <<app, kills, jj, rows, disk, history>>

\* persist_terminal_screen and save_snapshot, from the newest input to the
\* oldest, once for each terminal.
FlushSave(k) ==
  /\ At(k, "flush", "save") /\ task[k].batch # <<>>
  /\ LET t == task[k]
         input == Last(t.batch)
         s == [input.snap EXCEPT !.session[input.pane] =
                 IF @ = None THEN <<input.ws, input.pane>> ELSE @]
         rest == {i \in DOMAIN t.batch :
                    t.batch[i].ws # input.ws \/ t.batch[i].pane # input.pane}
     IN /\ disk' = Put(s)
        /\ task' = [task EXCEPT ![k] =
             [t EXCEPT !.batch = Pick(t.batch, rest), !.done = Append(t.done, s)]]
  /\ UNCHANGED <<app, kills, jj, rows, shells, history>>

\* apply_terminal_flush_snapshots: panes of the layout on the screen take over
\* the sessions, unless there is newer input for them.
FlushApply(k) ==
  /\ At(k, "flush", "save") /\ task[k].batch = <<>>
  /\ LET newer == {pending[i].pane : i \in DOMAIN pending}
         done == {i \in DOMAIN task[k].done : shown # None /\ task[k].done[i].ws = shown.ws}
         updates(p) == {i \in done : p \in Terminals(task[k].done[i])}
         latest(p) == CHOOSE i \in updates(p) : \A j \in updates(p) : j <= i
     IN shown' = IF shown = None THEN None
                 ELSE [shown EXCEPT !.session = [p \in Pane |->
                        IF p \in Panes(shown) \ newer /\ updates(p) # {}
                        THEN task[k].done[latest(p)].session[p] ELSE @[p]]]
  /\ task' = [task EXCEPT ![k] = FlushTask]
  /\ UNCHANGED <<listed, active, live, failed, pending, flushing, kills, world, history>>

\* Input is queued only for a terminal that did not start; that its session
\* cannot be reached now either does not count as another failure.
FlushFail(k) ==
  /\ At(k, "flush", "send") \/ At(k, "flush", "save")
  /\ task' = [task EXCEPT ![k] = FlushTask]
  /\ disturbed' = TRUE
  /\ UNCHANGED <<app, kills, world, used, strays, closed, reloads, faulty, faults>>

-----------------------------------------------------------------------------
(* Navigation operations: each changes JJ and the store, then loads the    *)
(* sidebar and a layout as the start of the application does, and puts     *)
(* both on the screen.                                                     *)

Starting == \E k \in Slot : task[k] # None /\ task[k].kind = "reload" /\ task[k].op = "start"

Navigate(k, op, step, w, to, want) ==
  /\ reloads < MaxReloads /\ ~Starting
  /\ reloads' = reloads + 1
  /\ Start(k, ReloadTask(op, step, w, to, want))
  /\ Use(Workspace)
  /\ UNCHANGED <<app, kills, world, used, strays, closed, faulty, faults>>

\* rename_project_root stays where it is, add_project_root goes to the first
\* workspace of the root.  What else they change is not modelled.
Reload(k) ==
  \E want \in {active} \cup listed : Navigate(k, "reload", "list", None, None, want)

\* create_workspace_for_root.
CreateWorkspace(w, k) == w \notin rows /\ Navigate(k, "create", "jj", w, None, w)

\* confirm_sidebar_rename_dialog and run_workspace_rename_operation.
RenameWorkspace(w, to, k) ==
  /\ w \in listed /\ to # w
  /\ Navigate(k, "rename", "check", w, to, IF active = w THEN to ELSE active)

\* confirm_and_forget_workspace.
ForgetWorkspace(w, k) ==
  /\ w \in listed /\ w # Default
  /\ Navigate(k, "forget", "jj", w, None, IF active = w THEN None ELSE active)

\* A step of operation op on the runtime: it goes on to step next.
Step(k, op, step, next) ==
  /\ At(k, "reload", step) /\ task[k].op = op
  /\ task' = [task EXCEPT ![k].step = next]
  /\ UNCHANGED <<app, kills, shells, history>>

CreateInJJ(k) ==
  /\ Step(k, "create", "jj", "list")
  /\ task[k].ws \notin jj /\ jj' = jj \cup {task[k].ws}
  /\ UNCHANGED <<rows, disk>>

ForgetInJJ(k) ==
  /\ Step(k, "forget", "jj", "delete")
  /\ task[k].ws \in jj /\ jj' = jj \ {task[k].ws}
  /\ UNCHANGED <<rows, disk>>

\* delete_workspace: no transaction holds its statements together.
DeleteLayout(k) ==
  /\ Step(k, "forget", "delete", "row")
  /\ disk' = Drop(task[k].ws)
  /\ UNCHANGED <<jj, rows>>

DeleteRow(k) ==
  /\ Step(k, "forget", "row", "list")
  /\ rows' = rows \ {task[k].ws}
  /\ UNCHANGED <<jj, disk>>

CheckName(k) ==
  /\ Step(k, "rename", "check", "jj")
  /\ task[k].ws \in rows /\ task[k].to \notin rows
  /\ UNCHANGED <<jj, rows, disk>>

RenameInJJ(k) ==
  /\ Step(k, "rename", "jj", "copy")
  /\ task[k].ws \in jj /\ task[k].to \notin jj
  /\ jj' = (jj \ {task[k].ws}) \cup {task[k].to}
  /\ UNCHANGED <<rows, disk>>

\* The store's rename_workspace reads the layout before its transaction...
RenameCopy(k) ==
  /\ At(k, "reload", "copy")
  /\ LET w == task[k].ws
     IN task' = [task EXCEPT ![k].step = "commit", ![k].snap =
          IF w \in DOMAIN disk THEN [disk[w] EXCEPT !.ws = task[k].to] ELSE None]
  /\ UNCHANGED <<app, kills, world, history>>

\* ...which moves the rows, to a key that must be free, and replaces the layout
\* by the copy.
RenameRows(k) ==
  /\ Step(k, "rename", "commit", "list")
  /\ LET w == task[k].ws
         to == task[k].to
     IN /\ w \in rows => to \notin rows
        /\ w \in DOMAIN disk => to \notin DOMAIN disk
        /\ rows' = IF w \in rows THEN (rows \ {w}) \cup {to} ELSE rows
        /\ disk' = IF w \notin DOMAIN disk THEN disk
                   ELSE [v \in (DOMAIN disk \ {w}) \cup {to} |->
                          IF v # to THEN disk[v]
                          ELSE IF task[k].snap # None THEN task[k].snap ELSE disk[w]]
  /\ UNCHANGED jj

\* What has to hold for a step fails, or the step itself.
Refused(t) ==
  CASE t.step = "jj" /\ t.op = "create" -> t.ws \in jj
    [] t.step = "jj" /\ t.op = "forget" -> t.ws \notin jj
    [] t.step = "jj" /\ t.op = "rename" -> t.ws \notin jj \/ t.to \in jj
    [] t.step = "check" -> t.ws \notin rows \/ t.to \in rows
    [] t.step = "commit" -> (t.ws \in rows /\ t.to \in rows)
                              \/ (t.ws \in DOMAIN disk /\ t.to \in DOMAIN disk)
    [] OTHER -> FALSE

ReloadFail(k) ==
  /\ task[k] # None /\ task[k].kind = "reload" /\ task[k].step # "apply"
  /\ IF Refused(task[k]) THEN UNCHANGED faults ELSE Fault /\ task[k].op # "start"
  /\ Finish(k)
  /\ disturbed' = TRUE
  /\ UNCHANGED <<app, kills, world, used, strays, closed, reloads, faulty>>

\* load_bootstrap_from_store: JJ lists its workspaces...
ReloadList(k) ==
  /\ At(k, "reload", "list")
  /\ task' = [task EXCEPT ![k].step = "upsert", ![k].list = jj]
  /\ UNCHANGED <<app, kills, world, history>>

\* ...they get rows; without any the sidebar is what the rows say.  The wanted
\* workspace is opened if it is listed, else the first.
ReloadUpsert(k) ==
  /\ At(k, "reload", "upsert")
  /\ LET t == task[k]
         list == IF t.list = {} THEN rows ELSE t.list
     IN /\ rows' = rows \cup t.list
        /\ \E w \in IF t.want \in list THEN {t.want}
                     ELSE IF list = {} THEN {None} ELSE list :
             task' = [task EXCEPT ![k] = [t EXCEPT
               !.step = IF w = None THEN "apply" ELSE "read", !.list = list, !.want = w]]
  /\ UNCHANGED <<app, kills, jj, disk, shells, history>>

\* Its layout is loaded as LoadRead and LoadCreate do.
ReloadRead(k) ==
  /\ At(k, "reload", "read")
  /\ LET w == task[k].want
     IN task' = [task EXCEPT
          ![k].step = IF w \in DOMAIN disk THEN "apply" ELSE "create",
          ![k].snap = IF w \in DOMAIN disk THEN disk[w] ELSE EmptyLayout(w)]
  /\ UNCHANGED <<app, kills, world, history>>

ReloadCreate(k) ==
  /\ At(k, "reload", "create")
  /\ task' = [task EXCEPT ![k].step = "apply"]
  /\ disk' = Put(task[k].snap)
  /\ UNCHANGED <<app, kills, jj, rows, shells, history>>

\* Slip: running terminals keep their keys.
KeepLive(w, to) == live

\* rekey_workspace_runtime_state: what belongs to w belongs to workspace to.
RekeyLive(w, to) ==
  [key \in Key |-> IF key[1] = w THEN None
                   ELSE IF key[1] = to /\ live[<<w, key[2]>>] # None THEN live[<<w, key[2]>>]
                   ELSE live[key]]

RekeyFailed(w, to) == {<<IF key[1] = w THEN to ELSE key[1], key[2]>> : key \in failed}

RekeyPending(w, to) ==
  [i \in DOMAIN pending |-> IF pending[i].ws = w
     THEN [pending[i] EXCEPT !.ws = to, !.snap.ws = to] ELSE pending[i]]

\* apply_bootstrap, after the rekeying of a rename.
ReloadApply(k) ==
  /\ At(k, "reload", "apply")
  /\ Finish(k)
  /\ LET t == task[k]
         renamed == t.op = "rename"
         lives == IF renamed THEN RekeyLive(t.ws, t.to) ELSE live
         fails == IF renamed THEN RekeyFailed(t.ws, t.to) ELSE failed
     IN /\ listed' = t.list /\ active' = t.want
        /\ pending' = IF renamed THEN RekeyPending(t.ws, t.to) ELSE pending
        /\ IF t.want = None
           THEN /\ shown' = None /\ live' = lives /\ failed' = fails
                /\ UNCHANGED <<shells, faults>>
           ELSE Present(t.want, t.snap, lives, fails)
  /\ UNCHANGED <<flushing, kills, jj, rows, disk, used, strays, closed,
                 reloads, disturbed, faulty>>

-----------------------------------------------------------------------------
User ==
  \E k \in Slot :
    \/ \E w \in Workspace :
         OpenWorkspace(w, k) \/ CreateWorkspace(w, k) \/ ForgetWorkspace(w, k)
    \/ \E w, to \in Workspace : RenameWorkspace(w, to, k)
    \/ \E p \in Pane : AddPane(p, k) \/ SelectPane(p, k) \/ ActivateTerminal(p)
                        \/ TypeLive(p) \/ TypeQueued(p, k)
    \/ NavigatePane(k) \/ CloseActivePane(k) \/ Reload(k)

TerminalEvent ==
  \E p \in Pane :
    \/ DrainOutput(p)
    \/ \E w \in Workspace, k \in Slot : TerminalExit(w, p, k)

TaskStep(k) ==
  \/ LoadRead(k) \/ LoadCreate(k) \/ LoadApply(k) \/ LoadFail(k)
  \/ SaveRun(k) \/ SaveFail(k)
  \/ ExitRead(k) \/ ExitWrite(k) \/ ExitFail(k)
  \/ FlushTake(k) \/ FlushSend(k) \/ FlushSave(k) \/ FlushApply(k) \/ FlushFail(k)
  \/ CreateInJJ(k) \/ ForgetInJJ(k) \/ DeleteLayout(k) \/ DeleteRow(k)
  \/ CheckName(k) \/ RenameInJJ(k) \/ RenameCopy(k) \/ RenameRows(k)
  \/ ReloadList(k) \/ ReloadUpsert(k) \/ ReloadRead(k) \/ ReloadCreate(k)
  \/ ReloadFail(k) \/ ReloadApply(k)

Next ==
  \/ User \/ TerminalEvent
  \/ (\E k \in Slot : TaskStep(k)) \/ (\E s \in Shell : KillRun(s) \/ KillFail(s))

Spec == Init /\ [][Next]_vars

-----------------------------------------------------------------------------
(* Properties.  Where operations on one workspace overlap, a save may undo *)
(* a later one and a load may show an older layout: some properties hold   *)
(* only until the first time they do, which "disturbed" remembers.         *)

\* The shapes of the state; a terminal runs and fails under keys of terminals
\* only.
TypeOK ==
  /\ listed \subseteq Workspace /\ active \in Workspace \cup {None}
  /\ shown \in Snapshot \cup {None}
  /\ live \in [Key -> Shell \cup {None}]
  /\ \A key \in Key : live[key] # None => key[2] \in Terminal /\ live[key][2] = key[2]
  /\ failed \subseteq Workspace \X Terminal
  /\ pending \in Seq(Input) /\ flushing \in BOOLEAN
  /\ task \in [Slot -> Tasks \cup {None}]
  /\ kills \subseteq Shell /\ jj \subseteq Workspace /\ rows \subseteq Workspace
  /\ DOMAIN disk \subseteq Workspace /\ \A w \in DOMAIN disk : disk[w] \in Snapshot
  /\ shells \subseteq Shell
  /\ used \subseteq Pane /\ strays \subseteq Pane /\ closed \subseteq Pane
  /\ reloads \in 0..MaxReloads
  /\ disturbed \in BOOLEAN /\ faulty \subseteq Workspace /\ faults \in 0..MaxFaults

\* While a layout is on the screen the active workspace is in the sidebar, always
\* (apply_bootstrap), and it is the workspace of that layout until operations on
\* one workspace overlap or one fails (the still_active check of
\* open_workspace, and the results of renames).
ShownIsActive ==
  shown # None => /\ active \in listed
                  /\ shown.ws = active \/ disturbed

\* Every layout, on the screen, in the store or on its way between them, has one
\* column for a pane and its focus on a pane that it has, whatever is added, closed,
\* ended, loaded and saved in any order (add_pane, remove_pane, and all that moves
\* the focus); but for a pane that was clicked on after it had left
\* (app_panes.rs 619).
LayoutSound ==
  /\ shown # None => Sound(shown, strays)
  /\ \A w \in DOMAIN disk : Sound(disk[w], strays)
  /\ \A k \in Slot : task[k] # None /\ task[k].kind \notin {"flush"} /\ task[k].snap # None
       => Sound(task[k].snap, strays)
  /\ \A i \in DOMAIN pending : Sound(pending[i].snap, strays)

\* An active workspace has its layout on the screen, or a load for it is in
\* flight that will put it there, whatever is opened, reloaded or renamed in
\* between; unless a load of it failed.
NeverBlank ==
  active # None /\ shown = None /\ active \notin faulty
    => \E k \in Slot : task[k] # None /\ task[k].kind = "load" /\ task[k].ws = active

\* When nothing is in flight for it, the layout on the screen is the stored
\* one, so that the next start shows the same panes; until operations on one
\* workspace overlap or one fails. Saves that overlap do end in another order.
SettledAgrees ==
  shown # None /\ ~disturbed /\ ~Busy(shown.ws)
    => shown.ws \in DOMAIN disk /\ disk[shown.ws].columns = shown.columns

\* A closed pane, or one whose terminal ended, does not come back on the
\* screen, until operations on one workspace overlap or one fails.
ClosedStaysClosed ==
  shown # None /\ ~disturbed => Panes(shown) \cap closed = {}

\* A pane has one running terminal, and a closed one has none
\* (close_active_pane, close_exited_live_terminal_panes, the rekeying of a
\* rename), until operations on one workspace overlap or one fails.
OneTerminal ==
  ~disturbed => \A key \in Key : live[key] # None =>
    /\ key[2] \notin closed
    /\ \A w \in Workspace : live[<<w, key[2]>>] # None => w = key[1]

\* A pane of the layout on the screen, of the stored one or of one that is
\* being saved.
Placed(key) ==
  \/ shown # None /\ shown.ws = key[1] /\ key[2] \in Panes(shown)
  \/ key[1] \in DOMAIN disk /\ key[2] \in Panes(disk[key[1]])
  \/ \E k \in Slot : /\ task[k] # None /\ task[k].kind = "save"
                     /\ task[k].snap.ws = key[1] /\ key[2] \in Panes(task[k].snap)

\* A terminal starts in a pane of its workspace's layout, and while it runs the
\* pane leaves the layouts only when the workspace leaves JJ, whatever
\* is saved, loaded and renamed meanwhile, until operations on one workspace
\* overlap or one fails.
LiveKeepsPane ==
  [][~disturbed' => \A key \in Key : live'[key] # None /\ ~Placed(key)' =>
       \/ key[1] \notin jj'
       \/ \E w \in Workspace : live[<<w, key[2]>>] # None /\ ~Placed(<<w, key[2]>>)]_vars

\* A pane leaves the stored layout of a workspace only if it was closed, or
\* with the workspace, until operations on one workspace overlap or one fails;
\* after that a late save does lose panes.
StoredPanesStay ==
  [][~disturbed' => \A w \in DOMAIN disk \cap DOMAIN disk' :
       Panes(disk[w]) \ Panes(disk'[w]) \subseteq closed']_vars
===============================================================================
