----------------------------- MODULE PaneActivity -----------------------------
(***************************************************************************)
(* The marks of panes with output or a notification that nobody has seen:  *)
(* the copy in memory, the copy in the store, the task that writes one to  *)
(* the other, and the reconciliation that reads it back every second       *)
(* (octty-app: app_activity.rs, bootstrap.rs 320, app_live_terminals.rs;   *)
(* octty-core: types.rs; octty-store: pane_activity.rs).                   *)
(*                                                                         *)
(* A workspace has one terminal pane here, and its identifier stands for   *)
(* both.  The clock advances between two handlers, so output is newer than *)
(* the last look at the pane.  The daemon reports no time of activity      *)
(* (octty-term/src/retach.rs 190), so that a reconciliation adds nothing   *)
(* to what it read but the rows that were missing.                         *)
(***************************************************************************)
EXTENDS Identifiers

CONSTANT
  Left  \* what the store may hold at the start

\* Whether something happened in a pane, output or a notification, since it
\* was last seen.
Activity == {"seen", "new"}

ASSUME ActivityAssumption == None \notin Activity /\ Left \subseteq Activity \cup {None}

VARIABLES
  mem,     \* pane_activity
  pending, \* pending_pane_activity_persistence
  persist, \* the task behind pane_activity_persist_active
  recon,   \* the task behind pane_activity_reconcile_active
  active,  \* active workspace
  shown,   \* its layout: being loaded, read, or on the screen with or without the pane
  live,    \* panes with a running terminal
  jobs,    \* tasks that were spawned when a pane closed
  rows,    \* table pane_activity
  panes,   \* terminal panes in table workspace_snapshots
  shells,  \* sessions of the daemon, by the name made of the workspace
  since,   \* history: what happened in a pane since it was last seen
  closed,  \* history: panes that were closed on the screen and not shown again
  late,    \* history: of those, the ones that an older task may bring back
  lost     \* history: marks that were overwritten in the store

activityVars == <<mem, pending, persist, recon, active, shown, live, jobs, rows,
                  panes, shells, since, closed, late, lost>>

Mark(a) == IF a = None THEN "seen" ELSE a
Nothing == [i \in Id |-> None]
Has(f) == {i \in Id : f[i] # None}
Idle == [step |-> "idle", batch |-> Nothing]
Resting == [step |-> "rest", skip |-> None, read |-> Nothing, todo |-> {}]

ActivityInit(i) ==
  /\ rows \in {[j \in Id |-> IF j = i THEN a ELSE None] : a \in Left}
  /\ mem = rows /\ since = [j \in Id |-> Mark(rows[j])]
  /\ pending = Nothing /\ persist = Idle /\ recon = Resting
  /\ active \in {i, None} /\ shown = IF active = i THEN "pane" ELSE "none"
  /\ live = {i} /\ panes = {i} /\ shells = {i}
  /\ jobs = {} /\ closed = {} /\ late = {} /\ lost = {}

-----------------------------------------------------------------------------
(* record_pane_activity, record_pane_attention and record_pane_seen.       *)

Record(i, a) ==
  /\ mem' = [mem EXCEPT ![i] = a]
  /\ pending' = [pending EXCEPT ![i] = a]
  /\ persist' = IF persist.step = "idle" THEN [persist EXCEPT !.step = "sleep"] ELSE persist

Note(i, a) == since' = [since EXCEPT ![i] = a]

OnlyMarks == UNCHANGED <<recon, active, shown, live, jobs, rows, panes, shells,
                          closed, late, lost>>

Focused(i) == active = i /\ shown = "pane"

\* drain_live_terminal_snapshots: a snapshot or a notification of a terminal.
\* Whoever looks at the pane has seen it.
Output(i) ==
  /\ i \in live
  /\ \/ Record(i, "new") /\ Note(i, "new")
     \/ Focused(i) /\ Record(i, "seen") /\ Note(i, "seen")
  /\ OnlyMarks

\* record_active_pane_seen: the window or the pane gets the focus.  Nobody asks
\* whether the pane is still there: a click in the last frame that was drawn
\* records a pane that has closed since.
Look(i) ==
  /\ active = i /\ shown \in {"pane", "none"}
  /\ Record(i, "seen") /\ Note(i, "seen")
  /\ late' = IF i \in live THEN late ELSE late \cup {i}
  /\ UNCHANGED <<recon, active, shown, live, jobs, rows, panes, shells, closed, lost>>

\* open_workspace; None is any workspace but these.
Open(i) ==
  /\ active # i /\ active' = i /\ shown' = "asked"
  /\ UNCHANGED <<mem, pending, persist, recon, live, jobs, rows, panes, shells,
                 since, closed, late, lost>>

ReadLayout ==
  /\ shown = "asked"
  /\ shown' = IF active \in panes THEN "found" ELSE "missing"
  /\ UNCHANGED <<mem, pending, persist, recon, active, live, jobs, rows, panes, shells,
                 since, closed, late, lost>>

\* Its layout is loaded: the panes on the screen are seen, and those that run in
\* no terminal are started.
Opened ==
  /\ shown \in {"found", "missing"}
  /\ IF shown = "found"
     THEN /\ shown' = "pane" /\ Record(active, "seen") /\ Note(active, "seen")
          /\ live' = live \cup {active} /\ shells' = shells \cup {active}
          /\ closed' = closed \ {active}
     ELSE shown' = "none" /\ UNCHANGED <<mem, pending, persist, since, live, shells, closed>>
  /\ UNCHANGED <<recon, active, jobs, rows, panes, late, lost>>

-----------------------------------------------------------------------------
(* schedule_pane_activity_persistence                                      *)

PersistTake ==
  /\ persist.step = "sleep"
  /\ persist' = IF Has(pending) = {} THEN Idle ELSE [step |-> "write", batch |-> pending]
  /\ pending' = Nothing
  /\ UNCHANGED <<mem, recon, active, shown, live, jobs, rows, panes, shells, since,
                 closed, late, lost>>

\* upsert_pane_activities, one row at a time.  A write under a name that no
\* layout has, after a rename, misses the row that has taken its place.
PersistWrite(i) ==
  /\ persist.step = "write" /\ persist.batch[i] # None
  /\ rows' = [rows EXCEPT ![i] = persist.batch[i]]
  /\ persist' = [persist EXCEPT !.batch[i] = None]
  /\ lost' = IF i \in panes THEN lost ELSE Id
  /\ UNCHANGED <<mem, pending, recon, active, shown, live, jobs, panes, shells, since,
                 closed, late>>

PersistFail ==
  /\ persist.step = "write" /\ Has(persist.batch) # {}
  /\ lost' = lost \cup Has(persist.batch)
  /\ persist' = [persist EXCEPT !.batch = Nothing]
  /\ UNCHANGED <<mem, pending, recon, active, shown, live, jobs, rows, panes, shells,
                 since, closed, late>>

\* Slip: the task ends without a look at what came meanwhile.
PersistEnds == Idle

PersistNext == IF Has(pending) = {} THEN Idle ELSE [persist EXCEPT !.step = "sleep"]

PersistDone ==
  /\ persist.step = "write" /\ Has(persist.batch) = {}
  /\ persist' = PersistNext
  /\ UNCHANGED <<mem, pending, recon, active, shown, live, jobs, rows, panes, shells,
                 since, closed, late, lost>>

-----------------------------------------------------------------------------
(* schedule_pane_activity_reconciliation and reconcile_pane_activity       *)

ReconStart ==
  /\ recon.step = "rest"
  /\ recon' = [Resting EXCEPT !.step = "rows", !.skip = active]
  /\ UNCHANGED <<mem, pending, persist, active, shown, live, jobs, rows, panes, shells,
                 since, closed, late, lost>>

ReconRows ==
  /\ recon.step = "rows"
  /\ recon' = [recon EXCEPT !.step = "layouts", !.read = rows]
  /\ UNCHANGED <<mem, pending, persist, active, shown, live, jobs, rows, panes, shells,
                 since, closed, late, lost>>

\* The stored panes of the other workspaces whose session the daemon has.  It is
\* asked for one pane after the listing: with one pane that is one step.
ReconLayouts ==
  LET found == (panes \ {recon.skip}) \cap shells IN
  /\ recon.step = "layouts"
  /\ recon' = [recon EXCEPT !.step = "write", !.todo = found,
       !.read = [i \in Id |-> IF i \in found THEN Mark(@[i]) ELSE None]]
  /\ late' = late \cup (found \ live)
  /\ UNCHANGED <<mem, pending, persist, active, shown, live, jobs, rows, panes, shells,
                 since, closed, lost>>

\* A row that changed since it was read loses the change.
ReconWrite(i) ==
  /\ recon.step = "write" /\ i \in recon.todo
  /\ recon' = [recon EXCEPT !.todo = @ \ {i}]
  /\ rows' = [rows EXCEPT ![i] = recon.read[i]]
  /\ lost' = IF Mark(rows[i]) = recon.read[i] THEN lost ELSE lost \cup {i}
  /\ UNCHANGED <<mem, pending, persist, active, shown, live, jobs, panes, shells,
                 since, closed, late>>

ReconShow ==
  /\ recon.step = "write" /\ recon.todo = {}
  /\ recon' = Resting
  /\ mem' = [i \in Id |-> IF recon.read[i] = None THEN mem[i] ELSE recon.read[i]]
  /\ UNCHANGED <<pending, persist, active, shown, live, jobs, rows, panes, shells,
                 since, closed, late, lost>>

\* The store or the daemon fails, before or after some of the writes.
ReconFail ==
  /\ recon.step # "rest" /\ recon' = Resting
  /\ UNCHANGED <<mem, pending, persist, active, shown, live, jobs, rows, panes, shells,
                 since, closed, late, lost>>

-----------------------------------------------------------------------------
(* A pane closes.                                                          *)

\* Slip: the copy that waits to be written stays.
PendingStays(i) == pending

PendingWithout(i) == [pending EXCEPT ![i] = None]

\* On the screen (close_pane, close_exited_active_terminal_pane): its activity
\* is removed here and, by delete_pane_activity, in the store, while other
\* tasks save the layout and end the session.
Close(i) ==
  /\ Focused(i) /\ i \in live
  /\ live' = live \ {i} /\ shown' = "none"
  /\ mem' = [mem EXCEPT ![i] = None]
  /\ pending' = PendingWithout(i)
  /\ jobs' = jobs \cup {<<"row", i>>, <<"layout", i>>, <<"kill", i>>}
  /\ closed' = closed \cup {i}
  /\ late' = IF \/ persist.batch[i] # None
                \/ recon.step # "rest" /\ recon.skip # i
             THEN late \cup {i} ELSE late
  /\ UNCHANGED <<persist, recon, active, rows, panes, shells, since, lost>>

\* Elsewhere (close_exited_stored_terminal_pane): only the store is told.
Exit(i) ==
  /\ i \in live /\ ~Focused(i)
  /\ live' = live \ {i}
  /\ jobs' = jobs \cup {<<"exit", i>>, <<"kill", i>>}
  /\ UNCHANGED <<mem, pending, persist, recon, active, shown, rows, panes, shells,
                 since, closed, late, lost>>

\* A task ends.  The one of a pane elsewhere goes on to delete the activity
\* if the layout had the pane.
Job(k, i) ==
  /\ <<k, i>> \in jobs
  /\ jobs' = (jobs \ {<<k, i>>}) \cup (IF k = "exit" /\ i \in panes THEN {<<"row", i>>} ELSE {})
  /\ rows' = IF k = "row" THEN [rows EXCEPT ![i] = None] ELSE rows
  /\ panes' = IF k \in {"layout", "exit"} THEN panes \ {i} ELSE panes
  /\ shells' = IF k = "kill" THEN shells \ {i} ELSE shells
  /\ lost' = IF k = "row" /\ i \in live THEN lost \cup {i} ELSE lost
  /\ UNCHANGED <<mem, pending, persist, recon, active, shown, live, since, closed, late>>

ActivityEvent(i) == Output(i) \/ Look(i) \/ Close(i) \/ Exit(i)

\* What the application does by itself, besides ReconStart every second.
ActivityStep ==
  \/ ReadLayout \/ Opened \/ PersistTake \/ PersistDone
  \/ ReconRows \/ ReconLayouts \/ ReconShow
  \/ \E i \in Id : PersistWrite(i) \/ ReconWrite(i)
  \/ \E k \in {"row", "layout", "exit", "kill"}, i \in Id : Job(k, i)

ActivityFails == PersistFail \/ ReconFail

-----------------------------------------------------------------------------
Marks == [Id -> Activity \cup {None}]

ActivityOK ==
  /\ mem \in Marks /\ pending \in Marks /\ rows \in Marks /\ since \in [Id -> Activity]
  /\ persist \in [step : {"idle", "sleep", "write"}, batch : Marks]
  /\ recon \in [step : {"rest", "rows", "layouts", "write"}, skip : Id \cup {None},
                 read : Marks, todo : SUBSET Id]
  /\ active \in Id \cup {None} /\ (shown = "found" => active \in Id)
  /\ shown \in {"asked", "found", "missing", "pane", "none"}
  /\ live \subseteq Id /\ panes \subseteq Id /\ shells \subseteq Id
  /\ jobs \subseteq {"row", "layout", "exit", "kill"} \X Id
  /\ closed \subseteq Id /\ late \subseteq Id /\ lost \subseteq Id
=============================================================================
